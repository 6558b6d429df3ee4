-------------------------- MODULE SharedAdmission --------------------------
(* Admission against limits that several gateways share through one          *)
(* database: ReserveShared books a call on every rate, quota and budget that *)
(* matches it, FinishShared settles the booking from what the provider       *)
(* reported (internal/authority/pgstore/shared*.go), and the gateway's side  *)
(* of both (internal/server/requestpolicy).                                  *)
(*                                                                           *)
(* A transaction holds SHARE locks on policies, keys, teams and the identity *)
(* declaration while it reserves, and row locks on the accounts and counters *)
(* it changes, taken one by one; what it writes appears at its commit.       *)
EXTENDS Pricing, Sequences, SequencesExt

CONSTANTS
  SharedAttempts,      \* calls to a provider, each admitted once
  Order,         \* the limits that match the caller, in the order of their keys
  Kind,          \* Kind[c]: "rpm", "tpm", "tokens" or "microUSD"
  Budgets,       \* the limits backed by an account of the budget authority
  Definitions,   \* Definitions[c]: the definitions an operator may give limit c
  NoLimit,       \* the limit is not defined
  Rate,          \* the price of the model called
  ContextWindow, \* its context window
  Reports,       \* what providers report of a call
  Scale,         \* clock ticks per minute: the unit rates refill in
  Period,        \* clock ticks per calendar window
  LastInstant,   \* bound on the clock
  KeyExpiry,     \* the tick at which the caller's key expires
  MaxEdits,      \* bound on the edits of the shared documents
  NoTx,
  NoClaim

SharedLimits == {Order[i] : i \in 1..Len(Order)}

Documents == {"policies", "keys", "identity"}

ASSUME SharedAssumption ==
  /\ Order \in Seq(SharedLimits)
  /\ Budgets \subseteq {c \in SharedLimits : Kind[c] = "microUSD"}
  /\ Scale \in Nat \ {0} /\ Period \in Nat \ {0}
  /\ \A c \in SharedLimits : Kind[c] \in {"rpm", "tpm", "tokens", "microUSD"}

VARIABLES
  clock,     \* the database's clock
  defs,      \* the definition of each limit
  version,   \* the revision of each shared document
  counters,  \* the shared_counters rows, with their rate segments
  accounts,  \* the authority_accounts rows
  permits,   \* the shared_permits row of each attempt, with its bookings
  tx,        \* the open transaction of each attempt
  attempt    \* the gateway's side of each attempt

sharedVars == <<clock, defs, version, counters, accounts, permits, tx, attempt>>

-----------------------------------------------------------------------------
(* Limits, windows and rows.                                           *)

IsRate(c) == Kind[c] \in {"rpm", "tpm"}

Windows == 0..(LastInstant \div Period)

\* The window a limit is counted in: a rate has one bucket that refills.
SharedWindow(c, t) == IF IsRate(c) THEN 0 ELSE t \div Period

Active == {c \in SharedLimits : defs[c] # NoLimit}

\* The most a call can report: every category fills the window.
SharedBound == [tokens |-> 5 * ContextWindow,
          cost   |-> AuthorityBound(Rate, ContextWindow).bound]

\* What a call books on a limit.
BoundOf(c) ==
  CASE Kind[c] = "rpm" -> 1
    [] Kind[c] = "microUSD" -> SharedBound.cost
    [] OTHER -> SharedBound.tokens

NewCounter == [used |-> 0, reserved |-> 0, debt |-> 0, rate |-> 0,
               updated |-> 0, frozen |-> FALSE, segments |-> << >>]

\* A permit just booked.
NewPermits ==
  [terminal : {""}, invalid : {FALSE},
   bookings : UNION {[cs -> [window : Nat, amount : {BoundOf(c) : c \in SharedLimits}, hard : BOOLEAN]] :
                       cs \in SUBSET SharedLimits}]

ASSUME PermitAssumption ==
  /\ NoClaim \notin NewPermits
  /\ \A c \in SharedLimits : Definitions[c] \ {NoLimit} \subseteq [limit : Nat, hard : BOOLEAN]

NewAccount == [encumbered |-> 0, consumed |-> 0, soft |-> 0, pending |-> 0,
               frozen |-> FALSE]

\* The limits whose rows a transaction locks: a reservation those in force at its
\* first look at the clock, a settlement those its permit is booked on.
LockedLimits(e) == IF tx[e].op = "reserve" THEN Active ELSE DOMAIN permits[e].bookings

WindowOf(e, c) == IF tx[e].op = "reserve" THEN SharedWindow(c, tx[e].now)
                  ELSE permits[e].bookings[c].window

\* Their rows: accounts are locked before counters, each in the order of their keys.
Row(kind, e, c) == <<kind, c, WindowOf(e, c)>>

LockRows(e) ==
  {Row("account", e, c) : c \in LockedLimits(e) \cap Budgets} \cup {Row("counter", e, c) : c \in LockedLimits(e)}

LockRank(row) ==
  LET place == CHOOSE i \in 1..Len(Order) : Order[i] = row[2]
  IN IF row[1] = "account" THEN place ELSE Len(Order) + place

Unlocked(e) == LockRows(e) \ tx[e].held

AllLocked(e) == Unlocked(e) = {}

\* Mutant of NextRows: a settlement visits its bookings last to first.
NextRowsReversed(e) ==
  {row \in Unlocked(e) : \A other \in Unlocked(e) :
     IF tx[e].op = "reserve" THEN LockRank(row) <= LockRank(other) ELSE LockRank(other) <= LockRank(row)}

\* The row e locks next.
NextRows(e) == {row \in Unlocked(e) : \A other \in Unlocked(e) : LockRank(row) <= LockRank(other)}

\* The next row e needs is held by f.
Waits(e, f) ==
  /\ e # f /\ tx[e] # NoTx /\ tx[f] # NoTx
  /\ NextRows(e) \cap tx[f].held # {}

\* Reservations share the policies, keys, teams and identity declaration.
SharesDocuments(e) == tx[e] # NoTx /\ tx[e].op = "reserve"

-----------------------------------------------------------------------------
(* Rates refill as time passes; each booking's part of the debt is a segment. *)

Total(segments) == FoldLeft(LAMBDA sum, s : sum + s.left, 0, segments)

\* The slower of the old and the new rate pays the debt since the last update.
Refill(row, now, rate) ==
  LET elapsed == (now - row.updated) * Min({row.rate, rate})
      retired == IF row.rate > 0 THEN Min({row.debt, elapsed}) ELSE 0
  IN [row EXCEPT !.debt = @ - retired, !.rate = rate, !.updated = now]

\* Mutant of RetireOldest: the segments do not follow the refill.
RetireNothing(segments, retired) == segments

\* What a refill pays is taken from the oldest segments, and paid ones vanish.
RetireOldest(segments, retired) ==
  LET prior(i) == Total(SubSeq(segments, 1, i - 1))
      left(i)  == Max({0, segments[i].left - Max({0, retired - prior(i)})})
  IN SelectSeq([i \in 1..Len(segments) |-> [segments[i] EXCEPT !.left = left(i)]],
               LAMBDA s : s.left > 0)

RefillSharedRate(row, c, now) ==
  LET rate == IF IsRate(c) THEN defs[c].limit ELSE 0
      next == Refill(row, now, rate)
  IN [next EXCEPT !.segments = RetireOldest(@, row.debt - next.debt)]

\* A settlement gives back no more than the part of the booking not yet paid.
ReturnSharedRate(row, e, refund, known) ==
  LET mine == {i \in 1..Len(row.segments) : row.segments[i].of = e}
      s    == CHOOSE i \in mine : TRUE
      back == Min({refund * Scale, row.segments[s].left})
      rest == [row.segments EXCEPT ![s].left = @ - back, ![s].uncertain = ~known]
  IN IF mine = {} THEN row
     ELSE [row EXCEPT !.debt = @ - back,
                      !.segments = SelectSeq(rest, LAMBDA x : x.left > 0)]

-----------------------------------------------------------------------------
(* ReserveShared                                                             *)

\* The amount already booked on a limit, the authority's account included.
AlreadyUsed(c, w) == IF c \in Budgets
              THEN accounts[c, w].encumbered + accounts[c, w].soft
              ELSE counters[c, w].used

\* A call does not fit a hard limit; a soft one only counts.
Exhausted(c, w, now) ==
  /\ defs[c].hard
  /\ IF IsRate(c)
     THEN RefillSharedRate(counters[c, w], c, now).debt + BoundOf(c) * Scale
            > defs[c].limit * Scale
     ELSE AlreadyUsed(c, w) + BoundOf(c) > defs[c].limit

Overflows(c, w) ==
  \/ AlreadyUsed(c, w) + BoundOf(c) > MaxInt64
  \/ counters[c, w].used + BoundOf(c) > MaxInt64
  \/ counters[c, w].reserved + BoundOf(c) > MaxInt64

Frozen(c, w) == counters[c, w].frozen \/ (c \in Budgets /\ accounts[c, w].frozen)

BookCounter(row, c, e, now) ==
  LET due == RefillSharedRate(row, c, now)
      n   == BoundOf(c)
  IN [due EXCEPT !.used = @ + n, !.reserved = @ + n,
                 !.debt = IF IsRate(c) THEN @ + n * Scale ELSE @,
                 !.segments = IF IsRate(c) /\ n > 0
                              THEN Append(@, [of |-> e, left |-> n * Scale, uncertain |-> TRUE])
                              ELSE @]

BookAccount(row, c) ==
  LET n == BoundOf(c)
  IN IF defs[c].hard THEN [row EXCEPT !.encumbered = @ + n]
     ELSE [row EXCEPT !.soft = @ + n, !.pending = @ + n]

\* The gateway authenticates the caller and takes its policies; both may be
\* out of date when the call is admitted.
Arrive(e) ==
  /\ attempt[e].phase = "new"
  /\ attempt' = [attempt EXCEPT ![e].phase = "ready", ![e].saw = version]
  /\ UNCHANGED <<clock, defs, version, counters, accounts, permits, tx>>

\* Mutant of SnapshotCurrent: the policies' generation is not compared.
SnapshotCurrentKeysOnly(e) ==
  \A d \in Documents \ {"policies"} : attempt[e].saw[d] = version[d]

\* The identity declaration, the key with its team, and the policies are those
\* the gateway decided with.
SnapshotCurrent(e) == \A d \in Documents : attempt[e].saw[d] = version[d]

\* The transaction opens, shares the documents and compares them; a call the
\* gateway cannot bound, and one decided on an old snapshot, is refused.
BeginReserve(e) ==
  /\ attempt[e].phase = "ready" /\ tx[e] = NoTx
  /\ IF /\ AuthorityBound(Rate, ContextWindow).ok /\ SharedBound.tokens <= MaxInt64
        /\ SnapshotCurrent(e) /\ clock < KeyExpiry
     THEN /\ tx' = [tx EXCEPT ![e] = [op |-> "reserve", now |-> clock, held |-> {}]]
          /\ attempt' = [attempt EXCEPT ![e].phase = "reserving"]
     ELSE /\ attempt' = [attempt EXCEPT ![e].phase = "refused"]
          /\ UNCHANGED tx
  /\ UNCHANGED <<clock, defs, version, counters, accounts, permits>>

LockNext(e) ==
  /\ tx[e] # NoTx
  /\ \A f \in SharedAttempts : ~Waits(e, f)
  /\ \E row \in NextRows(e) : tx' = [tx EXCEPT ![e].held = @ \cup {row}]
  /\ UNCHANGED <<clock, defs, version, counters, accounts, permits, attempt>>

\* Mutant of CheckClock: only the clock read before the locks is trusted.
CheckClockOnce(e) == TRUE

\* The windows and the key are still current once every lock is held.
CheckClock(e) ==
  /\ clock < KeyExpiry
  /\ \A c \in Active : SharedWindow(c, clock) = WindowOf(e, c)

Admissible(e) ==
  /\ CheckClock(e)
  /\ \A c \in Active : LET w == WindowOf(e, c)
                       IN ~Frozen(c, w) /\ ~Exhausted(c, w, clock) /\ ~Overflows(c, w)

\* With every row locked the call is booked on all its limits or on none. When
\* the commit's answer is lost the gateway does not dispatch, and the booking
\* stays.
CommitReserve(e, told) ==
  /\ tx[e] # NoTx /\ tx[e].op = "reserve" /\ AllLocked(e)
  /\ Admissible(e)
  /\ LET w(c) == WindowOf(e, c)
     IN /\ counters' = [id \in DOMAIN counters |->
              IF id[1] \in Active /\ id[2] = w(id[1])
              THEN BookCounter(counters[id], id[1], e, clock) ELSE counters[id]]
        /\ accounts' = [id \in DOMAIN accounts |->
              IF id[1] \in Active /\ id[2] = w(id[1])
              THEN BookAccount(accounts[id], id[1]) ELSE accounts[id]]
        /\ permits' = [permits EXCEPT ![e] =
              [terminal |-> "", invalid |-> FALSE,
               bookings |-> [c \in Active |-> [window |-> w(c), amount |-> BoundOf(c),
                                               hard |-> defs[c].hard]]]]
  /\ tx' = [tx EXCEPT ![e] = NoTx]
  /\ attempt' = [attempt EXCEPT ![e].phase = IF told THEN "permitted" ELSE "refused"]
  /\ UNCHANGED <<clock, defs, version>>

\* The call is denied, a row is frozen, the window moved on, or the five
\* seconds of the transaction are over: nothing is written.
RollbackReserve(e) ==
  /\ tx[e] # NoTx /\ tx[e].op = "reserve"
  /\ tx' = [tx EXCEPT ![e] = NoTx]
  /\ attempt' = [attempt EXCEPT ![e].phase = "refused"]
  /\ UNCHANGED <<clock, defs, version, counters, accounts, permits>>

\* The call goes to the provider.
Dispatch(e) ==
  /\ attempt[e].phase = "permitted"
  /\ attempt' = [attempt EXCEPT ![e].phase = "dispatched"]
  /\ UNCHANGED <<clock, defs, version, counters, accounts, permits, tx>>

-----------------------------------------------------------------------------
(* FinishShared and CancelShared                                             *)

\* What the gateway makes of the provider's report: the tokens and the cost it
\* can vouch for, and whether the report contradicts itself.
SettleShared(report, complete) ==
  LET usage  == AuthorityUsage(report, ContextWindow)
      tokens == AuthorityTokens(report, ContextWindow)
      cost   == CostUSDMicrosChecked(Rate, usage.billed)
      wrong  == usage.invalid \/ tokens.invalid
  IN [terminal |-> "finish", complete |-> complete,
      tokens |-> IF tokens.exact /\ ~wrong THEN tokens.total ELSE NoCount,
      cost |-> IF usage.exact /\ ~wrong /\ cost.ok THEN cost.cost ELSE NoCount,
      invalid |-> wrong \/ (usage.exact /\ ~cost.ok)]

Canceled == [terminal |-> "cancel", complete |-> FALSE, tokens |-> NoCount,
             cost |-> NoCount, invalid |-> FALSE]

\* The settlement claims more than the permit allowed for.
BeyondBound(s) ==
  \/ s.tokens # NoCount /\ s.tokens \notin 0..SharedBound.tokens
  \/ s.cost # NoCount /\ s.cost \notin 0..SharedBound.cost

\* How much of a booking stays, and whether that is final.
Retained(c, booking, s) ==
  LET value == IF Kind[c] = "microUSD" THEN s.cost ELSE s.tokens
  IN IF s.terminal = "cancel" THEN [amount |-> 0, known |-> TRUE]
     ELSE IF Kind[c] = "rpm" THEN [amount |-> booking.amount, known |-> TRUE]
     ELSE IF ~s.complete \/ value = NoCount THEN [amount |-> booking.amount, known |-> FALSE]
     ELSE [amount |-> value, known |-> TRUE]

\* The counter of a settled booking: a rate forgets the booking and keeps the
\* debt it did not give back, a total keeps what was used and keeps reserving
\* what may have been.
SettleCounter(row, c, e, booking, s) ==
  LET r == Retained(c, booking, s)
      refund == booking.amount - r.amount
  IN IF IsRate(c)
     THEN [ReturnSharedRate(row, e, refund, r.known) EXCEPT
             !.used = @ - booking.amount, !.reserved = @ - booking.amount]
     ELSE [row EXCEPT !.used = @ - refund,
                      !.reserved = IF r.known THEN @ - booking.amount ELSE @]

SettleAccount(row, c, booking, s) ==
  LET r == Retained(c, booking, s)
      refund == booking.amount - r.amount
  IN IF booking.hard
     THEN [row EXCEPT !.encumbered = @ - refund, !.consumed = @ + r.amount]
     ELSE [row EXCEPT !.soft = @ - refund, !.pending = @ - booking.amount]

\* A report that cannot be true refunds nothing and stops the limit for good.
FreezeAccount(row, booking) ==
  [row EXCEPT !.frozen = TRUE,
              !.pending = IF booking.hard THEN @ ELSE @ - booking.amount]

\* The gateway settles once: with the provider's report, with nothing when the
\* attempt ends without one, or by cancelling before dispatch. The permit's row
\* is locked first.
BeginTerminal(e, s) ==
  /\ attempt[e].phase \in {"permitted", "dispatched"}
  /\ permits[e].terminal = ""
  /\ s = Canceled => attempt[e].phase = "permitted"
  /\ tx' = [tx EXCEPT ![e] = [op |-> "terminal", now |-> clock, held |-> {}]]
  /\ attempt' = [attempt EXCEPT ![e].phase = "settling", ![e].settlement = s]
  /\ UNCHANGED <<clock, defs, version, counters, accounts, permits>>

CommitTerminal(e) ==
  LET s == attempt[e].settlement
      bookings == permits[e].bookings
      wrong == s.invalid \/ BeyondBound(s)
      booked(id) == id[1] \in DOMAIN bookings /\ id[2] = bookings[id[1]].window
  IN /\ tx[e] # NoTx /\ tx[e].op = "terminal" /\ AllLocked(e)
     /\ counters' = [id \in DOMAIN counters |->
           IF ~booked(id) THEN counters[id]
           ELSE IF wrong THEN [counters[id] EXCEPT !.frozen = TRUE]
           ELSE SettleCounter(counters[id], id[1], e, bookings[id[1]], s)]
     /\ accounts' = [id \in DOMAIN accounts |->
           IF ~booked(id) THEN accounts[id]
           ELSE IF wrong THEN FreezeAccount(accounts[id], bookings[id[1]])
           ELSE SettleAccount(accounts[id], id[1], bookings[id[1]], s)]
     /\ permits' = [permits EXCEPT ![e].terminal = s.terminal, ![e].invalid = wrong]
     /\ tx' = [tx EXCEPT ![e] = NoTx]
     /\ attempt' = [attempt EXCEPT ![e].phase = "done"]
     /\ UNCHANGED <<clock, defs, version>>

\* The settlement fails; the gateway does not try again, and the booking stays.
RollbackTerminal(e) ==
  /\ tx[e] # NoTx /\ tx[e].op = "terminal"
  /\ tx' = [tx EXCEPT ![e] = NoTx]
  /\ attempt' = [attempt EXCEPT ![e].phase = "done"]
  /\ UNCHANGED <<clock, defs, version, counters, accounts, permits>>

-----------------------------------------------------------------------------
(* Operators, time and the specification.                                    *)

\* An operator writes a document, which waits for the reservations that share
\* it; a policy may change the definition of one limit.
Edit(d, c, def) ==
  /\ \A e \in SharedAttempts : ~SharesDocuments(e)
  /\ MapThenSumSet(LAMBDA x : version[x], Documents) < MaxEdits
  /\ version' = [version EXCEPT ![d] = @ + 1]
  /\ defs' = IF d = "policies" THEN [defs EXCEPT ![c] = def] ELSE defs
  /\ UNCHANGED <<clock, counters, accounts, permits, tx, attempt>>

SharedTick ==
  /\ clock < LastInstant
  /\ clock' = clock + 1
  /\ UNCHANGED <<defs, version, counters, accounts, permits, tx, attempt>>

InitShared ==
  /\ clock = 0
  /\ defs \in {f \in [SharedLimits -> UNION {Definitions[c] : c \in SharedLimits}] :
                 \A c \in SharedLimits : f[c] \in Definitions[c]}
  /\ version = [d \in Documents |-> 0]
  /\ counters = [id \in SharedLimits \X Windows |-> NewCounter]
  /\ accounts = [id \in Budgets \X Windows |-> NewAccount]
  /\ permits = [e \in SharedAttempts |-> NoClaim]
  /\ tx = [e \in SharedAttempts |-> NoTx]
  /\ attempt = [e \in SharedAttempts |-> [phase |-> "new", saw |-> version,
                                    settlement |-> Canceled]]

NextShared ==
  \/ SharedTick
  \/ \E d \in Documents, c \in SharedLimits : \E def \in Definitions[c] : Edit(d, c, def)
  \/ \E e \in SharedAttempts :
       \/ Arrive(e) \/ BeginReserve(e) \/ LockNext(e)
       \/ \E told \in BOOLEAN : CommitReserve(e, told)
       \/ RollbackReserve(e) \/ Dispatch(e)
       \/ \E r \in Reports, complete \in BOOLEAN : BeginTerminal(e, SettleShared(r, complete))
       \/ BeginTerminal(e, Canceled)
       \/ CommitTerminal(e) \/ RollbackTerminal(e)

SharedSpec == InitShared /\ [][NextShared]_sharedVars

-----------------------------------------------------------------------------
(* Properties                                                                *)

SharedTypeOK ==
  /\ clock \in 0..LastInstant
  /\ version \in [Documents -> 0..MaxEdits]
  /\ \A c \in SharedLimits : defs[c] \in Definitions[c]
  /\ \A id \in DOMAIN counters : LET row == counters[id] IN
       /\ row.used \in 0..MaxInt64 /\ row.reserved \in 0..row.used
       /\ row.debt \in Nat /\ row.updated \in 0..clock
  /\ \A id \in DOMAIN accounts : LET row == accounts[id] IN
       /\ row.encumbered \in 0..MaxInt64 /\ row.consumed \in 0..row.encumbered
       /\ row.soft \in 0..MaxInt64 /\ row.pending \in 0..row.soft

\* The attempts booked on limit c in window w.
Booked(c, w) ==
  {e \in SharedAttempts : /\ permits[e] # NoClaim
                    /\ c \in DOMAIN permits[e].bookings
                    /\ permits[e].bookings[c].window = w}

Amount(e, c) == permits[e].bookings[c].amount

\* A booking without a valid end: it may have been used in full.
Open(e) == permits[e].terminal = "" \/ permits[e].invalid

Settled(e, c) == Retained(c, permits[e].bookings[c], attempt[e].settlement)

\* What a booking still holds back, and the part of it that may yet change.
HeldBack(e, c)  == IF Open(e) THEN Amount(e, c) ELSE Settled(e, c).amount
Unsettled(e, c) == IF Open(e) \/ ~Settled(e, c).known THEN Amount(e, c) ELSE 0

Sum(S, f(_)) == MapThenSumSet(f, S)

\* Every counter and account equals the sum of its bookings, whatever calls
\* interleave and wherever one of them stops: settleSharedBooking, sharedBook
\* and the rate segments never lose a unit or count it twice.
BooksMatch ==
  /\ \A id \in DOMAIN counters :
       LET c == id[1]
           B == Booked(c, id[2])
           row == counters[id]
       IN IF IsRate(c)
          THEN /\ row.used = Sum({e \in B : Open(e)}, LAMBDA e : Amount(e, c))
               /\ row.reserved = row.used
               /\ row.debt = Total(row.segments)
          ELSE /\ row.used = Sum(B, LAMBDA e : HeldBack(e, c))
               /\ row.reserved = Sum(B, LAMBDA e : Unsettled(e, c))
  /\ \A id \in DOMAIN accounts :
       LET c == id[1]
           hard == {e \in Booked(c, id[2]) : permits[e].bookings[c].hard}
           soft == Booked(c, id[2]) \ hard
           row == accounts[id]
       IN /\ row.encumbered = Sum(hard, LAMBDA e : HeldBack(e, c))
          /\ row.consumed = Sum({e \in hard : ~Open(e)}, LAMBDA e : HeldBack(e, c))
          /\ row.soft = Sum(soft, LAMBDA e : HeldBack(e, c))
          /\ row.pending = Sum({e \in soft : permits[e].terminal = ""}, LAMBDA e : Amount(e, c))

\* What attempt e may really have used of limit c: nothing unless it was sent,
\* and its full bound unless the provider's complete report says less.
SharedSpent(e, c) ==
  LET s == attempt[e].settlement
      value == IF Kind[c] = "microUSD" THEN s.cost ELSE s.tokens
  IN IF attempt[e].phase \notin {"dispatched", "settling", "done"} THEN 0
     ELSE IF attempt[e].phase # "dispatched" /\ s = Canceled THEN 0
     ELSE IF /\ attempt[e].phase # "dispatched" /\ Kind[c] # "rpm"
             /\ s.complete /\ value # NoCount
          THEN value ELSE Amount(e, c)

Largest(c) == Max({d.limit : d \in Definitions[c] \ {NoLimit}})

AllHard(c, w) == \A e \in Booked(c, w) : permits[e].bookings[c].hard

\* What calls may have used stays within a hard budget or quota in every window,
\* and within a rate's burst plus what time has paid back, however late and with
\* whatever report each of them ends (ReserveShared, refill, settlement).
LimitsHold ==
  \A c \in SharedLimits, w \in Windows : AllHard(c, w) =>
    LET spent == Sum(Booked(c, w), LAMBDA e : SharedSpent(e, c))
    IN IF IsRate(c) THEN Scale * spent <= Largest(c) * Scale + Largest(c) * clock
       ELSE spent <= Largest(c)

\* No transactions wait for each other in a circle, because every one of them
\* locks accounts before counters and both in the order of their keys.
NoWaitCycle ==
  \A S \in (SUBSET SharedAttempts) \ {{}} : \E e \in S : \A f \in S : ~Waits(e, f)

\* A call is booked only under the identity, key and policies its gateway used,
\* and in the window the database's clock is in when it is booked.
AdmittedOnCurrent ==
  \A e \in SharedAttempts : permits[e] = NoClaim /\ permits'[e] # NoClaim =>
    /\ attempt[e].saw = version
    /\ \A c \in DOMAIN permits'[e].bookings :
         permits'[e].bookings[c].window = SharedWindow(c, clock)

\* A limit is frozen only by a report that contradicts itself: one whose counts
\* fit the context window never exceeds the token and cost bounds reserved for
\* it, whichever price tier it falls in.
OnlyFalseReportsFreeze ==
  \A e \in SharedAttempts : permits[e] # NoClaim /\ permits[e].invalid
                         => attempt[e].settlement.invalid

\* What the gateway shows of a limit.
SharedUsage(c) ==
  LET w == SharedWindow(c, clock)
      row == RefillSharedRate(counters[c, w], c, clock)
      perMinute(n) == (n + Scale - 1) \div Scale
      used == IF IsRate(c) THEN perMinute(row.debt) ELSE AlreadyUsed(c, w)
      reserved == IF IsRate(c)
                  THEN perMinute(Total(SelectSeq(row.segments, LAMBDA s : s.uncertain)))
                  ELSE row.reserved
  IN [used |-> used, reserved |-> reserved, remaining |-> Max({0, defs[c].limit - used})]

\* The usage report adds up: what is reserved is part of what is used, also
\* after a budget turned from hard to soft with calls in flight.
UsageAddsUp ==
  \A c \in Active : SharedUsage(c).reserved <= SharedUsage(c).used

\* Shared limits hold: the counters are the sums of their bookings and within
\* the limits, the report of them adds up, and only a false report freezes
\* (shared.go, shared_finish.go, shared_constraints.go, shared_rate.go).
SharedLimitsHold ==
  /\ SharedTypeOK /\ LimitsHold /\ UsageAddsUp /\ OnlyFalseReportsFreeze /\ BooksMatch
=============================================================================
