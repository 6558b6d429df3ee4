-------------------------- MODULE AuthorityLedger --------------------------
(***************************************************************************)
(* The control plane's budget authority: Store.Sync of                      *)
(* internal/authority/pgstore as concurrent database transactions, one per  *)
(* data plane at a time, over the tables policies, authority_requests,      *)
(* authority_meters, authority_accounts and authority_tiers.                *)
(*                                                                          *)
(* Nothing is assumed of the data planes: a batch carries any report, meter *)
(* and request that validateRequest lets through, in the order in which     *)
(* Sync applies them.  A transaction works on its own copy of the rows of   *)
(* its data plane (the authority_dataplanes row is its mutex) and of the    *)
(* accounts it has locked; Commit publishes the copy, Rollback drops it.    *)
(* Accounts are locked in key order and stay locked until the end, so       *)
(* acquiring and reading all of them is one step.                           *)
(***************************************************************************)
EXTENDS AuthorityItems, UnitSums

CONSTANTS
  Dataplanes,    \* authenticated owners
  Boots,         \* journal instances of a data plane
  Requests,      \* rows the data planes may ask for: [owner, boot, id]
  MeterIds,      \* meters they may keep: [owner, boot, account]
  Keys,          \* budget keys
  Windows,       \* calendar windows, in order
  Definitions,   \* the budget definitions an operator may write
  NoBudget,      \* the definition of a key that no policy names
  NoRow,         \* a row that does not exist
  NoTx,          \* a data plane without an open transaction
  Ladder         \* thresholds, in percent, of the routing tiers of a budget

ASSUME LedgerAssumption ==
  /\ Windows \subseteq Nat /\ 0 \in Windows
  /\ Definitions \subseteq Definition /\ NoBudget \notin Definition
  /\ Ladder \subseteq 1..100

AccountKeys == [key : Keys, win : Windows]

ASSUME RowsAssumption ==
  /\ IsFiniteSet(Requests) /\ IsFiniteSet(MeterIds)
  /\ \A r \in Requests : r.owner \in Dataplanes /\ r.boot \in Boots
  /\ \A m \in MeterIds : /\ m.owner \in Dataplanes /\ m.boot \in Boots
                         /\ m.account \in AccountKeys

\* A row binds the intent of a request; with an amount it is also a grant.
Row == [account : AccountKeys, def : Definition, want : Money,
        amount : Money, seq : 0..MaxSeq, consumed : Money, observed : Money,
        closed : BOOLEAN, overrun : BOOLEAN]

ASSUME RowAssumption == NoRow \notin Row

Tx == [stage : {"locking", "reports", "meters", "requests"},
       boot : Boots, now : [Keys -> Windows],
       locked : SUBSET AccountKeys, accounts : [AccountKeys -> Account],
       rows : [Requests -> Row \cup {NoRow}], meters : [MeterIds -> Meter]]

ASSUME TxAssumption == NoTx \notin Tx

VARIABLES
  budget,    \* policies: the definition in force of each key
  window,    \* the database clock: the current window of each key
  accounts,  \* authority_accounts; a missing row is an empty account
  rows,      \* authority_requests
  meters,    \* authority_meters
  latch,     \* authority_tiers: the thresholds up to the highest one reached
  tx         \* the open transaction of each data plane

vars == <<budget, window, accounts, rows, meters, latch, tx>>

TypeOK ==
  /\ budget \in [Keys -> Definitions \cup {NoBudget}]
  /\ window \in [Keys -> Windows]
  /\ accounts \in [AccountKeys -> Account]
  /\ rows \in [Requests -> Row \cup {NoRow}]
  /\ meters \in [MeterIds -> Meter]
  /\ latch \in [AccountKeys -> SUBSET Ladder]
  /\ tx \in [Dataplanes -> Tx \cup {NoTx}]

Init ==
  /\ budget \in [Keys -> Definitions \cup {NoBudget}]
  /\ window = [k \in Keys |-> 0]
  /\ accounts = [a \in AccountKeys |-> EmptyAccount]
  /\ rows = [r \in Requests |-> NoRow]
  /\ meters = [m \in MeterIds |-> NoMeter]
  /\ latch = [a \in AccountKeys |-> {}]
  /\ tx = [d \in Dataplanes |-> NoTx]

-----------------------------------------------------------------------------
(* the transaction *)

\* policy.AuthorityBudgets: the accounts of the budgets in force at a time.
Current(now) ==
  {a \in AccountKeys : a.win = now[a.key] /\ budget[a.key] # NoBudget}

\* The SHARE lock on policies, held to the end of the transaction.
SharesPolicies(d) == tx[d] # NoTx

\* validateRequest, the SHARE lock on policies, the data plane's mutex and
\* the first reading of the clock.
Begin(d, boot) ==
  /\ tx[d] = NoTx
  /\ tx' = [tx EXCEPT ![d] =
              [stage |-> "locking", boot |-> boot, now |-> window,
               locked |-> {},
               accounts |-> [a \in AccountKeys |-> EmptyAccount],
               rows |-> [r \in Requests |-> NoRow],
               meters |-> [m \in MeterIds |-> NoMeter]]]
  /\ UNCHANGED <<budget, window, accounts, rows, meters, latch>>

Locked(a) == \E d \in Dataplanes : tx[d] # NoTx /\ a \in tx[d].locked

\* lockAccounts inserts the account of a budget in force, and lets it take
\* meters from then on if the budget is soft.
Opened(a, now) ==
  [accounts[a] EXCEPT !.meters =
     @ \/ (a \in Current(now) /\ ~budget[a.key].hard)]

\* Mutant of LockAccounts: the accounts are read without a lock.
LockAccountsUnlocked(d, named) ==
  /\ tx[d] # NoTx /\ tx[d].stage = "locking"
  /\ \A a \in Current(tx[d].now) : window[a.key] = a.win
  /\ tx' = [tx EXCEPT ![d] =
              [@ EXCEPT !.stage = "reports",
                        !.locked = Current(tx[d].now) \cup named,
                        !.accounts = [a \in AccountKeys |->
                                        Opened(a, tx[d].now)],
                        !.rows = rows,
                        !.meters = meters]]
  /\ UNCHANGED <<budget, window, accounts, rows, meters, latch>>

\* lockAccounts, on the budgets in force and the accounts the batch names,
\* and the second reading of the clock.
LockAccounts(d, named) ==
  /\ tx[d] # NoTx /\ tx[d].stage = "locking"
  /\ \A a \in Current(tx[d].now) \cup named : ~Locked(a)
  /\ \A a \in Current(tx[d].now) : window[a.key] = a.win
  /\ tx' = [tx EXCEPT ![d] =
              [@ EXCEPT !.stage = "reports",
                        !.locked = Current(tx[d].now) \cup named,
                        !.accounts = [a \in AccountKeys |->
                                        Opened(a, tx[d].now)],
                        !.rows = rows,
                        !.meters = meters]]
  /\ UNCHANGED <<budget, window, accounts, rows, meters, latch>>

ApplyReport(d, r, report) ==
  /\ tx[d] # NoTx /\ tx[d].stage = "reports"
  /\ r.owner = d
  /\ tx[d].rows[r] # NoRow
  /\ LET g   == tx[d].rows[r]
         a   == tx[d].accounts[g.account]
         old == r.boot # tx[d].boot
     IN  /\ g.amount > 0 /\ g.account \in tx[d].locked
         /\ ReportAccepted(a, g, report, old)
         /\ tx' = [tx EXCEPT ![d] =
              [@ EXCEPT !.rows[r] = ReportedGrant(g, report, old),
                        !.accounts[g.account] =
                           ReportedAccount(a, g, report, old)]]
  /\ UNCHANGED <<budget, window, accounts, rows, meters, latch>>

ApplyMeter(d, m, report) ==
  /\ tx[d] # NoTx /\ tx[d].stage \in {"reports", "meters"}
  /\ m.owner = d
  /\ m.account \in tx[d].locked
  /\ LET a   == tx[d].accounts[m.account]
         was == tx[d].meters[m]
         old == m.boot # tx[d].boot
     IN  /\ MeterAccepted(a, was, report, old)
         /\ tx' = [tx EXCEPT ![d] =
              [@ EXCEPT !.stage = "meters",
                        !.meters[m] = MergedMeter(was, report, old),
                        !.accounts[m.account] =
                           MeteredAccount(a, was, report, old)]]
  /\ UNCHANGED <<budget, window, accounts, rows, meters, latch>>

\* The row after a request: a grant, or a denial that only binds the intent.
IssuedRow(d, q) ==
  LET k == q.account.key
      a == tx[d].accounts[q.account]
  IN  [account |-> q.account, def |-> q.def, want |-> q.want,
       amount |-> IF Grantable(budget[k], tx[d].now[k], a,
                               [win |-> q.account.win, def |-> q.def,
                                want |-> q.want])
                  THEN GrantAmount(q.def, a, q.want) ELSE 0,
       seq |-> 0, consumed |-> 0, observed |-> 0, closed |-> FALSE,
       overrun |-> FALSE]

\* A replay must repeat the intent; it returns an issued grant unchanged and
\* evaluates a denied one again.  (An overflowing sum is refused here too, but
\* Commit, which repeats that check, would refuse the batch anyway.)
IssueGrant(d, r, q) ==
  /\ tx[d] # NoTx /\ tx[d].stage # "locking"
  /\ r.owner = d /\ r.boot = tx[d].boot
  /\ LET g     == tx[d].rows[r]
         fresh == IssuedRow(d, q)
         a     == tx[d].accounts[q.account]
     IN  /\ g # NoRow =>
              g.account = q.account /\ g.def = q.def /\ g.want = q.want
         /\ \/ /\ g # NoRow /\ g.amount > 0
               /\ tx' = [tx EXCEPT ![d] = [@ EXCEPT !.stage = "requests"]]
            \/ /\ g # NoRow => g.amount = 0
               /\ tx' = [tx EXCEPT ![d] =
                    [@ EXCEPT !.stage = "requests",
                              !.rows[r] = fresh,
                              !.accounts[q.account] =
                                 Encumbered(a, fresh.amount)]]
  /\ UNCHANGED <<budget, window, accounts, rows, meters, latch>>

\* tier.UtilizedPercent
UtilizedPercent(spent, outstanding, limit) ==
  IF limit = 0 \/ spent + outstanding >= limit THEN 100
  ELSE ((spent + outstanding) * 100) \div limit

\* Mutant of Latched: the tiers follow the utilisation of the moment.
LatchedNow(d, a) ==
  LET acct == tx[d].accounts[a]
      b    == budget[a.key]
  IN  IF a \in Current(tx[d].now)
      THEN {t \in Ladder :
              t <= UtilizedPercent(IF b.hard THEN acct.enc ELSE acct.cons,
                                   acct.soft, b.limit)}
      ELSE latch[a]

\* activeTiers: a tier, once reached, is kept for the rest of the window.
Latched(d, a) ==
  LET acct    == tx[d].accounts[a]
      b       == budget[a.key]
      percent == UtilizedPercent(IF b.hard THEN acct.enc ELSE acct.cons,
                                 acct.soft, b.limit)
  IN  IF a \in Current(tx[d].now)
      THEN latch[a] \cup {t \in Ladder : t <= percent}
      ELSE latch[a]

Commit(d) ==
  /\ tx[d] # NoTx /\ tx[d].stage # "locking"
  /\ \A a \in tx[d].locked : Fits(Committed(tx[d].accounts[a]))
  /\ accounts' = [a \in AccountKeys |->
                    IF a \in tx[d].locked THEN tx[d].accounts[a]
                                          ELSE accounts[a]]
  /\ rows' = [r \in Requests |->
                IF r.owner = d THEN tx[d].rows[r] ELSE rows[r]]
  /\ meters' = [m \in MeterIds |->
                  IF m.owner = d THEN tx[d].meters[m] ELSE meters[m]]
  /\ latch' = [a \in AccountKeys |-> Latched(d, a)]
  /\ tx' = [tx EXCEPT ![d] = NoTx]
  /\ UNCHANGED <<budget, window>>

\* Any rejected item, an expired context or a lost connection.
Rollback(d) ==
  /\ tx[d] # NoTx
  /\ tx' = [tx EXCEPT ![d] = NoTx]
  /\ UNCHANGED <<budget, window, accounts, rows, meters, latch>>

-----------------------------------------------------------------------------
(* environment *)

\* A policy writer's ROW EXCLUSIVE lock waits for every SHARE lock.
EditPolicy(k, def) ==
  /\ \A d \in Dataplanes : ~SharesPolicies(d)
  /\ budget' = [budget EXCEPT ![k] = def]
  /\ UNCHANGED <<window, accounts, rows, meters, latch, tx>>

NextWindow(k) ==
  /\ window[k] + 1 \in Windows
  /\ window' = [window EXCEPT ![k] = @ + 1]
  /\ UNCHANGED <<budget, accounts, rows, meters, latch, tx>>

\* AuthorityGrantRequest
Request == [account : AccountKeys, def : Definitions, want : Money]

Next ==
  \/ \E d \in Dataplanes :
       \/ \E boot \in Boots : Begin(d, boot)
       \/ \E named \in SUBSET AccountKeys : LockAccounts(d, named)
       \/ \E r \in Requests, report \in Report : ApplyReport(d, r, report)
       \/ \E m \in MeterIds, report \in MeterReport : ApplyMeter(d, m, report)
       \/ \E r \in Requests, q \in Request : IssueGrant(d, r, q)
       \/ Commit(d)
       \/ Rollback(d)
  \/ \E k \in Keys, def \in Definitions \cup {NoBudget} : EditPolicy(k, def)
  \/ \E k \in Keys : NextWindow(k)

Spec == Init /\ [][Next]_vars

-----------------------------------------------------------------------------
(* properties *)

\* What a grant must go on encumbering: all of it while it is open or after
\* an overrun, and never less than what it is known to have spent.
Liability(g) ==
  Larger(Spent(g), IF g.closed /\ ~g.overrun THEN 0 ELSE g.amount)

Liabilities(table, a) ==
  [r \in Requests |-> IF table[r] # NoRow /\ table[r].account = a
                      THEN Liability(table[r]) ELSE 0]

Spending(table, a) ==
  [r \in Requests |-> IF table[r] # NoRow /\ table[r].account = a
                      THEN Spent(table[r]) ELSE 0]

Metered(table, a) ==
  [m \in MeterIds |-> IF m.account = a THEN table[m].consumed ELSE 0]

Balanced(acct, rowTable, meterTable, a) ==
  /\ acct.enc = Total(Liabilities(rowTable, a))
  /\ acct.cons = Total(Spending(rowTable, a))
  /\ acct.soft = Total(Metered(meterTable, a))

\* The running totals of every account are the sums over the rows that name
\* it, whatever transactions overlap and whatever the reports say: no lost
\* update, no refund given twice, no liability forgotten (applyReport,
\* applyMeter, issueGrant, lockAccounts and persistAccounts together).
BooksBalance == \A a \in AccountKeys : Balanced(accounts[a], rows, meters, a)

\* A transaction that holds its account locks, and the tables as it sees them.
Working(d) == tx[d] # NoTx /\ tx[d].stage # "locking"

RowView(d) == [r \in Requests |->
                 IF r.owner = d THEN tx[d].rows[r] ELSE rows[r]]

MeterView(d) == [m \in MeterIds |->
                   IF m.owner = d THEN tx[d].meters[m] ELSE meters[m]]

SoundRow(g) ==
  g # NoRow => /\ g.closed \/ Spent(g) <= g.amount
               /\ g.overrun => g.closed
               /\ g.closed => g.amount > 0

SoundRows ==
  \A r \in Requests :
    /\ SoundRow(rows[r])
    /\ \A d \in Dataplanes : Working(d) => SoundRow(tx[d].rows[r])

\* A working copy balances on the accounts it has locked, and differs from
\* the committed tables on no other account.
WorkingBalance ==
  \A d \in Dataplanes : Working(d) =>
    \A a \in AccountKeys :
      IF a \in tx[d].locked
      THEN Balanced(tx[d].accounts[a], RowView(d), MeterView(d), a)
      ELSE /\ Liabilities(RowView(d), a) = Liabilities(rows, a)
           /\ Spending(RowView(d), a) = Spending(rows, a)
           /\ Metered(MeterView(d), a) = Metered(meters, a)

Locking ==
  \A d \in Dataplanes : tx[d] # NoTx =>
    /\ Working(d) => Current(tx[d].now) \subseteq tx[d].locked
    /\ ~Working(d) => tx[d].locked = {}
    /\ \A e \in Dataplanes \ {d} :
         tx[e] # NoTx => tx[d].locked \cap tx[e].locked = {}

\* The strengthening of BooksBalance that every step of Sync preserves: the
\* books of the open transactions, and the locks that keep them apart.
BooksInv == SoundRows /\ Locking /\ WorkingBalance /\ BooksBalance

\* A window in which a grant was overrun is frozen (applyReport).
OverrunFreezes ==
  \A r \in Requests :
    rows[r] # NoRow /\ rows[r].overrun => accounts[rows[r].account].frozen

Issued(r) ==
  /\ rows'[r] # NoRow /\ rows'[r].amount > 0
  /\ rows[r] = NoRow \/ rows[r].amount = 0

WithinLimit ==
  \A r \in Requests : Issued(r) =>
    LET a == rows'[r].account
    IN  /\ ~accounts'[a].frozen
        /\ budget[a.key] # NoBudget
        /\ Committed(accounts'[a]) <= budget[a.key].limit

\* A batch that issues a grant leaves the account unfrozen and everything
\* committed from it, the batch's own reports and meters included, within the
\* limit that is in force at that very moment (issueGrant under the SHARE lock
\* on policies).
IssueWithinLimit == [][WithinLimit]_vars

\* What a grant may become; a row that is not a grant yet may become anything.
Kept(g, h) ==
  g # NoRow /\ g.amount > 0 =>
    /\ h # NoRow /\ h.account = g.account /\ h.amount = g.amount
    /\ h.seq >= g.seq /\ h.consumed >= g.consumed /\ h.observed >= g.observed
    /\ g.closed => h.closed /\ Liability(h) >= Liability(g)
    /\ g.overrun => h.overrun

\* An issued grant is never changed or reissued, a closed one never reopens,
\* and no report lowers what the authority already knows (applyReport and
\* the replay branch of issueGrant).
GrantsAreFinal == [][\A r \in Requests : Kept(rows[r], rows'[r])]_vars

\* A refund cannot undo a routing tier: once a commit has seen the budget used
\* up to a threshold, that threshold stays latched (activeTiers).
TiersLatch ==
  \A d \in Dataplanes : Commit(d) =>
    \A a \in AccountKeys :
      /\ latch[a] \subseteq latch'[a]
      /\ a \in Current(tx[d].now) /\ budget[a.key].hard =>
           \A t \in Ladder :
             100 * Committed(accounts'[a]) >= t * budget[a.key].limit
               => t \in latch'[a]

\* What a window has come to stays with it: an overrun keeps it frozen, and a
\* tier that a commit has reached stays reached, whatever is reported, refunded
\* or edited afterwards (applyReport, activeTiers).
LatchesHold == [][OverrunFreezes' /\ TiersLatch]_vars
=============================================================================
