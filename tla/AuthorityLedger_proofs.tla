----------------------- MODULE AuthorityLedger_proofs -----------------------
(***************************************************************************)
(* Proofs about the budget authority, for any number of data planes,        *)
(* requests, budgets, windows and definitions.                              *)
(***************************************************************************)
EXTENDS AuthorityLedger

USE DEF Money

\* The fields of a report; validateRequest is not needed for types.
Fields == [seq : 0..MaxSeq, consumed : Money, observed : Money,
           closed : BOOLEAN, overrun : BOOLEAN]

\* The larger of two amounts of a type has that type (Go's max).
LEMMA LargerType ==
  ASSUME NEW n \in Nat, NEW x \in 0..n, NEW y \in 0..n
  PROVE  Larger(x, y) \in 0..n /\ Larger(x, y) >= x /\ Larger(x, y) >= y
  BY DEF Larger

\* The checkpoint a report is stored as.
LEMMA CheckpointType ==
  ASSUME NEW g \in Row, NEW r \in Report, NEW old \in BOOLEAN
  PROVE  /\ r \in Fields
         /\ Checkpoint(g, r, old) \in Fields
         /\ Checkpoint(g, r, old).consumed = r.consumed
         /\ Checkpoint(g, r, old).closed = r.closed
         /\ Checkpoint(g, r, old).overrun = r.overrun
<1>1. r \in Fields
  BY DEF Report, Fields
<1>2. /\ Larger(r.seq, g.seq) \in 0..MaxSeq
      /\ Larger(r.observed, g.observed) \in Money
  BY <1>1, LargerType, ItemsAssumption DEF Fields, Row
<1> QED
  BY <1>1, <1>2 DEF Checkpoint, Fields

\* What applyReport does to a row and its account when it accepts a report.
LEMMA ReportTypes ==
  ASSUME NEW a \in Account, NEW g \in Row, NEW r \in Report,
         NEW old \in BOOLEAN, ReportAccepted(a, g, r, old)
  PROVE  /\ ReportedGrant(g, r, old) \in Row
         /\ ReportedAccount(a, g, r, old) \in Account
         /\ ReportedGrant(g, r, old).account = g.account
         /\ ReportedGrant(g, r, old).amount = g.amount
<1> DEFINE c == Checkpoint(g, r, old)
           burn == RecoveryBurn(g, r, old)
<1>1. r \in Fields /\ c \in Fields
  BY CheckpointType
<1> HIDE DEF c, burn
<1>2. CASE ClosedEcho(g, r, old)
  <2>1. /\ Larger(g.seq, r.seq) \in 0..MaxSeq
        /\ Larger(g.observed, r.observed) \in Money
    BY <1>1, LargerType, ItemsAssumption DEF Fields, Row
  <2> QED
    BY <1>2, <2>1 DEF ReportedGrant, ReportedAccount, Row
<1>3. CASE ~ClosedEcho(g, r, old) /\ Replayed(g, c, burn)
  BY <1>3 DEF ReportedGrant, ReportedAccount, c, burn
<1>4. CASE ~ClosedEcho(g, r, old) /\ ~Replayed(g, c, burn)
  <2>1. /\ c.consumed >= g.consumed /\ c.observed >= g.observed
        /\ Fits(a.cons + Spent(c) - Spent(g))
        /\ c.closed => /\ Previous(g) - Retained(g, c) <= a.enc
                       /\ Fits(Settled(a, g, c))
    BY <1>4 DEF ReportAccepted, c, burn
  <2>2. Spent(c) \in Money /\ Spent(g) \in Money /\ Spent(c) >= Spent(g)
    BY <1>1, <2>1, ItemsAssumption DEF Spent, Larger, Fields, Row
  <2>3. Previous(g) \in Money /\ Retained(g, c) \in Money
    BY <2>2, ItemsAssumption DEF Previous, Retained, Larger, Row
  <2>4. a.cons + Spent(c) - Spent(g) \in Money
    BY <2>1, <2>2, ItemsAssumption DEF Fits, Account
  <2>5. (IF c.closed THEN Settled(a, g, c) ELSE a.enc) \in Money
    BY <2>1, <2>3, ItemsAssumption DEF Fits, Settled, Account
  <2>6. (a.frozen \/ (c.closed /\ c.overrun)) \in BOOLEAN
    OBVIOUS
  <2>7. ReportedAccount(a, g, r, old) =
          [a EXCEPT !.cons = a.cons + Spent(c) - Spent(g),
                    !.enc = IF c.closed THEN Settled(a, g, c) ELSE a.enc,
                    !.frozen = a.frozen \/ (c.closed /\ c.overrun)]
    BY <1>4, Zenon DEF ReportedAccount, c, burn
  <2>8. ReportedAccount(a, g, r, old) \in Account
    BY <2>4, <2>5, <2>6, <2>7 DEF Account
  <2>9. ReportedGrant(g, r, old) =
          [g EXCEPT !.seq = c.seq, !.consumed = c.consumed,
                    !.observed = c.observed, !.closed = c.closed,
                    !.overrun = c.overrun]
    BY <1>4, Zenon DEF ReportedGrant, c, burn
  <2> QED
    BY <1>1, <2>8, <2>9 DEF Row, Fields
<1> QED
  BY <1>2, <1>3, <1>4

\* What applyMeter does to a meter and its account when it accepts a report.
LEMMA MeterTypes ==
  ASSUME NEW a \in Account, NEW m \in Meter, NEW r \in MeterReport,
         NEW old \in BOOLEAN, MeterAccepted(a, m, r, old)
  PROVE  /\ MergedMeter(m, r, old) \in Meter
         /\ MergedMeter(m, r, old).consumed >= m.consumed
         /\ MeteredAccount(a, m, r, old) \in Account
<1> DEFINE c == MergedMeter(m, r, old)
<1>1. r \in Meter
  BY DEF MeterReport
<1>2. c \in Meter
  <2>1. /\ Larger(r.seq, m.seq) \in 0..MaxSeq
        /\ Larger(r.consumed, m.consumed) \in Money
        /\ Larger(r.observed, m.observed) \in Money
    BY <1>1, LargerType, ItemsAssumption DEF Meter
  <2> QED
    BY <1>1, <2>1 DEF MergedMeter, Meter
<1>3. c.consumed >= m.consumed
  <2>1. CASE old
    BY <1>1, <2>1, LargerType, ItemsAssumption DEF MergedMeter, Meter
  <2>2. CASE ~old
    BY <1>2, <2>2 DEF MeterAccepted, Meter
  <2> QED
    BY <2>1, <2>2
<1>4. Fits(a.soft + c.consumed - m.consumed)
  BY DEF MeterAccepted
<1>5. a.soft + c.consumed - m.consumed \in Money
  <2> HIDE DEF c
  <2> QED
    BY <1>2, <1>3, <1>4, ItemsAssumption DEF Fits, Meter, Account
<1>6. MeteredAccount(a, m, r, old) \in Account
  <2> HIDE DEF c
  <2>1. MeteredAccount(a, m, r, old)
          = [a EXCEPT !.soft = a.soft + c.consumed - m.consumed]
    BY Zenon DEF MeteredAccount, c
  <2> QED
    BY <1>5, <2>1 DEF Account
<1> QED
  BY <1>2, <1>3, <1>6

\* What issueGrant hands out is positive and within what the limit leaves.
LEMMA GrantBounds ==
  ASSUME NEW b \in Definition, NEW a \in Account, NEW want \in Money,
         ~Exhausted(b, a, want)
  PROVE  /\ GrantAmount(b, a, want) \in Money \ {0}
         /\ Committed(a) + GrantAmount(b, a, want) <= b.limit
         /\ a.enc + GrantAmount(b, a, want) \in Money
  BY ItemsAssumption
     DEF Definition, Account, Exhausted, Committed, GrantAmount, Larger,
         Smaller

\* The row that issueGrant writes, granted or denied, is a row.
LEMMA IssuedRowType ==
  ASSUME TypeOK, NEW d \in Dataplanes, tx[d] # NoTx, NEW q \in Request
  PROVE  /\ IssuedRow(d, q) \in Row
         /\ tx[d].accounts[q.account].enc + IssuedRow(d, q).amount \in Money
         /\ IssuedRow(d, q).account = q.account
         /\ IssuedRow(d, q).consumed = 0 /\ IssuedRow(d, q).observed = 0
         /\ ~IssuedRow(d, q).closed /\ ~IssuedRow(d, q).overrun
<1> DEFINE a == tx[d].accounts[q.account]
           k == q.account.key
           ok == Grantable(budget[k], tx[d].now[k], a,
                           [win |-> q.account.win, def |-> q.def,
                            want |-> q.want])
           amount == IF ok THEN GrantAmount(q.def, a, q.want) ELSE 0
<1>1. q.account \in AccountKeys /\ q.def \in Definition /\ q.want \in Money
  BY LedgerAssumption DEF Request
<1>2. a \in Account
  BY <1>1 DEF TypeOK, Tx
<1>3. ok => ~Exhausted(q.def, a, q.want)
  BY DEF Grantable
<1>4. amount \in Money /\ a.enc + amount \in Money
  <2> HIDE DEF a, ok
  <2>1. CASE ok
    BY <1>1, <1>2, <1>3, <2>1, GrantBounds
  <2>2. CASE ~ok
    BY <1>2, <2>2, ItemsAssumption DEF Account
  <2> QED
    BY <2>1, <2>2
<1>5. IssuedRow(d, q) =
        [account |-> q.account, def |-> q.def, want |-> q.want,
         amount |-> amount, seq |-> 0, consumed |-> 0, observed |-> 0,
         closed |-> FALSE, overrun |-> FALSE]
  BY DEF IssuedRow
<1> HIDE DEF amount
<1> QED
  BY <1>1, <1>4, <1>5, ItemsAssumption DEF Row

\* The empty tables are well-typed.
LEMMA InitType == Init => TypeOK
<1> SUFFICES ASSUME Init PROVE TypeOK
  OBVIOUS
<1>1. EmptyAccount \in Account /\ NoMeter \in Meter
  BY ItemsAssumption DEF EmptyAccount, Account, NoMeter, Meter
<1> QED
  BY <1>1, LedgerAssumption DEF Init, TypeOK

\* Every step of Sync, of the operators and of the clock keeps the types: what
\* checkedAdd lets through stays an amount.
LEMMA NextType == TypeOK /\ [Next]_vars => TypeOK'
<1> SUFFICES ASSUME TypeOK, [Next]_vars PROVE TypeOK'
  OBVIOUS
<1> USE DEF TypeOK
<1>1. ASSUME NEW d \in Dataplanes, NEW boot \in Boots, Begin(d, boot)
      PROVE  TypeOK'
  <2>1. EmptyAccount \in Account /\ NoMeter \in Meter
    BY ItemsAssumption DEF EmptyAccount, Account, NoMeter, Meter
  <2>2. [stage |-> "locking", boot |-> boot, now |-> window,
         locked |-> {}, accounts |-> [a \in AccountKeys |-> EmptyAccount],
         rows |-> [r \in Requests |-> NoRow],
         meters |-> [m \in MeterIds |-> NoMeter]] \in Tx
    BY <2>1 DEF Tx
  <2> QED
    BY <1>1, <2>2 DEF Begin
<1>2. ASSUME NEW d \in Dataplanes, NEW named \in SUBSET AccountKeys,
             LockAccounts(d, named)
      PROVE  TypeOK'
  <2>1. tx[d] \in Tx
    BY <1>2 DEF LockAccounts
  <2>2. ASSUME NEW a \in AccountKeys
        PROVE  Opened(a, tx[d].now) \in Account
    BY <2>2, Zenon DEF Opened, Account
  <2>3. Current(tx[d].now) \cup named \in SUBSET AccountKeys
    BY DEF Current
  <2>4. [tx[d] EXCEPT !.stage = "reports",
                      !.locked = Current(tx[d].now) \cup named,
                      !.accounts = [a \in AccountKeys |->
                                      Opened(a, tx[d].now)],
                      !.rows = rows, !.meters = meters] \in Tx
    BY <2>1, <2>2, <2>3 DEF Tx
  <2> QED
    BY <1>2, <2>4 DEF LockAccounts
<1>3. ASSUME NEW d \in Dataplanes, NEW r \in Requests, NEW report \in Report,
             ApplyReport(d, r, report)
      PROVE  TypeOK'
  <2> DEFINE g == tx[d].rows[r]
             a == tx[d].accounts[g.account]
             old == r.boot # tx[d].boot
  <2>1. tx[d] \in Tx /\ g \in Row
    BY <1>3 DEF ApplyReport, Tx
  <2>2. a \in Account /\ g.account \in AccountKeys
    BY <2>1 DEF Tx, Row
  <2>3. ReportAccepted(a, g, report, old)
    BY <1>3 DEF ApplyReport
  <2>4. /\ ReportedGrant(g, report, old) \in Row
        /\ ReportedAccount(a, g, report, old) \in Account
    BY <2>1, <2>2, <2>3, ReportTypes
  <2>5. [tx[d] EXCEPT !.rows[r] = ReportedGrant(g, report, old),
                      !.accounts[g.account] =
                         ReportedAccount(a, g, report, old)] \in Tx
    <3> HIDE DEF g, a, old
    <3> QED
      BY <2>1, <2>2, <2>4 DEF Tx
  <2> QED
    BY <1>3, <2>5 DEF ApplyReport
<1>4. ASSUME NEW d \in Dataplanes, NEW m \in MeterIds,
             NEW report \in MeterReport, ApplyMeter(d, m, report)
      PROVE  TypeOK'
  <2> DEFINE a == tx[d].accounts[m.account]
             was == tx[d].meters[m]
             old == m.boot # tx[d].boot
  <2>1. tx[d] \in Tx /\ m.account \in AccountKeys
    BY <1>4, RowsAssumption DEF ApplyMeter
  <2>2. a \in Account /\ was \in Meter
    BY <2>1 DEF Tx
  <2>3. /\ MergedMeter(was, report, old) \in Meter
        /\ MeteredAccount(a, was, report, old) \in Account
    BY <1>4, <2>2, MeterTypes DEF ApplyMeter
  <2>4. [tx[d] EXCEPT !.stage = "meters",
                      !.meters[m] = MergedMeter(was, report, old),
                      !.accounts[m.account] =
                         MeteredAccount(a, was, report, old)] \in Tx
    <3> HIDE DEF a, was, old
    <3> QED
      BY <2>1, <2>3 DEF Tx
  <2> QED
    BY <1>4, <2>4 DEF ApplyMeter
<1>5. ASSUME NEW d \in Dataplanes, NEW r \in Requests, NEW q \in Request,
             IssueGrant(d, r, q)
      PROVE  TypeOK'
  <2> DEFINE fresh == IssuedRow(d, q)
             a == tx[d].accounts[q.account]
             after == Encumbered(a, fresh.amount)
  <2>1. tx[d] \in Tx /\ q.account \in AccountKeys
    BY <1>5 DEF IssueGrant, Request
  <2>2. fresh \in Row /\ a.enc + fresh.amount \in Money
    BY <1>5, IssuedRowType DEF IssueGrant
  <2>3. a \in Account
    BY <2>1 DEF Tx
  <2>4. after \in Account
    <3> HIDE DEF fresh, a
    <3> QED
      BY <2>2, <2>3 DEF Account, Encumbered
  <2>5. UNCHANGED <<budget, window, accounts, rows, meters, latch>>
    BY <1>5 DEF IssueGrant
  <2>6. \/ tx' = [tx EXCEPT ![d] = [tx[d] EXCEPT !.stage = "requests"]]
        \/ tx' = [tx EXCEPT ![d] =
                     [tx[d] EXCEPT !.stage = "requests", !.rows[r] = fresh,
                                   !.accounts[q.account] = after]]
    BY <1>5, Zenon DEF IssueGrant
  <2> HIDE DEF fresh, a, after
  <2>7. [tx[d] EXCEPT !.stage = "requests"] \in Tx
    BY <2>1 DEF Tx
  <2>8. [tx[d] EXCEPT !.stage = "requests", !.rows[r] = fresh,
                      !.accounts[q.account] = after] \in Tx
    BY <2>1, <2>2, <2>4 DEF Tx
  <2> QED
    BY <2>5, <2>6, <2>7, <2>8
<1>6. ASSUME NEW d \in Dataplanes, Commit(d) PROVE TypeOK'
  <2>1. tx[d] \in Tx
    BY <1>6 DEF Commit
  <2>2. /\ accounts' \in [AccountKeys -> Account]
        /\ rows' \in [Requests -> Row \cup {NoRow}]
        /\ meters' \in [MeterIds -> Meter]
        /\ tx' \in [Dataplanes -> Tx \cup {NoTx}]
        /\ budget' = budget /\ window' = window
    BY <1>6, <2>1 DEF Commit, Tx
  <2>3. ASSUME NEW a \in AccountKeys PROVE Latched(d, a) \in SUBSET Ladder
    BY DEF Latched
  <2>4. latch' \in [AccountKeys -> SUBSET Ladder]
    BY <1>6, <2>3 DEF Commit
  <2> QED
    BY <2>2, <2>4
<1>7. ASSUME NEW d \in Dataplanes, Rollback(d) PROVE TypeOK'
  BY <1>7 DEF Rollback
<1>8. ASSUME NEW k \in Keys, NEW def \in Definitions \cup {NoBudget},
             EditPolicy(k, def)
      PROVE  TypeOK'
  BY <1>8 DEF EditPolicy
<1>9. ASSUME NEW k \in Keys, NextWindow(k) PROVE TypeOK'
  BY <1>9 DEF NextWindow
<1>10. CASE UNCHANGED vars
  BY <1>10 DEF vars
<1> QED
  BY <1>1, <1>2, <1>3, <1>4, <1>5, <1>6, <1>7, <1>8, <1>9, <1>10 DEF Next

\* Every reachable state of the authority is well-typed: in particular no
\* accepted report or grant takes an amount below zero or past MaxInt.
THEOREM LedgerTypeCorrect == Spec => []TypeOK
  BY InitType, NextType, PTL DEF Spec

-----------------------------------------------------------------------------
(* The books balance *)

\* What a grant is known to have spent is an amount.
LEMMA SpentType ==
  ASSUME NEW g \in Row
  PROVE  Spent(g) \in Nat /\ Liability(g) \in Nat
  BY ItemsAssumption DEF Row, Spent, Liability, Larger

\* An accepted report moves the account by exactly what it moves the grant's
\* liability and spending, and leaves a sound row.
LEMMA ReportEffect ==
  ASSUME NEW a \in Account, NEW g \in Row, NEW r \in Report,
         NEW old \in BOOLEAN, ReportAccepted(a, g, r, old),
         SoundRow(g), g.amount > 0
  PROVE  LET h == ReportedGrant(g, r, old)
             b == ReportedAccount(a, g, r, old)
         IN  /\ SoundRow(h)
             /\ b.enc = a.enc - Liability(g) + Liability(h)
             /\ b.cons = a.cons - Spent(g) + Spent(h)
             /\ b.soft = a.soft
<1> DEFINE c == Checkpoint(g, r, old)
           burn == RecoveryBurn(g, r, old)
           h == ReportedGrant(g, r, old)
           b == ReportedAccount(a, g, r, old)
<1> USE ItemsAssumption
<1>1. /\ c \in Fields /\ c.consumed = r.consumed /\ c.closed = r.closed
      /\ c.overrun = r.overrun
  BY CheckpointType
<1>2. /\ r.overrun => r.closed
      /\ r.overrun \/ r.observed <= r.consumed
  BY DEF Report
<1>3. g # NoRow
  BY RowAssumption
<1>4. /\ g.closed \/ Spent(g) <= g.amount
      /\ g.overrun => g.closed
  BY <1>3 DEF SoundRow
<1>5. Liability(g) = Previous(g)
  BY <1>4 DEF Liability, Previous, Spent, Larger, Row
<1>6. h \in Row
  BY ReportTypes
<1> HIDE DEF c, burn
<1>7. CASE ClosedEcho(g, r, old)
  <2>1. b = a
    BY <1>7 DEF ReportedAccount
  <2>2. h = [g EXCEPT !.seq = Larger(g.seq, r.seq),
                      !.observed = Larger(g.observed, r.observed)]
    BY <1>7 DEF ReportedGrant
  <2>3. /\ h.consumed = g.consumed /\ h.closed = g.closed
        /\ h.overrun = g.overrun /\ h.amount = g.amount
        /\ h.observed = Larger(g.observed, r.observed)
    BY <2>2 DEF Row
  <2>4. r.observed \in Money /\ r.observed <= Spent(g)
    BY <1>7 DEF ClosedEcho, Report
  <2>5. Spent(h) = Spent(g)
    BY <2>3, <2>4 DEF Spent, Larger, Row
  <2>6. Liability(h) = Liability(g)
    BY <2>3, <2>5 DEF Liability
  <2>7. SoundRow(h)
    BY <1>3, <2>3, <2>5 DEF SoundRow
  <2> QED
    BY <2>1, <2>5, <2>6, <2>7, SpentType DEF Account
<1>8. CASE ~ClosedEcho(g, r, old) /\ Replayed(g, c, burn)
  <2>1. b = a /\ h = g
    BY <1>8 DEF ReportedAccount, ReportedGrant, c, burn
  <2> QED
    BY <2>1, SpentType DEF Account
<1>9. CASE ~ClosedEcho(g, r, old) /\ ~Replayed(g, c, burn)
  <2>1. h = [g EXCEPT !.seq = c.seq, !.consumed = c.consumed,
                      !.observed = c.observed, !.closed = c.closed,
                      !.overrun = c.overrun]
    BY <1>9, Zenon DEF ReportedGrant, c, burn
  <2>2. /\ h.consumed = c.consumed /\ h.observed = c.observed
        /\ h.closed = c.closed /\ h.overrun = c.overrun
        /\ h.amount = g.amount
    BY <2>1 DEF Row
  <2>3. b = [a EXCEPT !.cons = a.cons + Spent(c) - Spent(g),
                      !.enc = IF c.closed THEN Settled(a, g, c) ELSE a.enc,
                      !.frozen = a.frozen \/ (c.closed /\ c.overrun)]
    BY <1>9, Zenon DEF ReportedAccount, c, burn
  <2>4. /\ b.cons = a.cons + Spent(c) - Spent(g) /\ b.soft = a.soft
        /\ b.enc = IF c.closed THEN Settled(a, g, c) ELSE a.enc
    BY <2>3 DEF Account
  <2>5. Spent(h) = Spent(c)
    BY <2>2 DEF Spent
  <2>6. g.closed => c.closed
    BY <1>9 DEF ReportAccepted, c, burn, Same
  <2>7. c.overrun \/ c.consumed <= g.amount
    BY <1>9 DEF ReportAccepted, c, burn
  <2>8. ~c.closed => Spent(c) <= g.amount
    <3>1. ~c.closed => c = r /\ ~c.overrun
      BY <1>1, <1>2 DEF c, Checkpoint, RecoveryBurn
    <3> QED
      BY <1>1, <1>2, <2>7, <3>1 DEF Spent, Larger, Fields, Row
  <2>9. SoundRow(h)
    BY <1>1, <1>2, <1>3, <2>2, <2>5, <2>8 DEF SoundRow
  <2>10. c.closed => Liability(h) = Retained(g, c)
    BY <1>1, <2>2, <2>5 DEF Liability, Retained, Larger, Row, Fields, Spent
  <2>11. ~c.closed => Liability(h) = Liability(g)
    <3>1. ~c.closed => ~g.closed /\ Liability(g) = g.amount
      BY <1>4, <2>6 DEF Liability, Larger, Row, Spent
    <3>2. ~c.closed => Liability(h) = g.amount
      BY <1>1, <2>2, <2>5, <2>8 DEF Liability, Larger, Row, Fields, Spent
    <3> QED
      BY <3>1, <3>2
  <2>12. b.enc = a.enc - Liability(g) + Liability(h)
    BY <1>5, <1>6, <2>4, <2>10, <2>11, SpentType DEF Settled, Account
  <2>13. b.cons = a.cons - Spent(g) + Spent(h)
    BY <1>6, <2>4, <2>5, SpentType DEF Account
  <2> QED
    BY <2>4, <2>9, <2>12, <2>13
<1> QED
  BY <1>7, <1>8, <1>9

RowTable == [Requests -> Row \cup {NoRow}]

MeterTable == [MeterIds -> Meter]

\* What one row contributes to an account.
Owes(g, a) == IF g # NoRow /\ g.account = a THEN Liability(g) ELSE 0

Used(g, a) == IF g # NoRow /\ g.account = a THEN Spent(g) ELSE 0

\* The contributions of the rows and meters to an account can be summed up.
LEMMA ContributionTypes ==
  ASSUME NEW t \in RowTable, NEW u \in MeterTable, NEW a
  PROVE  /\ Liabilities(t, a) \in [Requests -> Nat]
         /\ Spending(t, a) \in [Requests -> Nat]
         /\ Metered(u, a) \in [MeterIds -> Nat]
         /\ \A r \in Requests : /\ Liabilities(t, a)[r] = Owes(t[r], a)
                                 /\ Spending(t, a)[r] = Used(t[r], a)
<1>1. \A r \in Requests : t[r] # NoRow =>
        Spent(t[r]) \in Nat /\ Liability(t[r]) \in Nat
  BY SpentType DEF RowTable
<1>2. \A m \in MeterIds : u[m].consumed \in Nat
  BY ItemsAssumption DEF MeterTable, Meter
<1> QED
  BY <1>1, <1>2 DEF Liabilities, Spending, Metered, Owes, Used

\* Replacing one row moves the sums by the difference of its contributions.
LEMMA ReplaceRow ==
  ASSUME NEW t \in RowTable, NEW r \in Requests, NEW h \in Row \cup {NoRow},
         NEW a
  PROVE  LET s == [t EXCEPT ![r] = h]
         IN  /\ s \in RowTable
             /\ Total(Liabilities(s, a))
                  = Total(Liabilities(t, a)) - Owes(t[r], a) + Owes(h, a)
             /\ Total(Spending(s, a))
                  = Total(Spending(t, a)) - Used(t[r], a) + Used(h, a)
<1> DEFINE s == [t EXCEPT ![r] = h]
<1>1. s \in RowTable /\ s[r] = h /\ \A x \in Requests \ {r} : s[x] = t[x]
  BY DEF RowTable
<1>2. PICK u : u \in MeterTable
  <2>1. [m \in MeterIds |-> NoMeter] \in MeterTable
    BY ItemsAssumption DEF MeterTable, NoMeter, Meter
  <2> QED
    BY <2>1
<1> HIDE DEF s
<1>3. /\ Liabilities(t, a) \in [Requests -> Nat]
      /\ Liabilities(s, a) \in [Requests -> Nat]
      /\ Liabilities(s, a)[r] = Owes(h, a)
      /\ Liabilities(t, a)[r] = Owes(t[r], a)
      /\ \A x \in Requests \ {r} : Liabilities(s, a)[x] = Liabilities(t, a)[x]
  BY <1>1, <1>2, ContributionTypes
<1>4. /\ Spending(t, a) \in [Requests -> Nat]
      /\ Spending(s, a) \in [Requests -> Nat]
      /\ Spending(s, a)[r] = Used(h, a)
      /\ Spending(t, a)[r] = Used(t[r], a)
      /\ \A x \in Requests \ {r} : Spending(s, a)[x] = Spending(t, a)[x]
  BY <1>1, <1>2, ContributionTypes
<1>5. Total(Liabilities(s, a))
        = Total(Liabilities(t, a)) - Owes(t[r], a) + Owes(h, a)
  BY <1>3, TotalChangeOne, RowsAssumption
<1>6. Total(Spending(s, a))
        = Total(Spending(t, a)) - Used(t[r], a) + Used(h, a)
  BY <1>4, TotalChangeOne, RowsAssumption
<1> QED
  BY <1>1, <1>5, <1>6 DEF s

\* Replacing one meter moves the sum of its account, and of no other.
LEMMA ReplaceMeter ==
  ASSUME NEW t \in MeterTable, NEW m \in MeterIds, NEW c \in Meter, NEW a
  PROVE  LET s == [t EXCEPT ![m] = c]
         IN  /\ s \in MeterTable
             /\ m.account = a => Total(Metered(s, a))
                  = Total(Metered(t, a)) - t[m].consumed + c.consumed
             /\ m.account # a => Metered(s, a) = Metered(t, a)
<1> DEFINE s == [t EXCEPT ![m] = c]
<1>1. s \in MeterTable /\ s[m] = c /\ \A x \in MeterIds \ {m} : s[x] = t[x]
  BY DEF MeterTable
<1>2. \A x \in MeterIds : t[x].consumed \in Nat /\ s[x].consumed \in Nat
  BY <1>1, ItemsAssumption DEF MeterTable, Meter
<1> HIDE DEF s
<1>3. /\ Metered(t, a) \in [MeterIds -> Nat]
      /\ Metered(s, a) \in [MeterIds -> Nat]
      /\ \A x \in MeterIds \ {m} : Metered(s, a)[x] = Metered(t, a)[x]
  BY <1>1, <1>2 DEF Metered
<1>4. ASSUME m.account = a
      PROVE  Total(Metered(s, a))
               = Total(Metered(t, a)) - t[m].consumed + c.consumed
  <2>1. Metered(t, a)[m] = t[m].consumed /\ Metered(s, a)[m] = c.consumed
    BY <1>1, <1>4 DEF Metered
  <2> QED
    BY <1>3, <2>1, TotalChangeOne, RowsAssumption
<1>5. m.account # a => Metered(s, a) = Metered(t, a)
  BY <1>1 DEF Metered
<1> QED
  BY <1>1, <1>4, <1>5 DEF s

\* The conjunct of WorkingBalance for one transaction.
BalancedOn(d) ==
  \A a \in AccountKeys :
    IF a \in tx[d].locked
    THEN Balanced(tx[d].accounts[a], RowView(d), MeterView(d), a)
    ELSE /\ Liabilities(RowView(d), a) = Liabilities(rows, a)
         /\ Spending(RowView(d), a) = Spending(rows, a)
         /\ Metered(MeterView(d), a) = Metered(meters, a)

\* A step of one transaction on its own copy concerns no other transaction.
LEMMA OwnStep ==
  ASSUME TypeOK, BooksInv, NEW d \in Dataplanes, Working(d), NEW t \in Tx,
         tx' = [tx EXCEPT ![d] = t],
         UNCHANGED <<budget, window, accounts, rows, meters, latch>>,
         t.stage # "locking", t.locked = tx[d].locked, t.now = tx[d].now,
         \A r \in Requests : SoundRow(t.rows[r]),
         BalancedOn(d)'
  PROVE  BooksInv'
<1>1. tx'[d] = t /\ \A e \in Dataplanes \ {d} : tx'[e] = tx[e]
  BY DEF TypeOK
<1>2. t # NoTx
  BY TxAssumption
<1>3. Working(d)' /\ \A e \in Dataplanes \ {d} : Working(e)' <=> Working(e)
  BY <1>1, <1>2 DEF Working
<1>4. SoundRows'
  BY <1>1, <1>3 DEF BooksInv, SoundRows
<1>5. \A now : Current(now)' = Current(now)
  BY DEF Current
<1>6. Locking'
  BY <1>1, <1>2, <1>3, <1>5 DEF BooksInv, Locking, Working
<1>7. \A e \in Dataplanes \ {d} :
        RowView(e)' = RowView(e) /\ MeterView(e)' = MeterView(e)
  BY <1>1 DEF RowView, MeterView
<1>8. \A e \in Dataplanes \ {d} : Working(e)' => BalancedOn(e)'
  <2> SUFFICES ASSUME NEW e \in Dataplanes \ {d}, Working(e)'
               PROVE  BalancedOn(e)'
    OBVIOUS
  <2>1. BalancedOn(e)
    BY <1>3 DEF BooksInv, WorkingBalance, BalancedOn
  <2>2. /\ tx'[e] = tx[e] /\ rows' = rows /\ meters' = meters
        /\ RowView(e)' = RowView(e) /\ MeterView(e)' = MeterView(e)
    BY <1>1, <1>7
  <2> QED
    BY <2>1, <2>2 DEF BalancedOn, Balanced, Liabilities, Spending, Metered
<1>9. WorkingBalance'
  BY <1>8 DEF WorkingBalance, BalancedOn
<1>10. BooksBalance'
  BY DEF BooksInv, BooksBalance, Balanced, Liabilities, Spending, Metered
<1> QED
  BY <1>4, <1>6, <1>9, <1>10 DEF BooksInv

\* The tables as a transaction sees them are tables.
LEMMA ViewTypes ==
  ASSUME TypeOK, NEW d \in Dataplanes, tx[d] # NoTx
  PROVE  RowView(d) \in RowTable /\ MeterView(d) \in MeterTable
  BY DEF TypeOK, Tx, RowView, MeterView, RowTable, MeterTable

\* applyReport keeps the books of its transaction.
LEMMA ReportStep ==
  ASSUME TypeOK, BooksInv, NEW d \in Dataplanes, NEW r \in Requests,
         NEW report \in Report, ApplyReport(d, r, report)
  PROVE  BooksInv'
<1> DEFINE g == tx[d].rows[r]
           a == tx[d].accounts[g.account]
           old == r.boot # tx[d].boot
           h == ReportedGrant(g, report, old)
           b == ReportedAccount(a, g, report, old)
           t == [tx[d] EXCEPT !.rows[r] = h, !.accounts[g.account] = b]
<1>1. /\ tx[d] \in Tx /\ g \in Row /\ Working(d) /\ r.owner = d
      /\ g.amount > 0 /\ g.account \in tx[d].locked
      /\ ReportAccepted(a, g, report, old)
      /\ tx' = [tx EXCEPT ![d] = t]
      /\ UNCHANGED <<budget, window, accounts, rows, meters, latch>>
  BY DEF ApplyReport, TypeOK, Tx, Working
<1>2. a \in Account /\ g.account \in AccountKeys
  BY <1>1 DEF Tx, Row
<1>3. SoundRow(g)
  BY <1>1 DEF BooksInv, SoundRows
<1> HIDE DEF g, a
<1>4. h \in Row /\ b \in Account /\ h.account = g.account
  BY <1>1, <1>2, ReportTypes
<1>5. /\ SoundRow(h)
      /\ b.enc = a.enc - Liability(g) + Liability(h)
      /\ b.cons = a.cons - Spent(g) + Spent(h)
      /\ b.soft = a.soft
  <2>1. old \in BOOLEAN
    OBVIOUS
  <2> HIDE DEF old
  <2> QED
    BY <1>1, <1>2, <1>3, <2>1, ReportEffect, Zenon
<1> HIDE DEF old, h, b
<1>6. /\ t \in Tx /\ t.locked = tx[d].locked /\ t.now = tx[d].now
      /\ t.stage = tx[d].stage /\ t.meters = tx[d].meters
      /\ t.rows = [tx[d].rows EXCEPT ![r] = h]
      /\ t.accounts = [tx[d].accounts EXCEPT ![g.account] = b]
  BY <1>1, <1>2, <1>4 DEF Tx
<1> HIDE DEF t
<1>7. tx'[d] = t
  BY <1>1 DEF TypeOK
<1>8. /\ RowView(d)' = [RowView(d) EXCEPT ![r] = h]
      /\ MeterView(d)' = MeterView(d)
      /\ RowView(d)[r] = g
  <2>1. RowView(d)[r] = g /\ MeterView(d)' = MeterView(d)
    BY <1>1, <1>6, <1>7 DEF RowView, MeterView, g
  <2>2. \A x \in Requests :
          t.rows[x] = IF x = r THEN h ELSE tx[d].rows[x]
    BY <1>1, <1>6 DEF Tx
  <2>3. \A x \in Requests :
          RowView(d)'[x] = IF x = r THEN h ELSE RowView(d)[x]
    BY <1>1, <1>7, <2>2 DEF RowView
  <2> QED
    BY <2>1, <2>3 DEF RowView
<1>9. RowView(d) \in RowTable
  BY <1>1, ViewTypes DEF Working
<1>10. ASSUME NEW x \in AccountKeys, x \in tx[d].locked
       PROVE  Balanced(t.accounts[x], RowView(d)', MeterView(d)', x)
  <2>1. Balanced(tx[d].accounts[x], RowView(d), MeterView(d), x)
    BY <1>1, <1>10 DEF BooksInv, WorkingBalance
  <2>2. /\ Total(Liabilities(RowView(d)', x))
             = Total(Liabilities(RowView(d), x)) - Owes(g, x) + Owes(h, x)
        /\ Total(Spending(RowView(d)', x))
             = Total(Spending(RowView(d), x)) - Used(g, x) + Used(h, x)
    <3>1. h \in Row \cup {NoRow}
      BY <1>4
    <3>2. /\ Total(Liabilities([RowView(d) EXCEPT ![r] = h], x))
               = Total(Liabilities(RowView(d), x))
                   - Owes(RowView(d)[r], x) + Owes(h, x)
          /\ Total(Spending([RowView(d) EXCEPT ![r] = h], x))
               = Total(Spending(RowView(d), x))
                   - Used(RowView(d)[r], x) + Used(h, x)
      BY <1>9, <3>1, ReplaceRow
    <3> QED
      BY <1>8, <3>2
  <2>3. CASE x = g.account
    <3>1. /\ Owes(g, x) = Liability(g) /\ Owes(h, x) = Liability(h)
          /\ Used(g, x) = Spent(g) /\ Used(h, x) = Spent(h)
      BY <1>1, <1>4, <2>3, RowAssumption DEF Owes, Used
    <3>2. t.accounts[x] = b /\ tx[d].accounts[x] = a
      BY <1>1, <1>2, <1>6, <2>3 DEF Tx, a
    <3> QED
      BY <1>5, <1>8, <2>1, <2>2, <3>1, <3>2 DEF Balanced
  <2>4. CASE x # g.account
    <3>1. Owes(g, x) = 0 /\ Owes(h, x) = 0 /\ Used(g, x) = 0 /\ Used(h, x) = 0
      BY <1>4, <2>4 DEF Owes, Used
    <3>2. t.accounts[x] = tx[d].accounts[x]
      BY <1>1, <1>6, <2>4 DEF Tx
    <3>3. tx[d].accounts[x].enc \in Nat /\ tx[d].accounts[x].cons \in Nat
      BY <1>1, ItemsAssumption DEF Tx, Account
    <3> QED
      BY <1>8, <2>1, <2>2, <3>1, <3>2, <3>3 DEF Balanced
  <2> QED
    BY <2>3, <2>4
<1>11. ASSUME NEW x \in AccountKeys, x \notin tx[d].locked
       PROVE  /\ Liabilities(RowView(d)', x) = Liabilities(RowView(d), x)
              /\ Spending(RowView(d)', x) = Spending(RowView(d), x)
  <2>1. x # g.account
    BY <1>1, <1>11
  <2> QED
    BY <1>4, <1>8, <1>9, <2>1 DEF Liabilities, Spending, RowTable
<1>12. BalancedOn(d)'
  <2>1. ASSUME NEW x \in AccountKeys, x \notin tx[d].locked
        PROVE  /\ Liabilities(RowView(d), x) = Liabilities(rows, x)
               /\ Spending(RowView(d), x) = Spending(rows, x)
               /\ Metered(MeterView(d), x) = Metered(meters, x)
    BY <1>1, <2>1 DEF BooksInv, WorkingBalance
  <2> QED
    BY <1>1, <1>6, <1>7, <1>8, <1>10, <1>11, <2>1
       DEF BalancedOn
<1>13. \A x \in Requests : SoundRow(t.rows[x])
  BY <1>1, <1>5, <1>6 DEF BooksInv, SoundRows, Tx
<1> QED
  BY <1>1, <1>6, <1>12, <1>13, OwnStep DEF Working

\* What a working transaction may rely on.
LEMMA WorkingFacts ==
  ASSUME TypeOK, BooksInv, NEW d \in Dataplanes, Working(d)
  PROVE  /\ tx[d] \in Tx
         /\ Current(tx[d].now) \subseteq tx[d].locked
         /\ RowView(d) \in RowTable /\ MeterView(d) \in MeterTable
         /\ \A r \in Requests : SoundRow(tx[d].rows[r])
         /\ \A x \in AccountKeys :
              /\ x \in tx[d].locked =>
                   Balanced(tx[d].accounts[x], RowView(d), MeterView(d), x)
              /\ x \notin tx[d].locked =>
                   /\ Liabilities(RowView(d), x) = Liabilities(rows, x)
                   /\ Spending(RowView(d), x) = Spending(rows, x)
                   /\ Metered(MeterView(d), x) = Metered(meters, x)
<1>1. tx[d] # NoTx
  BY DEF Working
<1>2. tx[d] \in Tx /\ Current(tx[d].now) \subseteq tx[d].locked
  BY <1>1 DEF TypeOK, BooksInv, Locking
<1>3. \A r \in Requests : SoundRow(tx[d].rows[r])
  BY DEF BooksInv, SoundRows
<1>4. WorkingBalance
  BY DEF BooksInv
<1> QED
  BY <1>1, <1>2, <1>3, <1>4, ViewTypes DEF WorkingBalance

\* applyMeter keeps the books of its transaction.
LEMMA MeterStep ==
  ASSUME TypeOK, BooksInv, NEW d \in Dataplanes, NEW m \in MeterIds,
         NEW report \in MeterReport, ApplyMeter(d, m, report)
  PROVE  BooksInv'
<1> DEFINE a == tx[d].accounts[m.account]
           was == tx[d].meters[m]
           old == m.boot # tx[d].boot
           c == MergedMeter(was, report, old)
           b == MeteredAccount(a, was, report, old)
           t == [tx[d] EXCEPT !.stage = "meters", !.meters[m] = c,
                              !.accounts[m.account] = b]
<1>1. /\ tx[d] \in Tx /\ Working(d) /\ m.owner = d
      /\ m.account \in AccountKeys /\ m.account \in tx[d].locked
      /\ MeterAccepted(a, was, report, old)
      /\ tx' = [tx EXCEPT ![d] = t]
      /\ UNCHANGED <<budget, window, accounts, rows, meters, latch>>
  BY RowsAssumption DEF ApplyMeter, TypeOK, Working
<1>2. a \in Account /\ was \in Meter
  BY <1>1 DEF Tx
<1>3. c \in Meter /\ b \in Account
  BY <1>1, <1>2, MeterTypes
<1>4. /\ b.soft = a.soft - was.consumed + c.consumed
      /\ b.enc = a.enc /\ b.cons = a.cons
  <2>1. b = [a EXCEPT !.soft = a.soft + c.consumed - was.consumed]
    BY DEF MeteredAccount
  <2> HIDE DEF a, was, c, b
  <2> QED
    BY <1>2, <1>3, <2>1, ItemsAssumption DEF Account, Meter
<1> HIDE DEF a, was, old, c, b
<1>5. /\ t \in Tx /\ t.locked = tx[d].locked /\ t.now = tx[d].now
      /\ t.stage = "meters" /\ t.rows = tx[d].rows
      /\ t.meters = [tx[d].meters EXCEPT ![m] = c]
      /\ t.accounts = [tx[d].accounts EXCEPT ![m.account] = b]
  BY <1>1, <1>3 DEF Tx
<1> HIDE DEF t
<1>6. tx'[d] = t
  BY <1>1 DEF TypeOK
<1>7. /\ MeterView(d)' = [MeterView(d) EXCEPT ![m] = c]
      /\ RowView(d)' = RowView(d)
      /\ MeterView(d)[m] = was
  <2>1. MeterView(d)[m] = was /\ RowView(d)' = RowView(d)
    BY <1>1, <1>5, <1>6 DEF RowView, MeterView, was
  <2>2. \A x \in MeterIds :
          t.meters[x] = IF x = m THEN c ELSE tx[d].meters[x]
    BY <1>1, <1>5 DEF Tx
  <2>3. \A x \in MeterIds :
          MeterView(d)'[x] = IF x = m THEN c ELSE MeterView(d)[x]
    BY <1>1, <1>6, <2>2 DEF MeterView
  <2> QED
    BY <2>1, <2>3 DEF MeterView
<1>8. ASSUME NEW x \in AccountKeys
      PROVE  /\ x = m.account => Total(Metered(MeterView(d)', x))
                  = Total(Metered(MeterView(d), x)) - was.consumed + c.consumed
             /\ x # m.account =>
                  Metered(MeterView(d)', x) = Metered(MeterView(d), x)
  <2>1. MeterView(d) \in MeterTable
    BY <1>1, WorkingFacts
  <2>2. /\ m.account = x => Total(Metered([MeterView(d) EXCEPT ![m] = c], x))
             = Total(Metered(MeterView(d), x)) - MeterView(d)[m].consumed
                 + c.consumed
        /\ m.account # x => Metered([MeterView(d) EXCEPT ![m] = c], x)
             = Metered(MeterView(d), x)
    BY <1>3, <2>1, ReplaceMeter
  <2> QED
    BY <1>7, <2>2
<1>9. ASSUME NEW x \in AccountKeys, x \in tx[d].locked
      PROVE  Balanced(t.accounts[x], RowView(d)', MeterView(d)', x)
  <2>1. Balanced(tx[d].accounts[x], RowView(d), MeterView(d), x)
    BY <1>1, <1>9, WorkingFacts
  <2>2. CASE x = m.account
    <3>1. t.accounts[x] = b /\ tx[d].accounts[x] = a
      BY <1>1, <1>5, <2>2 DEF Tx, a
    <3> QED
      BY <1>4, <1>7, <1>8, <2>1, <2>2, <3>1 DEF Balanced
  <2>3. CASE x # m.account
    <3>1. t.accounts[x] = tx[d].accounts[x]
      BY <1>1, <1>5, <2>3 DEF Tx
    <3> QED
      BY <1>7, <1>8, <2>1, <2>3, <3>1 DEF Balanced
  <2> QED
    BY <2>2, <2>3
<1>10. BalancedOn(d)'
  <2>1. ASSUME NEW x \in AccountKeys, x \notin tx[d].locked
        PROVE  /\ Liabilities(RowView(d)', x) = Liabilities(rows, x)
               /\ Spending(RowView(d)', x) = Spending(rows, x)
               /\ Metered(MeterView(d)', x) = Metered(meters, x)
    BY <1>1, <1>7, <1>8, <2>1, WorkingFacts
  <2> QED
    BY <1>1, <1>5, <1>6, <1>9, <2>1 DEF BalancedOn
<1>11. \A x \in Requests : SoundRow(t.rows[x])
  BY <1>1, <1>5, WorkingFacts
<1> QED
  BY <1>1, <1>5, <1>10, <1>11, OwnStep

\* A grant is issued only from an account that the transaction has locked.
LEMMA IssuedFromLocked ==
  ASSUME TypeOK, BooksInv, NEW d \in Dataplanes, Working(d), NEW q \in Request,
         IssuedRow(d, q).amount # 0
  PROVE  q.account \in tx[d].locked
<1>1. q.account \in AccountKeys /\ q.def \in Definition
  BY LedgerAssumption DEF Request
<1>2. /\ budget[q.account.key] = q.def
      /\ tx[d].now[q.account.key] = q.account.win
  BY DEF IssuedRow, Grantable
<1>3. q.account \in Current(tx[d].now)
  BY <1>1, <1>2, LedgerAssumption DEF Current
<1> QED
  BY <1>3, WorkingFacts

\* issueGrant keeps the books of its transaction.
LEMMA IssueStep ==
  ASSUME TypeOK, BooksInv, NEW d \in Dataplanes, NEW r \in Requests,
         NEW q \in Request, IssueGrant(d, r, q)
  PROVE  BooksInv'
<1> DEFINE g == tx[d].rows[r]
           h == IssuedRow(d, q)
           a == tx[d].accounts[q.account]
           b == Encumbered(a, h.amount)
           replay == [tx[d] EXCEPT !.stage = "requests"]
           t == [tx[d] EXCEPT !.stage = "requests", !.rows[r] = h,
                              !.accounts[q.account] = b]
<1>1. /\ tx[d] \in Tx /\ Working(d) /\ r.owner = d
      /\ UNCHANGED <<budget, window, accounts, rows, meters, latch>>
  BY DEF IssueGrant, TypeOK, Working
<1>2. \/ tx' = [tx EXCEPT ![d] = replay]
      \/ (g = NoRow \/ g.amount = 0) /\ tx' = [tx EXCEPT ![d] = t]
  BY Zenon DEF IssueGrant
<1>3. CASE tx' = [tx EXCEPT ![d] = replay]
  <2>1. /\ replay \in Tx /\ replay.stage = "requests"
        /\ replay.locked = tx[d].locked /\ replay.now = tx[d].now
        /\ replay.rows = tx[d].rows /\ replay.meters = tx[d].meters
        /\ replay.accounts = tx[d].accounts
    BY <1>1 DEF Tx
  <2> HIDE DEF replay
  <2>2. tx'[d] = replay
    BY <1>3 DEF TypeOK
  <2>3. RowView(d)' = RowView(d) /\ MeterView(d)' = MeterView(d)
    BY <1>1, <2>1, <2>2 DEF RowView, MeterView
  <2>4. BalancedOn(d)'
    BY <1>1, <2>1, <2>2, <2>3, WorkingFacts DEF BalancedOn
  <2>5. \A x \in Requests : SoundRow(replay.rows[x])
    BY <1>1, <2>1, WorkingFacts
  <2> QED
    BY <1>1, <1>3, <2>1, <2>4, <2>5, OwnStep
<1>4. CASE (g = NoRow \/ g.amount = 0) /\ tx' = [tx EXCEPT ![d] = t]
  <2>1. q.account \in AccountKeys /\ a \in Account
    BY <1>1 DEF Request, Tx
  <2>2. /\ h \in Row /\ a.enc + h.amount \in Money /\ h.account = q.account
        /\ h.consumed = 0 /\ h.observed = 0 /\ ~h.closed /\ ~h.overrun
    BY <1>1, IssuedRowType DEF Working
  <2>3. h.amount # 0 => q.account \in tx[d].locked
    BY <1>1, IssuedFromLocked
  <2>4. \A x : Owes(g, x) = 0 /\ Used(g, x) = 0
    <3>1. g \in Row \cup {NoRow} /\ SoundRow(g)
      BY <1>1, WorkingFacts DEF Tx
    <3> HIDE DEF g
    <3> QED
      BY <1>4, <3>1, ItemsAssumption
         DEF Owes, Used, SoundRow, Liability, Spent, Larger, Row
  <2> HIDE DEF h, a, g
  <2>5. /\ h # NoRow /\ SoundRow(h) /\ Liability(h) = h.amount /\ Spent(h) = 0
    BY <2>2, RowAssumption, ItemsAssumption
       DEF SoundRow, Liability, Spent, Larger, Row
  <2>6. /\ b \in Account /\ b.enc = a.enc + h.amount
        /\ b.cons = a.cons /\ b.soft = a.soft
    BY <2>1, <2>2 DEF Encumbered, Account
  <2> HIDE DEF b
  <2>7. /\ t \in Tx /\ t.locked = tx[d].locked /\ t.now = tx[d].now
        /\ t.stage = "requests" /\ t.meters = tx[d].meters
        /\ t.rows = [tx[d].rows EXCEPT ![r] = h]
        /\ t.accounts = [tx[d].accounts EXCEPT ![q.account] = b]
    BY <1>1, <2>1, <2>2, <2>6 DEF Tx
  <2> HIDE DEF t
  <2>8. tx'[d] = t
    BY <1>4 DEF TypeOK
  <2>9. /\ RowView(d)' = [RowView(d) EXCEPT ![r] = h]
        /\ MeterView(d)' = MeterView(d)
        /\ RowView(d)[r] = g
    <3>1. RowView(d)[r] = g /\ MeterView(d)' = MeterView(d)
      BY <1>1, <2>7, <2>8 DEF RowView, MeterView, g
    <3>2. \A x \in Requests :
            t.rows[x] = IF x = r THEN h ELSE tx[d].rows[x]
      BY <1>1, <2>7 DEF Tx
    <3>3. \A x \in Requests :
            RowView(d)'[x] = IF x = r THEN h ELSE RowView(d)[x]
      BY <1>1, <2>8, <3>2 DEF RowView
    <3> QED
      BY <3>1, <3>3 DEF RowView
  <2>10. RowView(d) \in RowTable
    BY <1>1, WorkingFacts
  <2>11. ASSUME NEW x \in AccountKeys, x \in tx[d].locked
         PROVE  Balanced(t.accounts[x], RowView(d)', MeterView(d)', x)
    <3>1. Balanced(tx[d].accounts[x], RowView(d), MeterView(d), x)
      BY <1>1, <2>11, WorkingFacts
    <3>2. /\ Total(Liabilities([RowView(d) EXCEPT ![r] = h], x))
               = Total(Liabilities(RowView(d), x))
                   - Owes(RowView(d)[r], x) + Owes(h, x)
          /\ Total(Spending([RowView(d) EXCEPT ![r] = h], x))
               = Total(Spending(RowView(d), x))
                   - Used(RowView(d)[r], x) + Used(h, x)
      BY <2>2, <2>10, ReplaceRow
    <3>3. /\ tx[d].accounts[x].enc \in Nat /\ tx[d].accounts[x].cons \in Nat
          /\ h.amount \in Nat
      BY <1>1, <2>2, ItemsAssumption DEF Tx, Account, Row
    <3>4. CASE x = q.account
      <4>1. Owes(h, x) = h.amount /\ Used(h, x) = 0
        BY <2>2, <2>5, <3>4 DEF Owes, Used
      <4>2. t.accounts[x] = b /\ tx[d].accounts[x] = a
        BY <1>1, <2>1, <2>7, <3>4 DEF Tx, a
      <4> QED
        BY <2>4, <2>6, <2>9, <3>1, <3>2, <3>3, <4>1, <4>2 DEF Balanced
    <3>5. CASE x # q.account
      <4>1. Owes(h, x) = 0 /\ Used(h, x) = 0
        BY <2>2, <3>5 DEF Owes, Used
      <4>2. t.accounts[x] = tx[d].accounts[x]
        BY <1>1, <2>7, <3>5 DEF Tx
      <4> QED
        BY <2>4, <2>9, <3>1, <3>2, <3>3, <4>1, <4>2 DEF Balanced
    <3> QED
      BY <3>4, <3>5
  <2>12. ASSUME NEW x \in AccountKeys, x \notin tx[d].locked
         PROVE  /\ Liabilities(RowView(d)', x) = Liabilities(RowView(d), x)
                /\ Spending(RowView(d)', x) = Spending(RowView(d), x)
    <3>1. Owes(h, x) = 0 /\ Used(h, x) = 0
      BY <2>2, <2>3, <2>5, <2>12 DEF Owes, Used
    <3>2. \A y \in Requests :
            /\ Owes(RowView(d)'[y], x) = Owes(RowView(d)[y], x)
            /\ Used(RowView(d)'[y], x) = Used(RowView(d)[y], x)
      BY <2>4, <2>9, <2>10, <3>1 DEF RowTable
    <3> QED
      BY <3>2 DEF Liabilities, Spending, Owes, Used
  <2>13. BalancedOn(d)'
    <3>1. ASSUME NEW x \in AccountKeys, x \notin tx[d].locked
          PROVE  /\ Liabilities(RowView(d)', x) = Liabilities(rows, x)
                 /\ Spending(RowView(d)', x) = Spending(rows, x)
                 /\ Metered(MeterView(d)', x) = Metered(meters, x)
      BY <1>1, <2>9, <2>12, <3>1, WorkingFacts
    <3> QED
      BY <1>1, <2>7, <2>8, <2>11, <3>1 DEF BalancedOn
  <2>14. \A x \in Requests : SoundRow(t.rows[x])
    BY <1>1, <2>5, <2>7, WorkingFacts DEF Tx
  <2> QED
    BY <1>1, <1>4, <2>7, <2>13, <2>14, OwnStep
<1> QED
  BY <1>2, <1>3, <1>4

\* Locking the accounts starts from books that balance, and shares no lock.
LEMMA LockStep ==
  ASSUME TypeOK, BooksInv, NEW d \in Dataplanes,
         NEW named \in SUBSET AccountKeys, LockAccounts(d, named)
  PROVE  BooksInv'
<1> DEFINE locked == Current(tx[d].now) \cup named
           opened == [a \in AccountKeys |-> Opened(a, tx[d].now)]
           t == [tx[d] EXCEPT !.stage = "reports", !.locked = locked,
                              !.accounts = opened, !.rows = rows,
                              !.meters = meters]
<1>1. /\ tx[d] \in Tx /\ tx' = [tx EXCEPT ![d] = t]
      /\ UNCHANGED <<budget, window, accounts, rows, meters, latch>>
      /\ \A a \in locked : ~Locked(a)
  BY DEF LockAccounts, TypeOK
<1>2. \A a \in AccountKeys : /\ opened[a].enc = accounts[a].enc
                             /\ opened[a].cons = accounts[a].cons
                             /\ opened[a].soft = accounts[a].soft
  BY DEF Opened, TypeOK, Account
<1> HIDE DEF locked, opened
<1>3. /\ t.stage = "reports" /\ t.locked = locked /\ t.now = tx[d].now
      /\ t.accounts = opened /\ t.rows = rows /\ t.meters = meters
  BY <1>1 DEF Tx
<1>4. t # NoTx
  <2>1. t \in Tx
    <3>1. opened \in [AccountKeys -> Account]
      BY DEF opened, Opened, TypeOK, Account
    <3>2. locked \in SUBSET AccountKeys
      BY DEF locked, Current
    <3> QED
      BY <1>1, <3>1, <3>2 DEF Tx, TypeOK
  <2> QED
    BY <2>1, TxAssumption
<1> HIDE DEF t
<1>5. tx'[d] = t /\ \A e \in Dataplanes \ {d} : tx'[e] = tx[e]
  BY <1>1 DEF TypeOK
<1>6. Working(d)' /\ \A e \in Dataplanes \ {d} : Working(e)' <=> Working(e)
  BY <1>3, <1>4, <1>5 DEF Working
<1>7. SoundRows'
  BY <1>1, <1>3, <1>5, <1>6 DEF BooksInv, SoundRows
<1>8. \A now : Current(now)' = Current(now)
  BY <1>1 DEF Current
<1>9. \A e \in Dataplanes \ {d} :
        tx[e] # NoTx => tx[e].locked \cap locked = {}
  BY <1>1 DEF Locked
<1>10. Locking'
  <2>1. Current(tx[d].now) \subseteq locked
    BY DEF locked
  <2> QED
    BY <1>3, <1>4, <1>5, <1>6, <1>8, <1>9, <2>1
       DEF BooksInv, Locking, Working
<1>11. RowView(d)' = rows /\ MeterView(d)' = meters
  BY <1>1, <1>3, <1>5 DEF RowView, MeterView, TypeOK
<1>12. BalancedOn(d)'
  <2>1. \A a \in AccountKeys : Balanced(opened[a], rows, meters, a)
    BY <1>2 DEF BooksInv, BooksBalance, Balanced
  <2> QED
    BY <1>1, <1>3, <1>5, <1>11, <2>1 DEF BalancedOn
<1>13. \A e \in Dataplanes \ {d} :
         RowView(e)' = RowView(e) /\ MeterView(e)' = MeterView(e)
  BY <1>1, <1>5 DEF RowView, MeterView
<1>14. \A e \in Dataplanes \ {d} : Working(e)' => BalancedOn(e)'
  BY <1>1, <1>5, <1>6, <1>13
     DEF BooksInv, WorkingBalance, BalancedOn, Balanced, Liabilities, Spending,
         Metered
<1>15. WorkingBalance'
  BY <1>12, <1>14 DEF WorkingBalance, BalancedOn
<1>16. BooksBalance'
  BY <1>1 DEF BooksInv, BooksBalance, Balanced, Liabilities, Spending, Metered
<1> QED
  BY <1>7, <1>10, <1>15, <1>16 DEF BooksInv

\* Publishing a working copy balances the accounts it had locked and leaves
\* the others, and the copies of the other transactions, as they were.
LEMMA CommitStep ==
  ASSUME TypeOK, BooksInv, NEW d \in Dataplanes, Commit(d)
  PROVE  BooksInv'
<1>1. /\ tx[d] \in Tx /\ Working(d) /\ tx' = [tx EXCEPT ![d] = NoTx]
      /\ budget' = budget
      /\ rows' = RowView(d) /\ meters' = MeterView(d)
      /\ accounts' = [a \in AccountKeys |->
                        IF a \in tx[d].locked THEN tx[d].accounts[a]
                                              ELSE accounts[a]]
  BY DEF Commit, TypeOK, Working, RowView, MeterView
<1>2. tx'[d] = NoTx /\ \A e \in Dataplanes \ {d} : tx'[e] = tx[e]
  BY <1>1 DEF TypeOK
<1>3. \A e \in Dataplanes : Working(e)' => e # d /\ Working(e)
  BY <1>2 DEF Working
<1>4. \A r \in Requests : rows'[r] = tx[d].rows[r] \/ rows'[r] = rows[r]
  BY <1>1 DEF RowView
<1>5. SoundRows'
  BY <1>1, <1>2, <1>3, <1>4 DEF BooksInv, SoundRows
<1>6. Locking'
  <2>1. \A now : Current(now)' = Current(now)
    BY <1>1 DEF Current
  <2> QED
    BY <1>2, <2>1 DEF BooksInv, Locking, Working
<1>7. ASSUME NEW a \in AccountKeys, a \notin tx[d].locked
      PROVE  /\ Liabilities(rows', a) = Liabilities(rows, a)
             /\ Spending(rows', a) = Spending(rows, a)
             /\ Metered(meters', a) = Metered(meters, a)
  BY <1>1, <1>7, WorkingFacts
<1>8. BooksBalance'
  <2>1. ASSUME NEW a \in AccountKeys
        PROVE  Balanced(accounts'[a], rows', meters', a)
    <3>1. CASE a \in tx[d].locked
      BY <1>1, <3>1, WorkingFacts
    <3>2. CASE a \notin tx[d].locked
      BY <1>1, <1>7, <3>2 DEF BooksInv, BooksBalance, Balanced
    <3> QED
      BY <3>1, <3>2
  <2> QED
    BY <2>1 DEF BooksBalance
<1>9. ASSUME NEW e \in Dataplanes, Working(e)' PROVE BalancedOn(e)'
  <2>1. e # d /\ Working(e) /\ tx'[e] = tx[e]
    BY <1>2, <1>3, <1>9
  <2>2. tx[d].locked \cap tx[e].locked = {}
    BY <1>1, <2>1 DEF BooksInv, Locking, Working
  <2>3. /\ \A r \in Requests : RowView(e)'[r] =
             IF r.owner = e THEN RowView(e)[r] ELSE rows'[r]
        /\ \A m \in MeterIds : MeterView(e)'[m] =
             IF m.owner = e THEN MeterView(e)[m] ELSE meters'[m]
    BY <2>1 DEF RowView, MeterView
  <2>4. /\ \A r \in Requests :
             /\ r.owner = e => rows'[r] = rows[r]
             /\ r.owner # e => RowView(e)[r] = rows[r]
        /\ \A m \in MeterIds :
             /\ m.owner = e => meters'[m] = meters[m]
             /\ m.owner # e => MeterView(e)[m] = meters[m]
    BY <1>1, <2>1 DEF RowView, MeterView
  <2>5. ASSUME NEW a \in AccountKeys, a \in tx[e].locked
        PROVE  Balanced(tx[e].accounts[a], RowView(e)', MeterView(e)', a)
    <3>1. a \notin tx[d].locked
      BY <2>2, <2>5
    <3>2. /\ Liabilities(rows', a) = Liabilities(rows, a)
          /\ Spending(rows', a) = Spending(rows, a)
          /\ Metered(meters', a) = Metered(meters, a)
      BY <1>7, <3>1
    <3>3. \A r \in Requests :
            /\ Owes(rows'[r], a) = Owes(rows[r], a)
            /\ Used(rows'[r], a) = Used(rows[r], a)
      BY <3>2 DEF Liabilities, Spending, Owes, Used
    <3>4. \A r \in Requests :
            /\ Owes(RowView(e)'[r], a) = Owes(RowView(e)[r], a)
            /\ Used(RowView(e)'[r], a) = Used(RowView(e)[r], a)
      BY <2>3, <2>4, <3>3
    <3>5. /\ Liabilities(RowView(e)', a) = Liabilities(RowView(e), a)
          /\ Spending(RowView(e)', a) = Spending(RowView(e), a)
      BY <3>4 DEF Liabilities, Spending, Owes, Used
    <3>6. Metered(MeterView(e)', a) = Metered(MeterView(e), a)
      BY <2>3, <2>4, <3>2 DEF Metered
    <3>7. Balanced(tx[e].accounts[a], RowView(e), MeterView(e), a)
      BY <2>1, <2>5, WorkingFacts
    <3> QED
      BY <3>5, <3>6, <3>7 DEF Balanced
  <2>6. ASSUME NEW a \in AccountKeys, a \notin tx[e].locked
        PROVE  /\ Liabilities(RowView(e)', a) = Liabilities(rows', a)
               /\ Spending(RowView(e)', a) = Spending(rows', a)
               /\ Metered(MeterView(e)', a) = Metered(meters', a)
    <3>1. /\ Liabilities(RowView(e), a) = Liabilities(rows, a)
          /\ Spending(RowView(e), a) = Spending(rows, a)
          /\ Metered(MeterView(e), a) = Metered(meters, a)
      BY <2>1, <2>6, WorkingFacts
    <3>2. \A r \in Requests :
            /\ Owes(RowView(e)[r], a) = Owes(rows[r], a)
            /\ Used(RowView(e)[r], a) = Used(rows[r], a)
      BY <3>1 DEF Liabilities, Spending, Owes, Used
    <3>3. \A r \in Requests :
            /\ Owes(RowView(e)'[r], a) = Owes(rows'[r], a)
            /\ Used(RowView(e)'[r], a) = Used(rows'[r], a)
      BY <2>3, <2>4, <3>2
    <3>4. /\ Liabilities(RowView(e)', a) = Liabilities(rows', a)
          /\ Spending(RowView(e)', a) = Spending(rows', a)
      BY <3>3 DEF Liabilities, Spending, Owes, Used
    <3>5. Metered(MeterView(e)', a) = Metered(meters', a)
      BY <2>3, <2>4, <3>1 DEF Metered
    <3> QED
      BY <3>4, <3>5
  <2> QED
    BY <2>1, <2>5, <2>6 DEF BalancedOn
<1>10. WorkingBalance'
  BY <1>9 DEF WorkingBalance, BalancedOn
<1> QED
  BY <1>5, <1>6, <1>8, <1>10 DEF BooksInv

\* A step that changes neither the tables nor a working copy keeps the books.
LEMMA QuietStep ==
  ASSUME TypeOK, BooksInv,
         accounts' = accounts, rows' = rows, meters' = meters,
         \A e \in Dataplanes : Working(e)' => Working(e) /\ tx'[e] = tx[e],
         Locking'
  PROVE  BooksInv'
<1>1. \A e \in Dataplanes : Working(e)' =>
        RowView(e)' = RowView(e) /\ MeterView(e)' = MeterView(e)
  BY DEF RowView, MeterView
<1>2. WorkingBalance'
  BY <1>1 DEF BooksInv, WorkingBalance, Balanced, Liabilities, Spending, Metered
<1>3. SoundRows'
  BY DEF BooksInv, SoundRows
<1>4. BooksBalance'
  BY DEF BooksInv, BooksBalance, Balanced, Liabilities, Spending, Metered
<1> QED
  BY <1>2, <1>3, <1>4 DEF BooksInv

\* The books of the empty tables balance.
LEMMA InitBooks == Init => BooksInv
<1> SUFFICES ASSUME Init PROVE BooksInv
  OBVIOUS
<1>1. \A d \in Dataplanes : tx[d] = NoTx
  BY DEF Init
<1>2. SoundRows /\ Locking /\ WorkingBalance
  BY <1>1 DEF Init, SoundRows, SoundRow, Locking, WorkingBalance, Working
<1>3. ASSUME NEW a \in AccountKeys
      PROVE  Balanced(accounts[a], rows, meters, a)
  <2>1. /\ Liabilities(rows, a) = [r \in Requests |-> 0]
        /\ Spending(rows, a) = [r \in Requests |-> 0]
        /\ Metered(meters, a) = [m \in MeterIds |-> 0]
    BY DEF Init, Liabilities, Spending, Metered, NoMeter
  <2>2. /\ Total([r \in Requests |-> 0]) = 0
        /\ Total([m \in MeterIds |-> 0]) = 0
    BY TotalOfZero
  <2> QED
    BY <2>1, <2>2 DEF Init, Balanced, EmptyAccount
<1> QED
  BY <1>2, <1>3 DEF BooksInv, BooksBalance

\* BooksInv is inductive: one step per action of Sync, of the operators and of
\* the clock.
LEMMA NextBooks == TypeOK /\ BooksInv /\ [Next]_vars => BooksInv'
<1> SUFFICES ASSUME TypeOK, BooksInv, [Next]_vars PROVE BooksInv'
  OBVIOUS
<1>1. ASSUME NEW d \in Dataplanes, NEW boot \in Boots, Begin(d, boot)
      PROVE  BooksInv'
  <2>1. /\ tx'[d].stage = "locking" /\ tx'[d].locked = {}
        /\ \A e \in Dataplanes \ {d} : tx'[e] = tx[e]
        /\ UNCHANGED <<budget, accounts, rows, meters>>
    BY <1>1 DEF Begin, TypeOK
  <2>2. \A e \in Dataplanes : Working(e)' => e # d /\ Working(e)
    BY <2>1 DEF Working
  <2>3. Locking'
    BY <2>1, <2>2 DEF BooksInv, Locking, Working, Current
  <2> QED
    BY <2>1, <2>2, <2>3, QuietStep
<1>2. ASSUME NEW d \in Dataplanes, Rollback(d) PROVE BooksInv'
  <2>1. /\ tx'[d] = NoTx
        /\ \A e \in Dataplanes \ {d} : tx'[e] = tx[e]
        /\ UNCHANGED <<budget, accounts, rows, meters>>
    BY <1>2 DEF Rollback, TypeOK
  <2>2. \A e \in Dataplanes : Working(e)' => e # d /\ Working(e)
    BY <2>1 DEF Working
  <2>3. Locking'
    BY <2>1, <2>2 DEF BooksInv, Locking, Working, Current
  <2> QED
    BY <2>1, <2>2, <2>3, QuietStep
<1>3. ASSUME NEW k \in Keys, NEW def \in Definitions \cup {NoBudget},
             EditPolicy(k, def)
      PROVE  BooksInv'
  <2>1. \A e \in Dataplanes : tx'[e] = NoTx
    BY <1>3 DEF EditPolicy, SharesPolicies
  <2>2. Locking' /\ \A e \in Dataplanes : ~Working(e)'
    BY <2>1 DEF Locking, Working
  <2> QED
    BY <1>3, <2>2, QuietStep DEF EditPolicy
<1>4. ASSUME UNCHANGED <<budget, accounts, rows, meters, tx>> PROVE BooksInv'
  <2>1. Locking' /\ \A e \in Dataplanes : Working(e)' => Working(e)
    BY <1>4 DEF BooksInv, Locking, Working, Current
  <2> QED
    BY <1>4, <2>1, QuietStep
<1>5. ASSUME NEW k \in Keys, NextWindow(k) PROVE BooksInv'
  BY <1>4, <1>5 DEF NextWindow
<1>6. CASE UNCHANGED vars
  BY <1>4, <1>6 DEF vars
<1> QED
  BY <1>1, <1>2, <1>3, <1>5, <1>6, ReportStep, MeterStep, IssueStep, LockStep,
     CommitStep DEF Next

\* The inductive invariant holds: besides the committed books, those of every
\* open transaction balance on the accounts it has locked, and no two
\* transactions hold the same lock.
THEOREM LedgerBooksInv == Spec => []BooksInv
<1>1. Init => BooksInv
  BY InitBooks
<1>2. TypeOK /\ BooksInv /\ [Next]_vars => BooksInv'
  BY NextBooks
<1> QED
  BY <1>1, <1>2, LedgerTypeCorrect, PTL DEF Spec

\* The accounts always equal the sums over the rows that name them, for any
\* number of data planes syncing at once and any reports they send.
THEOREM LedgerBooksBalance == Spec => []BooksBalance
<1>1. BooksInv => BooksBalance
  BY DEF BooksInv
<1> QED
  BY <1>1, LedgerBooksInv, PTL
=============================================================================
