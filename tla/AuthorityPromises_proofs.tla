---------------------- MODULE AuthorityPromises_proofs ----------------------
(***************************************************************************)
(* What the authority promises about a grant and a window over time: an     *)
(* issued grant is final, a batch issues within the limit in force, an      *)
(* overrun freezes its window and a routing tier stays latched.  The books  *)
(* of AuthorityLedger_proofs say what the tables hold; here a working copy  *)
(* is compared with the committed rows it will replace.                     *)
(***************************************************************************)
EXTENDS AuthorityLedger_proofs

USE DEF Money

IsGrant(g) == g # NoRow /\ g.amount > 0

OwnRows(d) == {r \in Requests : r.owner = d}

\* A working copy only moves the data plane's rows forward.
KeepsGrants(d) == \A r \in OwnRows(d) : Kept(rows[r], tx[d].rows[r])

\* It thaws no account, and freezes the account of every overrun it knows.
KeepsFrozen(d) ==
  /\ \A a \in tx[d].locked : accounts[a].frozen => tx[d].accounts[a].frozen
  /\ \A r \in OwnRows(d) :
       LET g == tx[d].rows[r]
       IN  g # NoRow /\ g.overrun =>
             IF g.account \in tx[d].locked THEN tx[d].accounts[g.account].frozen
                                           ELSE accounts[g.account].frozen

\* An account from which a batch has issued, as the batch leaves it.
Covered(d, a) ==
  /\ a \in tx[d].locked /\ ~tx[d].accounts[a].frozen
  /\ budget[a.key] # NoBudget
  /\ Committed(tx[d].accounts[a]) <= budget[a.key].limit

\* Grants are new only after the last report and the last meter.
IssuesCovered(d) ==
  \A r \in OwnRows(d) :
    IsGrant(tx[d].rows[r]) /\ ~IsGrant(rows[r]) =>
      tx[d].stage = "requests" /\ Covered(d, tx[d].rows[r].account)

\* Neither the freeze nor the limit is inductive on the committed tables: a
\* commit publishes what the working copy has become.
PromisesInv ==
  /\ OverrunFreezes
  /\ \A d \in Dataplanes :
       Working(d) => KeepsGrants(d) /\ KeepsFrozen(d) /\ IssuesCovered(d)

-----------------------------------------------------------------------------
(* rows *)

\* A row may stay as it is.
LEMMA KeptReflexive ==
  ASSUME NEW g \in Row \cup {NoRow}
  PROVE  Kept(g, g)
<1> SUFFICES ASSUME IsGrant(g) PROVE Kept(g, g)
  BY DEF Kept, IsGrant
<1>1. g \in Row
  BY DEF IsGrant
<1>2. Liability(g) \in Nat
  BY <1>1, SpentType
<1>3. g.seq >= g.seq /\ g.consumed >= g.consumed /\ g.observed >= g.observed
  BY <1>1, ItemsAssumption DEF Row
<1> QED
  BY <1>2, <1>3 DEF Kept, IsGrant

\* What a grant may become in two steps it may become in one.
LEMMA KeptTransitive ==
  ASSUME NEW g \in Row \cup {NoRow}, NEW h \in Row \cup {NoRow},
         NEW i \in Row \cup {NoRow}, Kept(g, h), Kept(h, i)
  PROVE  Kept(g, i)
<1> SUFFICES ASSUME IsGrant(g) PROVE Kept(g, i)
  BY DEF Kept, IsGrant
<1>1. /\ h # NoRow /\ h.account = g.account /\ h.amount = g.amount
      /\ h.seq >= g.seq /\ h.consumed >= g.consumed /\ h.observed >= g.observed
      /\ g.closed => h.closed /\ Liability(h) >= Liability(g)
      /\ g.overrun => h.overrun
  BY DEF Kept, IsGrant
<1>2. IsGrant(h)
  BY <1>1 DEF IsGrant
<1>3. /\ i # NoRow /\ i.account = h.account /\ i.amount = h.amount
      /\ i.seq >= h.seq /\ i.consumed >= h.consumed /\ i.observed >= h.observed
      /\ h.closed => i.closed /\ Liability(i) >= Liability(h)
      /\ h.overrun => i.overrun
  BY <1>2 DEF Kept, IsGrant
<1>4. g \in Row /\ h \in Row /\ i \in Row
  BY <1>1, <1>3 DEF IsGrant
<1>5. Liability(g) \in Nat /\ Liability(h) \in Nat /\ Liability(i) \in Nat
  BY <1>4, SpentType
<1>6. /\ i.seq >= g.seq /\ i.consumed >= g.consumed /\ i.observed >= g.observed
  BY <1>1, <1>3, <1>4, ItemsAssumption DEF Row
<1>7. g.closed => i.closed /\ Liability(i) >= Liability(g)
  BY <1>1, <1>3, <1>5
<1> QED
  BY <1>1, <1>3, <1>6, <1>7 DEF Kept

\* applyReport moves a grant forward, never thaws its account, and freezes it
\* when the grant is an overrun from now on.
LEMMA ReportKeeps ==
  ASSUME NEW a \in Account, NEW g \in Row, NEW r \in Report,
         NEW old \in BOOLEAN, ReportAccepted(a, g, r, old),
         SoundRow(g), g.amount > 0
  PROVE  LET h == ReportedGrant(g, r, old)
             b == ReportedAccount(a, g, r, old)
         IN  /\ Kept(g, h)
             /\ a.frozen => b.frozen
             /\ h.overrun => g.overrun \/ b.frozen
<1> DEFINE c == Checkpoint(g, r, old)
           burn == RecoveryBurn(g, r, old)
           h == ReportedGrant(g, r, old)
           b == ReportedAccount(a, g, r, old)
<1> USE ItemsAssumption
<1>1. r \in Fields /\ c \in Fields /\ (c.overrun => c.closed)
  BY CheckpointType DEF Report
<1>2. /\ h \in Row /\ h.account = g.account /\ h.amount = g.amount /\ h # NoRow
      /\ b \in Account
  BY ReportTypes, RowAssumption
<1>3. g.overrun => g.closed
  BY RowAssumption DEF SoundRow
<1>4. Liability(g) \in Nat /\ Liability(h) \in Nat /\ Spent(g) \in Nat
  BY <1>2, SpentType
<1> HIDE DEF c, burn
<1>5. CASE ClosedEcho(g, r, old)
  <2>1. b = a
    BY <1>5 DEF ReportedAccount
  <2>2. h = [g EXCEPT !.seq = Larger(g.seq, r.seq),
                      !.observed = Larger(g.observed, r.observed)]
    BY <1>5 DEF ReportedGrant
  <2>3. /\ h.consumed = g.consumed /\ h.closed = g.closed
        /\ h.overrun = g.overrun
        /\ h.seq = Larger(g.seq, r.seq)
        /\ h.observed = Larger(g.observed, r.observed)
    BY <2>2 DEF Row
  <2>4. h.seq >= g.seq /\ h.observed >= g.observed
    BY <1>1, <2>3, LargerType DEF Fields, Row
  <2>5. Spent(h) >= Spent(g)
    BY <1>2, <2>3, <2>4 DEF Spent, Larger, Row
  <2>6. Liability(h) >= Liability(g)
    BY <1>2, <2>3, <2>5 DEF Liability, Spent, Larger, Row
  <2> HIDE DEF h, b
  <2>7. Kept(g, h)
    BY <1>2, <2>3, <2>4, <2>6 DEF Kept, Row
  <2> QED
    BY <2>1, <2>3, <2>7 DEF h, b
<1>6. CASE ~ClosedEcho(g, r, old) /\ Replayed(g, c, burn)
  <2>1. b = a /\ h = g
    BY <1>6 DEF ReportedAccount, ReportedGrant, c, burn
  <2> QED
    BY <2>1, KeptReflexive
<1>7. CASE ~ClosedEcho(g, r, old) /\ ~Replayed(g, c, burn)
  <2>1. h = [g EXCEPT !.seq = c.seq, !.consumed = c.consumed,
                      !.observed = c.observed, !.closed = c.closed,
                      !.overrun = c.overrun]
    BY <1>7, Zenon DEF ReportedGrant, c, burn
  <2>2. /\ h.consumed = c.consumed /\ h.observed = c.observed
        /\ h.closed = c.closed /\ h.overrun = c.overrun /\ h.seq = c.seq
    BY <2>1 DEF Row
  <2>3. b.frozen = (a.frozen \/ (c.closed /\ c.overrun))
    <3>1. b = [a EXCEPT !.cons = a.cons + Spent(c) - Spent(g),
                        !.enc = IF c.closed THEN Settled(a, g, c) ELSE a.enc,
                        !.frozen = a.frozen \/ (c.closed /\ c.overrun)]
      BY <1>7, Zenon DEF ReportedAccount, c, burn
    <3> QED
      BY <3>1 DEF Account
  <2>4. /\ c.consumed >= g.consumed /\ c.observed >= g.observed
        /\ g.closed => Same(g, c) \/ (c.closed /\ c.overrun)
        /\ burn \/ c.seq >= g.seq
        /\ c.closed => (g.closed => Retained(g, c) >= Previous(g))
    BY <1>1, <1>7 DEF ReportAccepted, c, burn, Fields, Row
  <2>5. c.seq >= g.seq
    <3>1. burn => c.seq = Larger(r.seq, g.seq)
      BY <1>1 DEF burn, c, Checkpoint, Fields
    <3> QED
      BY <1>1, <2>4, <3>1, LargerType DEF Fields, Row
  <2>6. /\ g.closed => h.closed
        /\ g.overrun => h.overrun
    BY <1>3, <2>2, <2>4 DEF Same
  <2>7. g.closed => Liability(h) >= Liability(g)
    <3>1. Spent(h) >= Spent(g)
      BY <1>1, <2>2, <2>4 DEF Spent, Larger, Fields, Row
    <3> QED
      BY <1>2, <2>6, <3>1, <2>2, <2>4 DEF Liability, Larger, Spent, Row, Same
  <2> HIDE DEF h, b
  <2>8. Kept(g, h)
    BY <1>2, <2>2, <2>4, <2>5, <2>6, <2>7 DEF Kept
  <2> QED
    BY <1>1, <2>2, <2>3, <2>8 DEF h, b
<1> QED
  BY <1>5, <1>6, <1>7

-----------------------------------------------------------------------------
(* steps *)

\* A step of one transaction on its own copy breaks no promise of another.
LEMMA OwnPromises ==
  ASSUME TypeOK, PromisesInv, NEW d \in Dataplanes, NEW t \in Tx,
         tx' = [tx EXCEPT ![d] = t],
         UNCHANGED <<budget, window, accounts, rows, meters, latch>>,
         KeepsGrants(d)', KeepsFrozen(d)', IssuesCovered(d)'
  PROVE  PromisesInv'
<1>1. \A e \in Dataplanes \ {d} : tx'[e] = tx[e]
  BY DEF TypeOK
<1>2. OverrunFreezes'
  BY DEF PromisesInv, OverrunFreezes
<1>3. ASSUME NEW e \in Dataplanes \ {d}, Working(e)'
      PROVE  KeepsGrants(e)' /\ KeepsFrozen(e)' /\ IssuesCovered(e)'
  <2>1. tx'[e] = tx[e] /\ Working(e)
    BY <1>1, <1>3 DEF Working
  <2>2. KeepsGrants(e) /\ KeepsFrozen(e) /\ IssuesCovered(e)
    BY <2>1 DEF PromisesInv
  <2> QED
    BY <2>1, <2>2 DEF KeepsGrants, KeepsFrozen, IssuesCovered, Covered
<1> QED
  BY <1>2, <1>3 DEF PromisesInv

\* applyReport keeps the promises: it moves the row forward, freezes with an
\* overrun, and comes before the batch's first grant.
LEMMA ReportPromises ==
  ASSUME TypeOK, BooksInv, PromisesInv, NEW d \in Dataplanes,
         NEW r \in Requests, NEW report \in Report, ApplyReport(d, r, report)
  PROVE  PromisesInv'
<1> DEFINE g == tx[d].rows[r]
           a == tx[d].accounts[g.account]
           old == r.boot # tx[d].boot
           h == ReportedGrant(g, report, old)
           b == ReportedAccount(a, g, report, old)
           t == [tx[d] EXCEPT !.rows[r] = h, !.accounts[g.account] = b]
<1>1. /\ tx[d] \in Tx /\ g \in Row /\ Working(d) /\ r.owner = d
      /\ tx[d].stage = "reports"
      /\ g.amount > 0 /\ g.account \in tx[d].locked
      /\ ReportAccepted(a, g, report, old)
      /\ tx' = [tx EXCEPT ![d] = t]
      /\ UNCHANGED <<budget, window, accounts, rows, meters, latch>>
  BY DEF ApplyReport, TypeOK, Tx, Working
<1>2. a \in Account /\ g.account \in AccountKeys
  BY <1>1 DEF Tx, Row
<1>3. SoundRow(g)
  BY <1>1 DEF BooksInv, SoundRows
<1>4. KeepsGrants(d) /\ KeepsFrozen(d) /\ IssuesCovered(d)
  BY <1>1 DEF PromisesInv
<1> HIDE DEF g, a
<1>5. /\ h \in Row /\ b \in Account /\ h.account = g.account
      /\ h.amount = g.amount /\ h # NoRow
  BY <1>1, <1>2, ReportTypes, RowAssumption
<1>6. /\ Kept(g, h)
      /\ a.frozen => b.frozen
      /\ h.overrun => g.overrun \/ b.frozen
  <2>1. old \in BOOLEAN
    OBVIOUS
  <2> HIDE DEF old
  <2> QED
    BY <1>1, <1>2, <1>3, <2>1, ReportKeeps, Zenon
<1> HIDE DEF old, h, b
<1>7. /\ t \in Tx /\ t.locked = tx[d].locked /\ t.stage = "reports"
      /\ t.rows = [tx[d].rows EXCEPT ![r] = h]
      /\ t.accounts = [tx[d].accounts EXCEPT ![g.account] = b]
  BY <1>1, <1>2, <1>5 DEF Tx
<1> HIDE DEF t
<1>8. tx'[d] = t
  BY <1>1 DEF TypeOK
<1>9. \A x \in Requests : t.rows[x] = IF x = r THEN h ELSE tx[d].rows[x]
  BY <1>1, <1>7 DEF Tx
<1>10. \A x \in AccountKeys :
         t.accounts[x] = IF x = g.account THEN b ELSE tx[d].accounts[x]
  BY <1>1, <1>7 DEF Tx
<1>11. KeepsGrants(d)'
  <2>1. Kept(rows[r], h)
    <3>1. Kept(rows[r], g)
      BY <1>1, <1>4 DEF KeepsGrants, OwnRows, g
    <3> QED
      BY <1>1, <1>5, <1>6, <3>1, KeptTransitive DEF TypeOK
  <2> QED
    BY <1>1, <1>4, <1>8, <1>9, <2>1 DEF KeepsGrants, OwnRows
<1>12. KeepsFrozen(d)'
  <2>1. ASSUME NEW x \in tx[d].locked, accounts[x].frozen
        PROVE  t.accounts[x].frozen
    <3>1. x \in AccountKeys /\ tx[d].accounts[x].frozen
      BY <1>1, <1>4, <2>1 DEF KeepsFrozen, Tx
    <3> QED
      BY <1>6, <1>10, <3>1 DEF a
  <2>2. ASSUME NEW x \in OwnRows(d), t.rows[x] # NoRow, t.rows[x].overrun
        PROVE  IF t.rows[x].account \in tx[d].locked
               THEN t.accounts[t.rows[x].account].frozen
               ELSE accounts[t.rows[x].account].frozen
    <3>1. x \in Requests
      BY DEF OwnRows
    <3>2. CASE x = r
      <4>1. g.overrun => a.frozen
        BY <1>1, <1>4, <3>2, RowAssumption DEF KeepsFrozen, OwnRows, g, a
      <4>2. b.frozen
        BY <1>6, <1>9, <2>2, <3>1, <3>2, <4>1
      <4> QED
        BY <1>1, <1>2, <1>5, <1>9, <1>10, <3>1, <3>2, <4>2
    <3>3. CASE x # r
      <4>1. t.rows[x] = tx[d].rows[x] /\ t.rows[x] \in Row
        BY <1>1, <1>9, <2>2, <3>1, <3>3 DEF Tx
      <4>2. t.rows[x].account \in AccountKeys
        BY <4>1 DEF Row
      <4>3. IF t.rows[x].account \in tx[d].locked
            THEN tx[d].accounts[t.rows[x].account].frozen
            ELSE accounts[t.rows[x].account].frozen
        BY <1>4, <2>2, <4>1 DEF KeepsFrozen
      <4> QED
        BY <1>6, <1>10, <4>2, <4>3 DEF a
    <3> QED
      BY <3>2, <3>3
  <2> QED
    BY <1>1, <1>7, <1>8, <2>1, <2>2 DEF KeepsFrozen, OwnRows
<1>13. IssuesCovered(d)'
  <2>1. ASSUME NEW x \in OwnRows(d), IsGrant(t.rows[x])
        PROVE  IsGrant(rows[x])
    <3>1. IsGrant(tx[d].rows[x])
      BY <1>1, <1>5, <1>9, <2>1, RowAssumption DEF IsGrant, OwnRows, g
    <3> QED
      BY <1>1, <1>4, <3>1 DEF IssuesCovered
  <2> QED
    BY <1>1, <1>8, <2>1 DEF IssuesCovered, OwnRows, IsGrant
<1> QED
  BY <1>1, <1>7, <1>11, <1>12, <1>13, OwnPromises

\* applyMeter touches no row and thaws nothing, and comes before the grants.
LEMMA MeterPromises ==
  ASSUME TypeOK, PromisesInv, NEW d \in Dataplanes, NEW m \in MeterIds,
         NEW report \in MeterReport, ApplyMeter(d, m, report)
  PROVE  PromisesInv'
<1> DEFINE a == tx[d].accounts[m.account]
           was == tx[d].meters[m]
           old == m.boot # tx[d].boot
           c == MergedMeter(was, report, old)
           b == MeteredAccount(a, was, report, old)
           t == [tx[d] EXCEPT !.stage = "meters", !.meters[m] = c,
                              !.accounts[m.account] = b]
<1>1. /\ tx[d] \in Tx /\ Working(d) /\ tx[d].stage \in {"reports", "meters"}
      /\ m.account \in tx[d].locked
      /\ MeterAccepted(a, was, report, old)
      /\ tx' = [tx EXCEPT ![d] = t]
      /\ UNCHANGED <<budget, window, accounts, rows, meters, latch>>
  BY DEF ApplyMeter, TypeOK, Working
<1>2. a \in Account /\ was \in Meter /\ m.account \in AccountKeys
  BY <1>1, RowsAssumption DEF Tx
<1>3. KeepsGrants(d) /\ KeepsFrozen(d) /\ IssuesCovered(d)
  BY <1>1 DEF PromisesInv
<1> HIDE DEF a, was
<1>4. c \in Meter /\ b \in Account
  BY <1>1, <1>2, MeterTypes
<1>5. b.frozen = a.frozen
  BY <1>2 DEF MeteredAccount, Account
<1> HIDE DEF old, c, b
<1>6. /\ t \in Tx /\ t.locked = tx[d].locked /\ t.stage = "meters"
      /\ t.rows = tx[d].rows
      /\ t.accounts = [tx[d].accounts EXCEPT ![m.account] = b]
  BY <1>1, <1>2, <1>4 DEF Tx
<1> HIDE DEF t
<1>7. tx'[d] = t
  BY <1>1 DEF TypeOK
<1>8. \A x \in AccountKeys : t.accounts[x].frozen = tx[d].accounts[x].frozen
  BY <1>1, <1>5, <1>6 DEF Tx, a
<1>9. KeepsGrants(d)'
  BY <1>1, <1>3, <1>6, <1>7 DEF KeepsGrants, OwnRows
<1>10. KeepsFrozen(d)'
  <2>1. tx[d].locked \subseteq AccountKeys
    BY <1>1 DEF Tx
  <2>2. \A x \in tx[d].locked : accounts[x].frozen => t.accounts[x].frozen
    BY <1>3, <1>8, <2>1 DEF KeepsFrozen
  <2>3. ASSUME NEW x \in OwnRows(d), t.rows[x] # NoRow, t.rows[x].overrun
        PROVE  IF t.rows[x].account \in tx[d].locked
               THEN t.accounts[t.rows[x].account].frozen
               ELSE accounts[t.rows[x].account].frozen
    <3>1. t.rows[x].account \in AccountKeys
      BY <1>1, <1>6, <2>3 DEF Tx, Row, OwnRows
    <3> QED
      BY <1>3, <1>6, <1>8, <2>3, <3>1 DEF KeepsFrozen
  <2> QED
    BY <1>1, <1>6, <1>7, <2>2, <2>3 DEF KeepsFrozen, OwnRows
<1>11. IssuesCovered(d)'
  BY <1>1, <1>3, <1>6, <1>7 DEF IssuesCovered, OwnRows
<1> QED
  BY <1>1, <1>6, <1>9, <1>10, <1>11, OwnPromises

\* A grant is issued from an account that is not frozen, under the definition
\* in force, and within its limit.
LEMMA IssuedWithin ==
  ASSUME TypeOK, NEW d \in Dataplanes, tx[d] \in Tx, NEW q \in Request,
         IssuedRow(d, q).amount # 0
  PROVE  LET a == tx[d].accounts[q.account]
             k == q.account.key
         IN  /\ ~a.frozen /\ budget[k] # NoBudget
             /\ Committed(a) + IssuedRow(d, q).amount <= budget[k].limit
<1> DEFINE a == tx[d].accounts[q.account]
           k == q.account.key
           n == GrantAmount(q.def, a, q.want)
           ok == Grantable(budget[k], tx[d].now[k], a,
                           [win |-> q.account.win, def |-> q.def,
                            want |-> q.want])
<1>1. /\ q.account \in AccountKeys /\ q.def \in Definition /\ q.want \in Money
      /\ a \in Account
  BY LedgerAssumption DEF Request, Tx
<1>2. IssuedRow(d, q).amount = IF ok THEN n ELSE 0
  BY DEF IssuedRow
<1>3. ok /\ IssuedRow(d, q).amount = n
  BY <1>2
<1>4. budget[k] = q.def /\ ~a.frozen /\ ~Exhausted(q.def, a, q.want)
  BY <1>3 DEF Grantable
<1> HIDE DEF a, n, ok, k
<1>5. Committed(a) + n <= q.def.limit
  BY <1>1, <1>4, GrantBounds DEF n
<1>6. budget[k] # NoBudget
  BY <1>1, <1>4, LedgerAssumption
<1> QED
  BY <1>3, <1>4, <1>5, <1>6 DEF a, k

\* issueGrant keeps the promises: it replaces no grant, and a grant that it adds
\* is covered together with those that the batch has issued before.
LEMMA IssuePromises ==
  ASSUME TypeOK, BooksInv, PromisesInv, NEW d \in Dataplanes,
         NEW r \in Requests, NEW q \in Request, IssueGrant(d, r, q)
  PROVE  PromisesInv'
<1> DEFINE g == tx[d].rows[r]
           h == IssuedRow(d, q)
           a == tx[d].accounts[q.account]
           b == Encumbered(a, h.amount)
           replay == [tx[d] EXCEPT !.stage = "requests"]
           t == [tx[d] EXCEPT !.stage = "requests", !.rows[r] = h,
                              !.accounts[q.account] = b]
<1>1. /\ tx[d] \in Tx /\ Working(d) /\ r.owner = d
      /\ UNCHANGED <<budget, window, accounts, rows, meters, latch>>
  BY DEF IssueGrant, TypeOK, Working
<1>2. KeepsGrants(d) /\ KeepsFrozen(d) /\ IssuesCovered(d)
  BY <1>1 DEF PromisesInv
<1>3. \/ tx' = [tx EXCEPT ![d] = replay]
      \/ (g = NoRow \/ g.amount = 0) /\ tx' = [tx EXCEPT ![d] = t]
  BY Zenon DEF IssueGrant
<1>4. CASE tx' = [tx EXCEPT ![d] = replay]
  <2>1. /\ replay \in Tx /\ replay.stage = "requests"
        /\ replay.locked = tx[d].locked /\ replay.rows = tx[d].rows
        /\ replay.accounts = tx[d].accounts
    BY <1>1 DEF Tx
  <2> HIDE DEF replay
  <2>2. tx'[d] = replay
    BY <1>4 DEF TypeOK
  <2>3. KeepsGrants(d)' /\ KeepsFrozen(d)'
    BY <1>1, <1>2, <2>1, <2>2 DEF KeepsGrants, KeepsFrozen, OwnRows
  <2>4. IssuesCovered(d)'
    BY <1>1, <1>2, <2>1, <2>2 DEF IssuesCovered, Covered, OwnRows
  <2> QED
    BY <1>1, <1>4, <2>1, <2>3, <2>4, OwnPromises
<1>5. CASE (g = NoRow \/ g.amount = 0) /\ tx' = [tx EXCEPT ![d] = t]
  <2>1. q.account \in AccountKeys /\ a \in Account
    BY <1>1 DEF Request, Tx
  <2>2. /\ h \in Row /\ h # NoRow /\ a.enc + h.amount \in Money
        /\ h.account = q.account /\ ~h.overrun
    BY <1>1, IssuedRowType, RowAssumption DEF Working
  <2>3. h.amount # 0 =>
          /\ q.account \in tx[d].locked /\ ~a.frozen
          /\ budget[q.account.key] # NoBudget
          /\ Committed(a) + h.amount <= budget[q.account.key].limit
    BY <1>1, IssuedFromLocked, IssuedWithin
  <2>4. ~IsGrant(rows[r])
    <3>1. Kept(rows[r], g)
      BY <1>1, <1>2 DEF KeepsGrants, OwnRows
    <3> HIDE DEF g
    <3> QED
      BY <1>5, <3>1 DEF Kept, IsGrant
  <2> HIDE DEF h, a, g
  <2>5. /\ b \in Account /\ b.frozen = a.frozen
        /\ Committed(b) = Committed(a) + h.amount
    BY <2>1, <2>2, ItemsAssumption DEF Encumbered, Account, Committed, Row
  <2>6. Committed(a) \in Int /\ h.amount \in Nat
    BY <2>1, <2>2, ItemsAssumption DEF Account, Committed, Row
  <2> HIDE DEF b
  <2>7. /\ t \in Tx /\ t.locked = tx[d].locked /\ t.stage = "requests"
        /\ t.rows = [tx[d].rows EXCEPT ![r] = h]
        /\ t.accounts = [tx[d].accounts EXCEPT ![q.account] = b]
    BY <1>1, <2>1, <2>2, <2>5 DEF Tx
  <2> HIDE DEF t
  <2>8. tx'[d] = t
    BY <1>5 DEF TypeOK
  <2>9. \A x \in Requests : t.rows[x] = IF x = r THEN h ELSE tx[d].rows[x]
    BY <1>1, <2>7 DEF Tx
  <2>10. \A x \in AccountKeys :
           t.accounts[x] = IF x = q.account THEN b ELSE tx[d].accounts[x]
    BY <1>1, <2>7 DEF Tx
  <2>11. \A x \in AccountKeys : t.accounts[x].frozen = tx[d].accounts[x].frozen
    BY <2>5, <2>10 DEF a
  <2>12. KeepsGrants(d)'
    <3>1. Kept(rows[r], h)
      BY <2>4 DEF Kept, IsGrant
    <3> QED
      BY <1>1, <1>2, <2>8, <2>9, <3>1 DEF KeepsGrants, OwnRows
  <2>13. KeepsFrozen(d)'
    <3>1. \A x \in tx[d].locked : accounts[x].frozen => t.accounts[x].frozen
      BY <1>1, <1>2, <2>11 DEF KeepsFrozen, Tx
    <3>2. ASSUME NEW x \in OwnRows(d), t.rows[x] # NoRow, t.rows[x].overrun
          PROVE  IF t.rows[x].account \in tx[d].locked
                 THEN t.accounts[t.rows[x].account].frozen
                 ELSE accounts[t.rows[x].account].frozen
      <4>1. x \in Requests /\ x # r
        BY <2>2, <2>9, <3>2 DEF OwnRows
      <4>2. /\ t.rows[x] = tx[d].rows[x]
            /\ t.rows[x].account \in AccountKeys
        BY <1>1, <2>9, <3>2, <4>1 DEF Tx, Row
      <4> QED
        BY <1>2, <2>11, <3>2, <4>2 DEF KeepsFrozen
    <3> QED
      BY <1>1, <2>7, <2>8, <3>1, <3>2 DEF KeepsFrozen, OwnRows
  <2>14. IssuesCovered(d)'
    <3>1. ASSUME NEW x \in OwnRows(d), IsGrant(t.rows[x]), ~IsGrant(rows[x])
          PROVE  LET y == t.rows[x].account
                 IN  /\ y \in tx[d].locked /\ ~t.accounts[y].frozen
                     /\ budget[y.key] # NoBudget
                     /\ Committed(t.accounts[y]) <= budget[y.key].limit
      <4> DEFINE y == t.rows[x].account
      <4>1. x \in Requests /\ t.rows[x] \in Row
        BY <1>1, <2>2, <2>9, <3>1 DEF OwnRows, IsGrant, Tx
      <4>2. y \in AccountKeys
        BY <4>1 DEF Row
      <4>3. x # r => Covered(d, y)
        BY <1>2, <2>9, <3>1, <4>1 DEF IssuesCovered
      <4>4. x = r => y = q.account /\ h.amount # 0
        BY <2>2, <2>9, <3>1, <4>1 DEF IsGrant
      <4> HIDE DEF y
      <4>5. CASE y # q.account
        BY <2>10, <4>2, <4>3, <4>4, <4>5 DEF Covered, y
      <4>6. CASE y = q.account /\ h.amount # 0
        <5>1. t.accounts[y] = b
          BY <2>1, <2>10, <4>6
        <5> QED
          BY <2>3, <2>5, <4>6, <5>1 DEF y
      <4>7. CASE y = q.account /\ h.amount = 0
        <5>1. t.accounts[y] = b /\ tx[d].accounts[y] = a /\ Covered(d, y)
          BY <2>1, <2>10, <4>3, <4>4, <4>7 DEF a
        <5>2. Committed(b) = Committed(a)
          BY <2>5, <2>6, <4>7
        <5> QED
          BY <2>5, <5>1, <5>2 DEF Covered, y
      <4> QED
        BY <4>5, <4>6, <4>7
    <3> QED
      BY <1>1, <2>7, <2>8, <3>1 DEF IssuesCovered, Covered, OwnRows, IsGrant
  <2> QED
    BY <1>1, <1>5, <2>7, <2>12, <2>13, <2>14, OwnPromises
<1> QED
  BY <1>3, <1>4, <1>5

\* lockAccounts starts from the committed rows, and from frozen accounts frozen.
LEMMA LockPromises ==
  ASSUME TypeOK, PromisesInv, NEW d \in Dataplanes,
         NEW named \in SUBSET AccountKeys, LockAccounts(d, named)
  PROVE  PromisesInv'
<1> DEFINE locked == Current(tx[d].now) \cup named
           opened == [a \in AccountKeys |-> Opened(a, tx[d].now)]
           t == [tx[d] EXCEPT !.stage = "reports", !.locked = locked,
                              !.accounts = opened, !.rows = rows,
                              !.meters = meters]
<1>1. /\ tx[d] \in Tx /\ tx' = [tx EXCEPT ![d] = t]
      /\ UNCHANGED <<budget, window, accounts, rows, meters, latch>>
  BY DEF LockAccounts, TypeOK
<1>2. /\ opened \in [AccountKeys -> Account]
      /\ \A a \in AccountKeys : opened[a].frozen = accounts[a].frozen
  BY DEF Opened, TypeOK, Account
<1>3. locked \in SUBSET AccountKeys
  BY DEF Current
<1> HIDE DEF locked, opened
<1>4. /\ t \in Tx /\ t.locked = locked /\ t.accounts = opened
      /\ t.rows = rows
  BY <1>1, <1>2, <1>3 DEF Tx, TypeOK
<1> HIDE DEF t
<1>5. tx'[d] = t
  BY <1>1 DEF TypeOK
<1>6. KeepsGrants(d)'
  BY <1>1, <1>4, <1>5, KeptReflexive DEF KeepsGrants, OwnRows, TypeOK
<1>7. KeepsFrozen(d)'
  <2>1. ASSUME NEW x \in OwnRows(d), rows[x] # NoRow, rows[x].overrun
        PROVE  accounts[rows[x].account].frozen /\ rows[x].account \in AccountKeys
    BY <2>1 DEF PromisesInv, OverrunFreezes, OwnRows, TypeOK, Row
  <2> QED
    BY <1>1, <1>2, <1>3, <1>4, <1>5, <2>1 DEF KeepsFrozen, OwnRows
<1>8. IssuesCovered(d)'
  BY <1>1, <1>4, <1>5 DEF IssuesCovered, OwnRows
<1> QED
  BY <1>1, <1>4, <1>6, <1>7, <1>8, OwnPromises

\* What a commit publishes, and what it leaves alone.
LEMMA CommitFacts ==
  ASSUME TypeOK, BooksInv, PromisesInv, NEW d \in Dataplanes, Commit(d)
  PROVE  /\ tx[d] \in Tx /\ Working(d) /\ budget' = budget
         /\ KeepsGrants(d) /\ KeepsFrozen(d) /\ IssuesCovered(d)
         /\ tx'[d] = NoTx /\ \A e \in Dataplanes \ {d} : tx'[e] = tx[e]
         /\ \A a \in AccountKeys :
              accounts'[a] = IF a \in tx[d].locked THEN tx[d].accounts[a]
                                                   ELSE accounts[a]
         /\ \A r \in Requests :
              rows'[r] = IF r.owner = d THEN tx[d].rows[r] ELSE rows[r]
<1>1. tx[d] \in Tx /\ Working(d)
  BY DEF Commit, TypeOK, Working
<1>2. KeepsGrants(d) /\ KeepsFrozen(d) /\ IssuesCovered(d)
  BY <1>1 DEF PromisesInv
<1> QED
  BY <1>1, <1>2 DEF Commit, TypeOK

\* Publishing a working copy thaws no account: what was frozen stays frozen.
LEMMA CommitPromises ==
  ASSUME TypeOK, BooksInv, PromisesInv, NEW d \in Dataplanes, Commit(d)
  PROVE  PromisesInv'
<1>1. \A a \in AccountKeys : accounts[a].frozen => accounts'[a].frozen
  BY CommitFacts DEF KeepsFrozen
<1>2. OverrunFreezes'
  <2> SUFFICES ASSUME NEW r \in Requests, rows'[r] # NoRow, rows'[r].overrun
               PROVE  accounts'[rows'[r].account].frozen
    BY DEF OverrunFreezes
  <2>1. CASE r.owner = d
    <3>1. rows'[r] = tx[d].rows[r] /\ rows'[r].account \in AccountKeys
      BY <2>1, CommitFacts DEF Tx, Row
    <3>2. r \in OwnRows(d)
      BY <2>1 DEF OwnRows
    <3> QED
      BY <3>1, <3>2, CommitFacts DEF KeepsFrozen
  <2>2. CASE r.owner # d
    <3>1. rows'[r] = rows[r] /\ rows[r].account \in AccountKeys
      BY <2>2, CommitFacts DEF TypeOK, Row
    <3>2. accounts[rows[r].account].frozen
      BY <3>1 DEF PromisesInv, OverrunFreezes
    <3> QED
      BY <1>1, <3>1, <3>2
  <2> QED
    BY <2>1, <2>2
<1>3. ASSUME NEW e \in Dataplanes, Working(e)'
      PROVE  KeepsGrants(e)' /\ KeepsFrozen(e)' /\ IssuesCovered(e)'
  <2>1. e # d /\ tx'[e] = tx[e] /\ Working(e)
    BY <1>3, CommitFacts DEF Working
  <2>2. tx[e] \in Tx /\ tx[d].locked \cap tx[e].locked = {}
    BY <2>1, CommitFacts DEF BooksInv, Locking, Working, TypeOK
  <2>3. KeepsGrants(e) /\ KeepsFrozen(e) /\ IssuesCovered(e)
    BY <2>1 DEF PromisesInv
  <2>4. \A r \in OwnRows(e) : rows'[r] = rows[r]
    BY <2>1, CommitFacts DEF OwnRows
  <2>5. \A a \in tx[e].locked : accounts'[a] = accounts[a]
    BY <2>2, CommitFacts DEF Tx
  <2>6. KeepsGrants(e)'
    BY <2>1, <2>3, <2>4 DEF KeepsGrants, OwnRows
  <2>7. KeepsFrozen(e)'
    <3>1. ASSUME NEW x \in OwnRows(e), tx[e].rows[x] # NoRow
          PROVE  tx[e].rows[x].account \in AccountKeys
      BY <2>2, <3>1 DEF OwnRows, Tx, Row
    <3> QED
      BY <1>1, <2>1, <2>3, <2>5, <3>1 DEF KeepsFrozen, OwnRows
  <2>8. IssuesCovered(e)'
    BY <2>1, <2>3, <2>4, CommitFacts DEF IssuesCovered, Covered, OwnRows
  <2> QED
    BY <2>6, <2>7, <2>8
<1> QED
  BY <1>2, <1>3 DEF PromisesInv

\* A step that changes neither a table nor a working copy, nor the budgets
\* under a working copy, keeps the promises.
LEMMA QuietPromises ==
  ASSUME PromisesInv, accounts' = accounts, rows' = rows,
         \A e \in Dataplanes :
           Working(e)' => Working(e) /\ tx'[e] = tx[e] /\ budget' = budget
  PROVE  PromisesInv'
<1>1. OverrunFreezes'
  BY DEF PromisesInv, OverrunFreezes
<1>2. ASSUME NEW e \in Dataplanes, Working(e)'
      PROVE  KeepsGrants(e)' /\ KeepsFrozen(e)' /\ IssuesCovered(e)'
  <2>1. Working(e) /\ tx'[e] = tx[e] /\ budget' = budget
    BY <1>2
  <2>2. KeepsGrants(e) /\ KeepsFrozen(e) /\ IssuesCovered(e)
    BY <2>1 DEF PromisesInv
  <2> QED
    BY <2>1, <2>2 DEF KeepsGrants, KeepsFrozen, IssuesCovered, Covered
<1> QED
  BY <1>1, <1>2 DEF PromisesInv

\* PromisesInv is inductive, given the books.
LEMMA NextPromises ==
  TypeOK /\ BooksInv /\ PromisesInv /\ [Next]_vars => PromisesInv'
<1> SUFFICES ASSUME TypeOK, BooksInv, PromisesInv, [Next]_vars
             PROVE  PromisesInv'
  OBVIOUS
<1>1. ASSUME NEW d \in Dataplanes, NEW boot \in Boots, Begin(d, boot)
      PROVE  PromisesInv'
  <2>1. /\ tx'[d].stage = "locking"
        /\ \A e \in Dataplanes \ {d} : tx'[e] = tx[e]
        /\ UNCHANGED <<budget, accounts, rows>>
    BY <1>1 DEF Begin, TypeOK
  <2>2. \A e \in Dataplanes : Working(e)' => Working(e) /\ tx'[e] = tx[e]
    BY <2>1 DEF Working
  <2> QED
    BY <2>1, <2>2, QuietPromises
<1>2. ASSUME NEW d \in Dataplanes, Rollback(d) PROVE PromisesInv'
  <2>1. /\ tx'[d] = NoTx
        /\ \A e \in Dataplanes \ {d} : tx'[e] = tx[e]
        /\ UNCHANGED <<budget, accounts, rows>>
    BY <1>2 DEF Rollback, TypeOK
  <2>2. \A e \in Dataplanes : Working(e)' => Working(e) /\ tx'[e] = tx[e]
    BY <2>1 DEF Working
  <2> QED
    BY <2>1, <2>2, QuietPromises
<1>3. ASSUME NEW k \in Keys, NEW def \in Definitions \cup {NoBudget},
             EditPolicy(k, def)
      PROVE  PromisesInv'
  <2>1. \A e \in Dataplanes : ~Working(e)'
    BY <1>3 DEF EditPolicy, SharesPolicies, Working
  <2> QED
    BY <1>3, <2>1, QuietPromises DEF EditPolicy
<1>4. ASSUME UNCHANGED <<budget, accounts, rows, tx>> PROVE PromisesInv'
  <2>1. \A e \in Dataplanes : Working(e)' => Working(e)
    BY <1>4 DEF Working
  <2> QED
    BY <1>4, <2>1, QuietPromises
<1>5. ASSUME NEW k \in Keys, NextWindow(k) PROVE PromisesInv'
  BY <1>4, <1>5 DEF NextWindow
<1>6. CASE UNCHANGED vars
  BY <1>4, <1>6 DEF vars
<1> QED
  BY <1>1, <1>2, <1>3, <1>5, <1>6, ReportPromises, MeterPromises,
     IssuePromises, LockPromises, CommitPromises DEF Next

-----------------------------------------------------------------------------
(* the promises *)

\* The inductive invariant: every working copy keeps the grants, the freezes
\* and the limits of the tables that it will replace.
THEOREM LedgerPromises == Spec => []PromisesInv
<1>1. Init => PromisesInv
  BY DEF Init, PromisesInv, OverrunFreezes, Working
<1> QED
  BY <1>1, NextPromises, LedgerTypeCorrect, LedgerBooksInv, PTL DEF Spec

\* Only a commit writes a row, an account or a latch.
LEMMA OnlyCommits ==
  ASSUME Next, ~ \E d \in Dataplanes : Commit(d)
  PROVE  UNCHANGED <<accounts, rows, latch>>
<1>1. \A d \in Dataplanes, boot \in Boots :
        Begin(d, boot) => UNCHANGED <<accounts, rows, latch>>
  BY DEF Begin
<1>2. \A d \in Dataplanes, named \in SUBSET AccountKeys :
        LockAccounts(d, named) => UNCHANGED <<accounts, rows, latch>>
  BY DEF LockAccounts
<1>3. \A d \in Dataplanes, r \in Requests, report \in Report :
        ApplyReport(d, r, report) => UNCHANGED <<accounts, rows, latch>>
  BY DEF ApplyReport
<1>4. \A d \in Dataplanes, m \in MeterIds, report \in MeterReport :
        ApplyMeter(d, m, report) => UNCHANGED <<accounts, rows, latch>>
  BY DEF ApplyMeter
<1>5. \A d \in Dataplanes, r \in Requests, q \in Request :
        IssueGrant(d, r, q) => UNCHANGED <<accounts, rows, latch>>
  BY DEF IssueGrant
<1>6. \A d \in Dataplanes : Rollback(d) => UNCHANGED <<accounts, rows, latch>>
  BY DEF Rollback
<1>7. \A k \in Keys, def \in Definitions \cup {NoBudget} :
        EditPolicy(k, def) => UNCHANGED <<accounts, rows, latch>>
  BY DEF EditPolicy
<1>8. \A k \in Keys : NextWindow(k) => UNCHANGED <<accounts, rows, latch>>
  BY DEF NextWindow
<1> QED
  BY <1>1, <1>2, <1>3, <1>4, <1>5, <1>6, <1>7, <1>8 DEF Next

\* Whatever overlaps, is replayed, restored or reported late, an issued grant is
\* never changed or reissued, a closed one never reopens and no report lowers
\* what the authority knows (applyReport, issueGrant).
THEOREM LedgerGrantsAreFinal == Spec => GrantsAreFinal
<1>1. ASSUME TypeOK, BooksInv, PromisesInv, [Next]_vars
      PROVE  [\A r \in Requests : Kept(rows[r], rows'[r])]_vars
  <2>1. CASE rows' = rows
    BY <1>1, <2>1, KeptReflexive DEF TypeOK
  <2>2. ASSUME NEW d \in Dataplanes, Commit(d)
        PROVE  \A r \in Requests : Kept(rows[r], rows'[r])
    BY <1>1, <2>2, CommitFacts, KeptReflexive DEF KeepsGrants, OwnRows, TypeOK
  <2>3. CASE UNCHANGED vars
    BY <2>3
  <2> QED
    BY <1>1, <2>1, <2>2, <2>3, OnlyCommits
<1> QED
  BY <1>1, LedgerTypeCorrect, LedgerBooksInv, LedgerPromises, PTL
     DEF Spec, GrantsAreFinal

\* A batch that issues a grant commits to no more than the limit in force, with
\* its own reports and meters counted, on an account that is not frozen
\* (issueGrant under the SHARE lock on policies).
THEOREM LedgerIssueWithinLimit == Spec => IssueWithinLimit
<1>1. ASSUME TypeOK, BooksInv, PromisesInv, [Next]_vars
      PROVE  [WithinLimit]_vars
  <2>1. CASE rows' = rows
    BY <2>1 DEF WithinLimit, Issued
  <2>2. ASSUME NEW d \in Dataplanes, Commit(d) PROVE WithinLimit
    <3> SUFFICES ASSUME NEW r \in Requests, Issued(r)
                 PROVE  LET a == rows'[r].account
                        IN  /\ ~accounts'[a].frozen
                            /\ budget[a.key] # NoBudget
                            /\ Committed(accounts'[a]) <= budget[a.key].limit
      BY DEF WithinLimit
    <3>1. r.owner = d /\ rows'[r] = tx[d].rows[r]
      BY <1>1, <2>2, CommitFacts DEF Issued
    <3>2. IsGrant(tx[d].rows[r]) /\ ~IsGrant(rows[r])
      BY <1>1, <3>1, ItemsAssumption DEF Issued, IsGrant, TypeOK, Row
    <3>3. Covered(d, rows'[r].account)
      BY <1>1, <2>2, <3>1, <3>2, CommitFacts DEF IssuesCovered, OwnRows
    <3>4. accounts'[rows'[r].account] = tx[d].accounts[rows'[r].account]
      BY <1>1, <2>2, <3>3, CommitFacts DEF Covered, Tx
    <3> QED
      BY <3>3, <3>4 DEF Covered
  <2>3. CASE UNCHANGED vars
    BY <2>3
  <2> QED
    BY <1>1, <2>1, <2>2, <2>3, OnlyCommits
<1> QED
  BY <1>1, LedgerTypeCorrect, LedgerBooksInv, LedgerPromises, PTL
     DEF Spec, IssueWithinLimit

\* Division rounds down, and yet reaches every quotient it should.
LEMMA DivReaches ==
  ASSUME NEW x \in Nat, NEW n \in Nat, n > 0, NEW t \in Nat, x >= t * n
  PROVE  x \div n >= t /\ x \div n \in Int
  OBVIOUS

\* tier.UtilizedPercent reaches every threshold that the budget has reached,
\* although it divides and saturates.
LEMMA PercentReaches ==
  ASSUME NEW spent \in Nat, NEW outstanding \in Nat, NEW limit \in Nat,
         NEW t \in 1..100, 100 * (spent + outstanding) >= t * limit
  PROVE  t <= UtilizedPercent(spent, outstanding, limit)
<1>1. CASE limit = 0 \/ spent + outstanding >= limit
  BY <1>1 DEF UtilizedPercent
<1>2. CASE ~(limit = 0 \/ spent + outstanding >= limit)
  <2> DEFINE x == (spent + outstanding) * 100
  <2>1. x \in Nat /\ limit > 0 /\ t \in Nat /\ x >= t * limit
    BY <1>2
  <2> HIDE DEF x
  <2>2. x \div limit >= t /\ x \div limit \in Int
    BY <2>1, DivReaches
  <2> QED
    BY <1>2, <2>1, <2>2 DEF UtilizedPercent, x
<1> QED
  BY <1>1, <1>2

\* An overrun keeps its window frozen, and a routing tier that a commit has
\* reached stays latched, whatever is reported, refunded or edited afterwards
\* (applyReport, activeTiers).
THEOREM LedgerLatchesHold == Spec => LatchesHold
<1>1. ASSUME TypeOK, BooksInv, NEW d \in Dataplanes, Commit(d),
             NEW a \in AccountKeys
      PROVE  /\ latch[a] \subseteq latch'[a]
             /\ a \in Current(tx[d].now) /\ budget[a.key].hard =>
                  \A t \in Ladder :
                    100 * Committed(accounts'[a]) >= t * budget[a.key].limit
                      => t \in latch'[a]
  <2>1. /\ tx[d] \in Tx /\ Working(d) /\ latch'[a] = Latched(d, a)
        /\ accounts'[a] = IF a \in tx[d].locked THEN tx[d].accounts[a]
                                                ELSE accounts[a]
    BY <1>1 DEF Commit, TypeOK, Working
  <2>2. latch[a] \subseteq latch'[a]
    BY <2>1 DEF Latched
  <2>3. ASSUME a \in Current(tx[d].now), budget[a.key].hard, NEW t \in Ladder,
               100 * Committed(accounts'[a]) >= t * budget[a.key].limit
        PROVE  t \in latch'[a]
    <3>1. accounts'[a] = tx[d].accounts[a] /\ accounts'[a] \in Account
      BY <1>1, <2>1, <2>3, WorkingFacts DEF Tx
    <3>2. budget[a.key] \in Definition /\ t \in 1..100
      BY <1>1, <2>3, LedgerAssumption DEF Current, TypeOK, AccountKeys
    <3>3. /\ accounts'[a].enc \in Nat /\ accounts'[a].soft \in Nat
          /\ budget[a.key].limit \in Nat
      BY <3>1, <3>2, ItemsAssumption DEF Account, Definition
    <3>4. t <= UtilizedPercent(accounts'[a].enc, accounts'[a].soft,
                               budget[a.key].limit)
      BY <2>3, <3>2, <3>3, PercentReaches DEF Committed
    <3> QED
      BY <2>1, <2>3, <3>1, <3>4 DEF Latched
  <2> QED
    BY <2>2, <2>3
<1>2. ASSUME TypeOK, BooksInv, PromisesInv, PromisesInv', [Next]_vars
      PROVE  [OverrunFreezes' /\ TiersLatch]_vars
  <2>1. OverrunFreezes'
    BY <1>2 DEF PromisesInv
  <2>2. TiersLatch
    BY <1>1, <1>2 DEF TiersLatch
  <2> QED
    BY <2>1, <2>2
<1> QED
  BY <1>2, LedgerTypeCorrect, LedgerBooksInv, LedgerPromises, PTL
     DEF Spec, LatchesHold
=============================================================================
