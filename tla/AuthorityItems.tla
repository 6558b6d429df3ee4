--------------------------- MODULE AuthorityItems ---------------------------
(***************************************************************************)
(* The rules by which the authority database (internal/authority/pgstore)   *)
(* judges one item of a Sync batch against the row and the account it names *)
(* with every lock already held: a cumulative grant report, a cumulative    *)
(* soft meter, a grant request.  No state: AuthorityLedger runs the rules   *)
(* inside concurrent transactions, Escrow runs them against real nodes.     *)
(*                                                                          *)
(* A budget's revision is a hash of its definition, so the definition       *)
(* itself stands for it: editing a budget back restores its old revision.   *)
(***************************************************************************)
EXTENDS Integers

CONSTANTS
  MaxInt,   \* the largest accounting amount, math.MaxInt64 in the code
  MaxSeq    \* the largest checkpoint sequence, math.MaxInt64 in the code

ASSUME ItemsAssumption == MaxInt \in Nat \ {0} /\ MaxSeq \in Nat \ {0}

Money == 0..MaxInt

Larger(m, n) == IF m >= n THEN m ELSE n

Smaller(m, n) == IF m <= n THEN m ELSE n

\* AuthorityBudget: what a policy says of one budget.
Definition == [limit : Money, grant : Money \ {0}, hard : BOOLEAN]

\* authority_accounts: one row per budget key and calendar window.
Account == [enc : Money, cons : Money, soft : Money, meters : BOOLEAN,
            frozen : BOOLEAN]

EmptyAccount == [enc |-> 0, cons |-> 0, soft |-> 0, meters |-> FALSE,
                 frozen |-> FALSE]

\* AuthorityReport, as validateRequest lets it through.
Report ==
  {r \in [seq : 1..MaxSeq, consumed : Money, observed : Money,
          closed : BOOLEAN, overrun : BOOLEAN] :
     /\ r.overrun => r.closed
     /\ r.overrun \/ r.observed <= r.consumed}

\* Mutant of Fits: sums are not checked.
FitsAlways(n) == TRUE

\* checkedAdd
Fits(n) == n <= MaxInt

-----------------------------------------------------------------------------
(* applyReport: g is the grant's row, r the report, old says that the report *)
(* comes from an earlier boot than the one that is syncing.                  *)

Spent(g) == Larger(g.consumed, g.observed)

\* A restored journal's terminal copy of a grant the database already closed.
ClosedEcho(g, r, old) ==
  /\ g.closed /\ r.closed /\ old /\ ~r.overrun
  /\ r.consumed \in {g.amount, g.consumed}
  /\ r.observed <= Spent(g)

\* A restored journal's full burn of a grant that is still open here.
RecoveryBurn(g, r, old) ==
  ~g.closed /\ r.closed /\ old /\ ~r.overrun /\ r.consumed = g.amount

\* Mutant of Checkpoint: a burn is stored as it was sent.
CheckpointAsSent(g, r, old) == r

\* The report as it is compared and stored: a burn keeps the newer checkpoint.
Checkpoint(g, r, old) ==
  IF RecoveryBurn(g, r, old)
  THEN [r EXCEPT !.seq = Larger(@, g.seq), !.observed = Larger(@, g.observed)]
  ELSE r

Same(g, c) ==
  /\ c.consumed = g.consumed /\ c.observed = g.observed
  /\ c.closed = g.closed /\ c.overrun = g.overrun

\* A replay of the newest checkpoint changes nothing.
Replayed(g, c, burn) == c.seq = g.seq /\ ~burn

\* What the grant encumbered before the closing report, and what it keeps.
Previous(g) ==
  IF ~g.closed THEN g.amount
  ELSE IF g.overrun THEN Larger(Spent(g), g.amount) ELSE Spent(g)

\* Mutant of Retained: what a call of unknown cost may have spent is refunded.
RetainedObserved(g, c) == IF c.overrun THEN Larger(Spent(c), g.amount) ELSE c.observed

Retained(g, c) == IF c.overrun THEN Larger(Spent(c), g.amount) ELSE Spent(c)

\* The account's encumbrance after a closing report.
Settled(a, g, c) == a.enc - Previous(g) + Retained(g, c)

ReportAccepted(a, g, r, old) ==
  LET burn == RecoveryBurn(g, r, old)
      c    == Checkpoint(g, r, old)
  IN  \/ ClosedEcho(g, r, old)
      \/ /\ burn \/ c.seq > g.seq \/ (c.seq = g.seq /\ Same(g, c))
         /\ c.consumed >= g.consumed /\ c.observed >= g.observed
         /\ g.closed => Same(g, c) \/ (c.closed /\ c.overrun)
         /\ c.overrun \/ c.consumed <= g.amount
         /\ \/ Replayed(g, c, burn)
            \/ /\ Fits(a.cons + Spent(c) - Spent(g))
               /\ c.closed =>
                    /\ g.closed => Retained(g, c) >= Previous(g)
                    /\ Previous(g) - Retained(g, c) <= a.enc
                    /\ Fits(Settled(a, g, c))

ReportedGrant(g, r, old) ==
  LET c == Checkpoint(g, r, old)
  IN  IF ClosedEcho(g, r, old)
      THEN [g EXCEPT !.seq = Larger(@, r.seq),
                     !.observed = Larger(@, r.observed)]
      ELSE IF Replayed(g, c, RecoveryBurn(g, r, old)) THEN g
      ELSE [g EXCEPT !.seq = c.seq, !.consumed = c.consumed,
                     !.observed = c.observed, !.closed = c.closed,
                     !.overrun = c.overrun]

ReportedAccount(a, g, r, old) ==
  LET c == Checkpoint(g, r, old)
  IN  IF ClosedEcho(g, r, old) \/ Replayed(g, c, RecoveryBurn(g, r, old))
      THEN a
      ELSE [a EXCEPT !.cons = @ + Spent(c) - Spent(g),
                     !.enc = IF c.closed THEN Settled(a, g, c) ELSE @,
                     !.frozen = @ \/ (c.closed /\ c.overrun)]

-----------------------------------------------------------------------------
(* applyMeter *)

Meter == [seq : 0..MaxSeq, consumed : Money, observed : Money]

\* AuthorityMeter, as validateRequest lets it through.
MeterReport == {m \in Meter : m.seq > 0 /\ m.observed <= m.consumed}

NoMeter == [seq |-> 0, consumed |-> 0, observed |-> 0]

\* A meter of an earlier boot is reconciled, field by field.
MergedMeter(m, r, old) ==
  IF old THEN [seq      |-> Larger(r.seq, m.seq),
               consumed |-> Larger(r.consumed, m.consumed),
               observed |-> Larger(r.observed, m.observed)]
         ELSE r

MeterAccepted(a, m, r, old) ==
  LET c == MergedMeter(m, r, old)
  IN  /\ a.meters
      /\ \/ old
         \/ c = m
         \/ c.seq > m.seq /\ c.consumed >= m.consumed /\ c.observed >= m.observed
      /\ Fits(a.soft + c.consumed - m.consumed)

MeteredAccount(a, m, r, old) ==
  [a EXCEPT !.soft = @ + MergedMeter(m, r, old).consumed - m.consumed]

-----------------------------------------------------------------------------
(* issueGrant: b is the budget in force and win its window, a its account,   *)
(* q a request [win, def, want].                                             *)

Committed(a) == a.enc + a.soft

Exhausted(b, a, want) ==
  Committed(a) >= b.limit \/ b.limit - Committed(a) < want

\* Mutant of Grantable: a frozen window still issues.
GrantableThoughFrozen(b, win, a, q) ==
  b = q.def /\ win = q.win /\ q.def.hard /\ ~Exhausted(q.def, a, q.want)

\* Every other request is denied: unknown_budget, stale_budget, soft_budget,
\* frozen_window or exhausted.
Grantable(b, win, a, q) ==
  /\ b = q.def /\ win = q.win
  /\ q.def.hard
  /\ ~a.frozen
  /\ ~Exhausted(q.def, a, q.want)

GrantAmount(b, a, want) ==
  Smaller(Larger(b.grant, want), b.limit - Committed(a))

Encumbered(a, amount) == [a EXCEPT !.enc = @ + amount]
=============================================================================
