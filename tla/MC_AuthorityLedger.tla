------------------------- MODULE MC_AuthorityLedger -------------------------
(***************************************************************************)
(* Four instances of AuthorityLedger for TLC, as scenes of one run: two     *)
(* data planes with a grant each; one data plane that reports its grant    *)
(* from several boots with several checkpoints; one that also meters while *)
(* the operator edits the budget; and one that reports and meters while    *)
(* the calendar turns.                                                     *)
(***************************************************************************)
EXTENDS AuthorityLedger, TLC

CONSTANTS d1, d2, b1, b2, budget1

VARIABLE scene

MCRequests == {[owner |-> d, boot |-> b1, id |-> 1] : d \in {d1, d2}}

MCMeterIds == {[owner |-> d, boot |-> b1, account |-> [key |-> budget1, win |-> 0]] : d \in {d1, d2}}

Swapped == Permutations({d1, d2})

Hard(limit) == [limit |-> limit, grant |-> 1, hard |-> TRUE]

\* The operator lowers the limit, or makes the budget soft.
Softened == [Hard(2) EXCEPT !.hard = FALSE]
MCMixed == {Hard(1), Hard(2), Softened}

-----------------------------------------------------------------------------
\* What each scene leaves out: the second data plane, meters, later
\* checkpoints, a second boot, the calendar or the operator.
Alone == tx[d2] = NoTx

OneBoot == \A d \in {d1, d2} : tx[d] # NoTx => tx[d].boot = b1

Unmetered == \A d \in {d1, d2} : tx[d] # NoTx => tx[d].meters = [m \in MeterIds |-> NoMeter]

Checkpoints(n) ==
  \A d \in {d1, d2} : tx[d] # NoTx =>
    /\ \A r \in Requests : tx[d].rows[r] # NoRow => tx[d].rows[r].seq <= n
    /\ \A m \in MeterIds : tx[d].meters[m].seq <= n

OneWindow ==
  /\ window[budget1] = 0
  /\ \A d \in {d1, d2} : tx[d] # NoTx =>
       /\ \A a \in tx[d].locked : a.win = 0
       /\ \A r \in Requests : tx[d].rows[r] # NoRow => tx[d].rows[r].account.win = 0

Unedited(definitions) ==
  /\ budget[budget1] \in definitions
  /\ \A d \in {d1, d2} : tx[d] # NoTx =>
       \A r \in Requests : tx[d].rows[r] # NoRow => tx[d].rows[r].def \in definitions

InScene ==
  CASE scene = "grants" -> OneBoot /\ Unmetered /\ OneWindow /\ Unedited({Hard(2), NoBudget}) /\ Checkpoints(1)
    [] scene = "reports" -> Alone /\ Unmetered /\ OneWindow /\ Unedited({Hard(2), NoBudget})
    [] scene = "edits" -> Alone /\ OneBoot /\ OneWindow /\ Checkpoints(1)
    [] scene = "calendar" -> Alone /\ OneBoot /\ Unedited({Hard(2), Softened}) /\ Checkpoints(1)

MCInit == scene \in {"grants", "reports", "edits", "calendar"} /\ Init /\ InScene

MCNext == UNCHANGED scene /\ Next /\ InScene'
=============================================================================
