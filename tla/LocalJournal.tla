---------------------------- MODULE LocalJournal ----------------------------
(***************************************************************************)
(* The data plane's escrow journal (internal/authority/local): one durable  *)
(* snapshot that every operation reads and replaces in one transaction.     *)
(* Each operator below maps a journal to the journal that the operation     *)
(* commits; Escrow makes them the steps of running gateways.                *)
(*                                                                          *)
(* Deadlines are kept in memory only, and a deadline is only ever compared  *)
(* with now: "live" holds the grants, and "windows" the budgets, whose      *)
(* deadline has not passed yet.  Every budget applies to every request      *)
(* (matches is data).  A settled permit is dropped: what collect keeps of   *)
(* it serves retries of Finish, which change nothing.                       *)
(***************************************************************************)
EXTENDS AuthorityItems, FiniteSets, TLC, SequencesExt

CONSTANTS
  Keys,       \* budget keys
  NoBudget    \* a key without a budget

NoGrants == [g \in {} |-> 0]

EmptyJournal(boot) ==
  [boot |-> boot, ready |-> FALSE, poisoned |-> FALSE,
   clock |-> -1,                                \* window of ServerTime
   budgets |-> [k \in Keys |-> NoBudget],       \* [def, win] per key
   windows |-> {}, live |-> {},
   grants |-> NoGrants, requests |-> NoGrants, permits |-> NoGrants,
   meters |-> NoGrants, receipts |-> {}]

Without(f, S) == [x \in DOMAIN f \ S |-> f[x]]

\* The budget a request was made for, and the one its key has now.
SameDefinition(j, r) ==
  j.budgets[r.key] # NoBudget /\ j.budgets[r.key] = [def |-> r.def, win |-> r.win]

-----------------------------------------------------------------------------
(* gc.go *)

Referenced(j) == UNION {j.permits[p].grants : p \in DOMAIN j.permits}

Metering(j) == UNION {j.permits[p].meters : p \in DOMAIN j.permits}

\* Mutant of FinalGrants: a closed grant is dropped before it is acknowledged.
FinalGrantsUnacked(j) ==
  {id \in DOMAIN j.grants :
     /\ j.grants[id].closed /\ j.grants[id].pending = 0
     /\ id \notin Referenced(j)}

FinalGrants(j) ==
  {id \in DOMAIN j.grants :
     LET g == j.grants[id]
     IN  /\ g.closed /\ g.pending = 0 /\ g.reserved = 0 /\ g.ack = g.seq
         /\ id \notin Referenced(j)}

FinalMeters(j) ==
  {id \in DOMAIN j.meters :
     /\ id.boot # j.boot \/ j.clock > id.win
     /\ id \notin Metering(j)
     /\ j.meters[id].ack = j.meters[id].seq}

UselessRequests(j) ==
  {id \in DOMAIN j.requests :
     LET r == j.requests[id]
     IN  /\ r.obsolete /\ ~r.granted
         /\ ~r.sent \/ (r.denied /\ ~r.waiting) \/ j.clock > r.win}

\* collect, at the end of every transaction; pruneDeadlines after it.
Collect(j) ==
  LET final == FinalGrants(j)
      over  == FinalMeters(j)
      kept  == Without(j.grants, final)
  IN  [j EXCEPT
         !.grants   = kept,
         !.live     = {id \in @ : id \in DOMAIN kept /\ ~kept[id].closed},
         !.receipts = @ \cup {[id |-> id, seq |-> j.grants[id].seq] : id \in final}
                        \cup {[id |-> id, seq |-> j.meters[id].seq] : id \in over},
         !.requests = Without(@, final \cup UselessRequests(j)),
         !.meters   = Without(@, over)]

-----------------------------------------------------------------------------
(* admission.go *)

Available(g) == g.amount - g.consumed - g.reserved

Usable(j, id, k) ==
  LET g == j.grants[id]
  IN  /\ id.boot = j.boot /\ ~g.closed /\ ~g.overrun
      /\ g.key = k /\ j.budgets[k] = [def |-> g.def, win |-> g.win]
      /\ g.consumed <= g.amount /\ Available(g) >= 0
      /\ id \in j.live

\* closeGrant on a set of idle grants.
CloseGrants(j, S) ==
  [j EXCEPT !.grants = [id \in DOMAIN @ |->
     IF id \in S /\ ~@[id].closed
     THEN [@[id] EXCEPT !.closed = TRUE, !.seq = @ + 1] ELSE @[id]]]

Idle(j, id) == ~j.grants[id].closed /\ j.grants[id].pending = 0

CloseInactive(j) ==
  CloseGrants(j, {id \in DOMAIN j.grants :
    /\ Idle(j, id)
    /\ LET k == j.grants[id].key
       IN  \/ j.budgets[k] = NoBudget
           \/ ~j.budgets[k].def.hard
           \/ ~Usable(j, id, k)})

HardKeys(j) == {k \in Keys : j.budgets[k] # NoBudget /\ j.budgets[k].def.hard}

SoftKeys(j) == {k \in Keys : j.budgets[k] # NoBudget /\ ~j.budgets[k].def.hard}

Sufficient(j, k, bound) ==
  {id \in DOMAIN j.grants : /\ Usable(j, id, k)
                            /\ Available(j.grants[id]) > 0
                            /\ Available(j.grants[id]) >= bound}

\* Usable grants that the scan passes over, and closes if they are idle.
TooSmall(j, k, bound) ==
  {id \in DOMAIN j.grants : /\ Usable(j, id, k) /\ Idle(j, id)
                            /\ id \notin Sufficient(j, k, bound)}

Want(bound) == IF bound > 0 THEN bound ELSE 1

\* The open requests of queue's scan, and the ones that end it.
Queued(j, k) ==
  {id \in DOMAIN j.requests :
     LET r == j.requests[id]
     IN  /\ id.boot = j.boot /\ ~r.obsolete /\ ~r.granted
         /\ r.key = k /\ SameDefinition(j, r)}

Answering(j, k, bound) ==
  {id \in Queued(j, k) :
     j.requests[id].want >= Want(bound) \/ ~j.requests[id].sent}

NewRequest(j, k, bound) ==
  [key |-> k, def |-> j.budgets[k].def, win |-> j.budgets[k].win,
   want |-> Want(bound), sent |-> FALSE, waiting |-> FALSE, granted |-> FALSE,
   denied |-> FALSE, obsolete |-> FALSE]

\* queue: id is the request that ends the scan, or a fresh capability.
QueueRequest(j, k, bound, id) ==
  IF id \in DOMAIN j.requests
  THEN [j EXCEPT !.requests[id].want = Larger(@, Want(bound))]
  ELSE [j EXCEPT !.requests = (id :> NewRequest(j, k, bound)) @@ @]

\* The reservation itself: one grant of every hard budget, a meter of every
\* soft one.
Book(j, p, bound, chosen) ==
  LET mids == {[boot |-> j.boot, key |-> k, win |-> j.budgets[k].win] :
                 k \in SoftKeys(j)}
      new  == mids \ DOMAIN j.meters
  IN  [j EXCEPT
         !.grants = [id \in DOMAIN @ |->
            IF id \in chosen
            THEN [@[id] EXCEPT !.reserved = @ + bound, !.pending = @ + 1]
            ELSE @[id]],
         !.meters = [m \in new |-> [seq |-> 1, consumed |-> 0, observed |-> 0,
                                    ack |-> 0, sent |-> 0]] @@ @,
         !.permits = (p :> [bound |-> bound, grants |-> chosen,
                            meters |-> mids, retired |-> FALSE]) @@ @]

\* An outcome is [actual, known, complete, invalid]; InvalidUsage is never
\* complete.
Complete(o) == o.complete /\ ~o.invalid

Consumed(bound, o) ==
  IF o.known /\ (Complete(o) \/ o.actual > bound) THEN o.actual ELSE bound

Observed(o) == IF o.known THEN o.actual ELSE 0

Overruns(bound, o) == o.invalid \/ Observed(o) > bound

Overflows(j, p, o) ==
  LET per == j.permits[p]
      big(c) == ~Fits(c.consumed + Consumed(per.bound, o))
                  \/ ~Fits(c.observed + Observed(o))
  IN  \/ \E id \in per.grants : big(j.grants[id])
      \/ \E id \in per.meters : big(j.meters[id])

\* Finish: the outcome of a permit of this boot.
Settle(j, p, o) ==
  LET per      == j.permits[p]
      consumed == Consumed(per.bound, o)
      observed == Observed(o)
      over     == Overruns(per.bound, o)
  IN  [j EXCEPT
         !.grants = [id \in DOMAIN @ |->
            IF id \in per.grants
            THEN [@[id] EXCEPT
                    !.consumed = @ + consumed, !.observed = @ + observed,
                    !.reserved = @ - per.bound, !.pending = @ - 1,
                    !.seq = @ + 1,
                    !.overrun = @ \/ over,
                    !.closed = @ \/ (/\ j.grants[id].overrun \/ over
                                     /\ j.grants[id].pending = 1)]
            ELSE @[id]],
         !.meters = [id \in DOMAIN @ |->
            IF id \in per.meters
            THEN [@[id] EXCEPT !.consumed = @ + consumed,
                               !.observed = @ + observed, !.seq = @ + 1]
            ELSE @[id]],
         !.permits = Without(@, {p}),
         !.poisoned = @ \/ over]

\* Finish, when a cumulative value would overflow: the permit stays booked.
Poison(j, p, o) ==
  [j EXCEPT
     !.poisoned = TRUE,
     !.permits[p].retired = TRUE,
     !.grants = [id \in DOMAIN @ |->
        IF id \in j.permits[p].grants /\ o.invalid
        THEN [@[id] EXCEPT !.overrun = TRUE] ELSE @[id]]]

-----------------------------------------------------------------------------
(* sync.go: Request *)

ToSend(j) ==
  {id \in DOMAIN j.requests :
     LET r == j.requests[id]
     IN  id.boot = j.boot /\ ~r.obsolete /\ ~r.granted /\ SameDefinition(j, r)}

\* Mutant of ToReport: a report is sent once and not again.
ToReportOnce(j) ==
  {id \in DOMAIN j.grants :
     LET g == j.grants[id]
     IN  g.sent # g.seq /\ (g.closed \/ ~g.overrun)}

ToReport(j) ==
  {id \in DOMAIN j.grants :
     LET g == j.grants[id]
     IN  g.ack # g.seq /\ (g.closed \/ ~g.overrun)}

ToMeter(j) == {id \in DOMAIN j.meters : j.meters[id].ack # j.meters[id].seq}

\* The batch, and the journal that remembers what was sent.
Batch(j) ==
  [boot |-> j.boot,
   requests |-> [id \in ToSend(j) |->
      [key |-> j.requests[id].key, win |-> j.requests[id].win,
       def |-> j.requests[id].def, want |-> j.requests[id].want]],
   reports |-> [id \in ToReport(j) |->
      [seq |-> j.grants[id].seq, consumed |-> j.grants[id].consumed,
       observed |-> j.grants[id].observed, closed |-> j.grants[id].closed,
       overrun |-> j.grants[id].overrun]],
   meters |-> [id \in ToMeter(j) |->
      [seq |-> j.meters[id].seq, consumed |-> j.meters[id].consumed,
       observed |-> j.meters[id].observed]]]

\* Mutant of Sending: the checkpoints that were sent are not remembered.
SendingForgets(j) ==
  [j EXCEPT
     !.requests = [id \in DOMAIN @ |->
        IF id \in ToSend(j)
        THEN [@[id] EXCEPT !.sent = TRUE, !.waiting = TRUE] ELSE @[id]]]

Sending(j) ==
  [j EXCEPT
     !.requests = [id \in DOMAIN @ |->
        IF id \in ToSend(j)
        THEN [@[id] EXCEPT !.sent = TRUE, !.waiting = TRUE] ELSE @[id]],
     !.grants = [id \in DOMAIN @ |->
        IF id \in ToReport(j) THEN [@[id] EXCEPT !.sent = j.grants[id].seq]
                              ELSE @[id]],
     !.meters = [id \in DOMAIN @ |->
        IF id \in ToMeter(j) THEN [@[id] EXCEPT !.sent = j.meters[id].seq]
                             ELSE @[id]]]

-----------------------------------------------------------------------------
(* sync.go: Apply.  m is the response; order compares its server time with   *)
(* the journal's: "stale", "same" or "newer".                                *)

Installed(j, m, order) ==
  IF order # "newer" THEN j
  ELSE [j EXCEPT !.budgets = m.budgets, !.clock = m.clock, !.ready = TRUE,
                 !.windows = {k \in Keys : m.budgets[k] # NoBudget}]

NewGrants(j, m) ==
  {id \in DOMAIN m.grants : /\ id \notin DOMAIN j.grants
                            /\ \A t \in j.receipts : t.id # id}

\* A grant of an earlier boot is burned; one that is stale, obsolete, no
\* longer defined or expired on arrival is closed unused; the others become
\* spendable.
Arrival(j, id, amount, order, expired) ==
  LET r    == j.requests[id]
      burn == id.boot # j.boot
      dead == \/ order = "stale" \/ r.obsolete \/ ~SameDefinition(j, r)
              \/ id \in expired
  IN  [key |-> r.key, def |-> r.def, win |-> r.win, amount |-> amount,
       consumed |-> IF burn THEN amount ELSE 0, observed |-> 0,
       reserved |-> 0, pending |-> 0, closed |-> burn \/ dead,
       overrun |-> FALSE, seq |-> 1, ack |-> 0, sent |-> 0]

TakeGrants(j, m, order, expired) ==
  LET new == NewGrants(j, m)
      got == [id \in new |-> Arrival(j, id, m.grants[id], order, expired)]
  IN  [j EXCEPT
         !.grants = got @@ @,
         !.live = @ \cup {id \in new : ~got[id].closed},
         !.requests = [id \in DOMAIN @ |->
            IF id \in new
            THEN [@[id] EXCEPT !.granted = TRUE, !.denied = FALSE,
                               !.waiting = FALSE]
            ELSE IF id \in m.denied /\ ~@[id].granted /\ order # "stale"
            THEN [@[id] EXCEPT !.denied = TRUE, !.waiting = FALSE]
            ELSE @[id]]]

TakeAcks(j, m) ==
  [j EXCEPT
     !.grants = [id \in DOMAIN @ |->
        IF id \in DOMAIN m.reportAcks
        THEN [@[id] EXCEPT !.ack = Larger(@, m.reportAcks[id])] ELSE @[id]],
     !.meters = [id \in DOMAIN @ |->
        IF id \in DOMAIN m.meterAcks
        THEN [@[id] EXCEPT !.ack = Larger(@, m.meterAcks[id])] ELSE @[id]],
     !.requests = [id \in DOMAIN @ |->
        [@[id] EXCEPT !.obsolete = @ \/ ~SameDefinition(j, j.requests[id])]]]

\* Apply rejects a response that it cannot have asked for.
Applicable(j, m, order) ==
  /\ order = "same" => j.budgets = m.budgets
  /\ \A id \in NewGrants(j, m) :
       /\ id \in DOMAIN j.requests
       /\ LET r == j.requests[id]
          IN  /\ r.sent /\ r.def.hard /\ ~r.granted
              /\ m.grants[id] >= r.want
              /\ m.grants[id] <= Larger(r.def.grant, r.want)
              /\ m.grants[id] <= r.def.limit
  /\ \A id \in m.denied :
       id \in DOMAIN j.requests /\ j.requests[id].sent
  /\ \A id \in DOMAIN m.reportAcks :
       IF id \in DOMAIN j.grants THEN m.reportAcks[id] <= j.grants[id].sent
       ELSE \E t \in j.receipts : t.id = id /\ m.reportAcks[id] <= t.seq
  /\ \A id \in DOMAIN m.meterAcks :
       IF \E t \in j.receipts : t.id = id
       THEN \E t \in j.receipts : t.id = id /\ m.meterAcks[id] <= t.seq
       ELSE id \in DOMAIN j.meters /\ m.meterAcks[id] <= j.meters[id].sent

\* Apply's final pass: idle grants of a budget that is gone, changed or past.
Applied(j, m, order, expired) ==
  LET t == TakeAcks(TakeGrants(Installed(j, m, order), m, order, expired), m)
  IN  CloseGrants(t, {id \in DOMAIN t.grants :
        /\ Idle(t, id)
        /\ LET g == t.grants[id]
           IN  \/ t.budgets[g.key] # [def |-> g.def, win |-> g.win]
               \/ ~g.def.hard
               \/ id \notin t.live})

-----------------------------------------------------------------------------
(* store.go: initialize.  A new boot fences the file and recovers no credit. *)

\* Mutant of Retired: a grant that looks unused is closed and not burned.
RetiredRefundsIdle(j) ==
  [j EXCEPT
     !.permits = NoGrants,
     !.grants = [id \in DOMAIN @ |->
        [@[id] EXCEPT
           !.consumed = IF j.grants[id].pending > 0 \/ @ > 0
                        THEN Larger(@, j.grants[id].amount) ELSE 0,
           !.closed = TRUE, !.reserved = 0, !.pending = 0, !.seq = @ + 1]],
     !.requests = [id \in DOMAIN @ |-> [@[id] EXCEPT !.obsolete = TRUE]]]

\* retire
Retired(j) ==
  LET owed(m) == {p \in DOMAIN j.permits : m \in j.permits[p].meters}
      bounds(S) == FoldSet(LAMBDA p, n : n + j.permits[p].bound, 0, S)
  IN  [j EXCEPT
         !.meters = [m \in DOMAIN @ |->
            [@[m] EXCEPT !.consumed = @ + bounds(owed(m)),
                         !.seq = @ + Cardinality(owed(m))]],
         !.permits = NoGrants,
         !.grants = [id \in DOMAIN @ |->
            [@[id] EXCEPT !.consumed = Larger(@, j.grants[id].amount),
                          !.closed = TRUE, !.reserved = 0, !.pending = 0,
                          !.seq = @ + 1]],
         !.requests = [id \in DOMAIN @ |-> [@[id] EXCEPT !.obsolete = TRUE]]]

Opened(j, boot) ==
  Collect([Retired(j) EXCEPT
             !.boot = boot, !.ready = FALSE, !.clock = -1,
             !.budgets = [k \in Keys |-> NoBudget],
             !.windows = {}, !.live = {}])
=============================================================================
