------------------------------- MODULE Escrow -------------------------------
(***************************************************************************)
(* Durable budget authority end to end: gateways that admit requests from   *)
(* their escrow journals (LocalJournal), the sync loop that carries reports *)
(* and grants (internal/proxy), and the authority database (AuthorityItems; *)
(* AuthorityLedger shows that its transactions are as good as atomic).      *)
(*                                                                          *)
(* The network loses requests and replies and delivers abandoned requests   *)
(* late.  A gateway crashes and reopens its journal, or is given a backup   *)
(* of it, or loses it; a backup may also be opened beside the original.     *)
(* Deadlines pass at any moment.  The upstream provider bills a call at     *)
(* most its bound, unless the call is reported as an overrun.               *)
(***************************************************************************)
EXTENDS LocalJournal

CONSTANTS
  Files,         \* journal files of one data plane
  NoFile,        \* a file that does not exist
  Definitions,   \* the budget definitions an operator may write
  LastWindow,    \* calendar windows are 0..LastWindow
  Bounds,        \* the upper bounds of a request's cost
  Outcomes,      \* what a call may report: [actual, known, complete, invalid]
  MaxBoots,      \* bound: how often a journal is opened
  MaxMinted,     \* bound: how many grant requests are made up
  MaxPermits,    \* bound: how many calls are admitted
  MaxLate,       \* bound: abandoned requests in the network at one time
  MaxBackups     \* bound: whether a backup is ever taken (0 or 1)

VARIABLES
  file,      \* the journal of each file and the memory of its gateway
  link,      \* the exchange in progress of each gateway's sync loop
  late,      \* requests whose sender gave up, still on their way
  backup,    \* an earlier copy of a journal
  boots,     \* journal instances opened so far
  minted,    \* request capabilities made up so far
  bill,      \* upstream: per permit, its grants and what it may cost at most
  budget,    \* policies: the definition in force of each key
  window,    \* the current window
  db         \* the authority's rows, accounts and meters

vars == <<file, link, late, backup, boots, minted, bill, budget, window, db>>

gateways == <<file, link, late, backup, boots, minted, bill>>

AccountKeys == [key : Keys, win : 0..LastWindow]

Quiet == [kind |-> "idle"]

Init ==
  /\ file \in {[f \in Files |-> IF f = one THEN EmptyJournal(1) ELSE NoFile] :
                 one \in Files}
  /\ link = [f \in Files |-> Quiet]
  /\ late = {} /\ backup = NoFile /\ boots = 1 /\ minted = 0
  /\ bill = NoGrants
  /\ budget \in [Keys -> Definitions]
  /\ window = 0
  /\ db = [rows |-> NoGrants, meters |-> NoGrants, ok |-> TRUE,
           accounts |-> [a \in AccountKeys |-> EmptyAccount]]

-----------------------------------------------------------------------------
(* the authority: Store.Sync on one batch *)

Snapshot == [k \in Keys |-> IF budget[k] = NoBudget THEN NoBudget
                            ELSE [def |-> budget[k], win |-> window]]

Refused(s) == [s EXCEPT !.ok = FALSE]

OpenAccounts(s) ==
  [s EXCEPT !.accounts = [a \in AccountKeys |->
     [@[a] EXCEPT !.meters = @ \/ (/\ a.win = window
                                   /\ budget[a.key] # NoBudget
                                   /\ ~budget[a.key].hard)]]]

TakeReport(s, m, id) ==
  IF id \notin DOMAIN s.rows \/ s.rows[id].amount = 0 THEN Refused(s)
  ELSE LET g   == s.rows[id]
           at  == [key |-> g.key, win |-> g.win]
           r   == m.reports[id]
           old == id.boot # m.boot
       IN  IF ~ReportAccepted(s.accounts[at], g, r, old) THEN Refused(s)
           ELSE [s EXCEPT
                   !.rows[id] = ReportedGrant(g, r, old),
                   !.accounts[at] = ReportedAccount(@, g, r, old)]

TakeMeter(s, m, id) ==
  LET was == IF id \in DOMAIN s.meters THEN s.meters[id] ELSE NoMeter
      at  == [key |-> id.key, win |-> id.win]
      old == id.boot # m.boot
  IN  IF ~MeterAccepted(s.accounts[at], was, m.meters[id], old) THEN Refused(s)
      ELSE [s EXCEPT
              !.meters = (id :> MergedMeter(was, m.meters[id], old)) @@ @,
              !.accounts[at] = MeteredAccount(@, was, m.meters[id], old)]

TakeRequest(s, m, id) ==
  LET q      == m.requests[id]
      at     == [key |-> q.key, win |-> q.win]
      a      == s.accounts[at]
      known  == id \in DOMAIN s.rows
      amount == IF Grantable(budget[q.key], window, a, q)
                THEN GrantAmount(q.def, a, q.want) ELSE 0
      row    == [key |-> q.key, win |-> q.win, def |-> q.def, want |-> q.want,
                 amount |-> amount, seq |-> 0, consumed |-> 0,
                 observed |-> 0, closed |-> FALSE, overrun |-> FALSE]
  IN  IF known /\ [k \in DOMAIN q |-> s.rows[id][k]] # q THEN Refused(s)
      ELSE IF known /\ s.rows[id].amount > 0 THEN s
      ELSE [s EXCEPT !.rows = (id :> row) @@ @,
                     !.accounts[at] = Encumbered(a, amount)]

\* validateRequest
WellFormed(m) ==
  /\ \A id \in DOMAIN m.reports :
       LET r == m.reports[id]
       IN  /\ r.seq > 0 /\ (r.overrun => r.closed)
           /\ r.overrun \/ r.observed <= r.consumed
  /\ \A id \in DOMAIN m.meters :
       m.meters[id].seq > 0 /\ m.meters[id].observed <= m.meters[id].consumed

\* The reports, then the meters, then the requests, in the batch's order.
Synced(m, order) ==
  LET reported == FoldSet(LAMBDA id, s : TakeReport(s, m, id),
                          OpenAccounts(db), DOMAIN m.reports)
      metered  == FoldSet(LAMBDA id, s : TakeMeter(s, m, id),
                          reported, DOMAIN m.meters)
      issued   == FoldLeft(LAMBDA s, id : TakeRequest(s, m, id),
                           metered, order)
      sound    == \A a \in AccountKeys : Fits(Committed(issued.accounts[a]))
  IN  IF WellFormed(m) /\ issued.ok /\ sound THEN issued ELSE Refused(db)

Accepts(m) == \A order \in SetToSeqs(DOMAIN m.requests) : Synced(m, order).ok

Reply(m, s) ==
  LET given == {id \in DOMAIN m.requests :
                  s.rows[id].amount > 0 /\ ~s.rows[id].closed}
  IN  [clock |-> window, budgets |-> Snapshot,
       grants |-> [id \in given |-> s.rows[id].amount],
       denied |-> DOMAIN m.requests \ given,
       reportAcks |-> [id \in DOMAIN m.reports |-> m.reports[id].seq],
       meterAcks |-> [id \in DOMAIN m.meters |-> m.meters[id].seq]]

-----------------------------------------------------------------------------
(* the sync loop: one exchange at a time *)

Running(f) == file[f] # NoFile

Abandon(f) ==
  IF link[f].kind = "request" /\ Cardinality(late) < MaxLate
  THEN late' \in {late, late \cup {link[f].msg}}
  ELSE late' = late

\* syncOnce: Authority.Request, and the POST.
SendSync(f) ==
  /\ Running(f) /\ link[f] = Quiet
  /\ \E j \in {CloseInactive(file[f])} : \E t \in {Sending(j)} :
         /\ link' = [link EXCEPT ![f] = [kind |-> "request", msg |-> Batch(j)]]
         /\ file' = [file EXCEPT ![f] = Collect(t)]
  /\ UNCHANGED <<late, backup, boots, minted, bill, budget, window, db>>

ServeSync(f) ==
  /\ link[f].kind = "request"
  /\ \E order \in SetToSeqs(DOMAIN link[f].msg.requests) :
       LET s == Synced(link[f].msg, order)
       IN  /\ s.ok
           /\ db' = s
           /\ link' = [link EXCEPT ![f] =
                         [kind |-> "reply", msg |-> Reply(link[f].msg, s)]]
  /\ UNCHANGED <<file, late, backup, boots, minted, bill, budget, window>>

\* An abandoned request arrives after all; nobody reads the reply.
ServeLate(m) ==
  /\ m \in late
  /\ late' = late \ {m}
  /\ db' \in {IF s.ok THEN s ELSE db :
                s \in {Synced(m, o) : o \in SetToSeqs(DOMAIN m.requests)}}
  /\ UNCHANGED <<file, link, backup, boots, minted, bill, budget, window>>

\* A lost message, an error status, the client's timeout.
GiveUp(f) ==
  /\ link[f] # Quiet
  /\ Abandon(f)
  /\ link' = [link EXCEPT ![f] = Quiet]
  /\ UNCHANGED <<file, backup, boots, minted, bill, budget, window, db>>

\* How the reply's server time may compare with the installed snapshot's.
Orders(j, m) ==
  IF ~j.ready THEN {"newer"}
  ELSE {o \in {"stale", "same", "newer"} :
          CASE o = "stale" -> m.clock <= j.clock
            [] o = "same"  -> m.clock = j.clock
            [] o = "newer" -> m.clock >= j.clock}

\* Authority.Apply; a reply that it refuses changes nothing.
ApplyReply(f) ==
  /\ link[f].kind = "reply"
  /\ link' = [link EXCEPT ![f] = Quiet]
  /\ LET j == file[f]
         m == link[f].msg
     IN  \E order \in Orders(j, m), expired \in SUBSET NewGrants(j, m) :
           /\ Applicable(j, m, order)
           /\ \E t \in {Applied(j, m, order, expired)} :
                file' = [file EXCEPT ![f] = Collect(t)]
  /\ UNCHANGED <<late, backup, boots, minted, bill, budget, window, db>>

RefuseReply(f) ==
  /\ link[f].kind = "reply"
  /\ \E order \in Orders(file[f], link[f].msg) :
       ~Applicable(file[f], link[f].msg, order)
  /\ link' = [link EXCEPT ![f] = Quiet]
  /\ UNCHANGED <<file, late, backup, boots, minted, bill, budget, window, db>>

-----------------------------------------------------------------------------
(* admission *)

Admitting(f) == Running(f) /\ file[f].ready /\ ~file[f].poisoned

\* The hard budgets whose window is open, and whether one has passed.
Scanned(j) == HardKeys(j) \cap j.windows

Lapsed(j) == (HardKeys(j) \cup SoftKeys(j)) \ j.windows # {}

Served(j, bound) == {k \in Scanned(j) : Sufficient(j, k, bound) # {}}

Starved(j, bound) == Scanned(j) \ Served(j, bound)

Picks(j, bound) ==
  {p \in [Served(j, bound) -> DOMAIN j.grants] :
     \A k \in Served(j, bound) : p[k] \in Sufficient(j, k, bound)}

\* The idle small grants that the scans come across before they stop.
Skips(j, bound) ==
  {S \cup UNION {TooSmall(j, k, bound) : k \in Starved(j, bound)} :
     S \in SUBSET UNION {TooSmall(j, k, bound) : k \in Served(j, bound)}}

\* Reserve, when every budget grants it.
Reserve(f, bound) ==
  /\ Admitting(f) /\ Cardinality(DOMAIN bill) < MaxPermits
  /\ LET j == CloseInactive(file[f])
         p == Cardinality(DOMAIN bill) + 1
     IN  /\ ~Lapsed(j) /\ Starved(j, bound) = {}
         /\ \E pick \in Picks(j, bound), skip \in Skips(j, bound) :
              LET chosen == {pick[k] : k \in DOMAIN pick}
              IN  /\ file' = [file EXCEPT ![f] = Collect(
                                Book(CloseGrants(j, skip), p, bound, chosen))]
                  /\ bill' = (p :> [grants |-> chosen, most |-> bound]) @@ bill
  /\ UNCHANGED <<link, late, backup, boots, minted, budget, window, db>>

\* The reservation is taken back; a meter that it opened stays.
Unbooked(booked, j) ==
  [booked EXCEPT !.grants = j.grants, !.permits = j.permits]

\* Reserve, when the deadline of a chosen grant or of a window passes while the
\* reservation is being recorded: no caller has seen the permit.
ReserveTooLate(f, bound) ==
  /\ Admitting(f)
  /\ LET j == CloseInactive(file[f])
         p == Cardinality(DOMAIN bill) + 1
     IN  /\ ~Lapsed(j) /\ Starved(j, bound) = {}
         /\ \E pick \in Picks(j, bound), skip \in Skips(j, bound) :
              LET chosen  == {pick[k] : k \in DOMAIN pick}
                  closed  == CloseGrants(j, skip)
                  undone  == Unbooked(Book(closed, p, bound, chosen), closed)
              IN  \/ \E id \in chosen :
                       file' = [file EXCEPT ![f] = Collect(CloseInactive(
                                  [undone EXCEPT !.live = @ \ {id}]))]
                  \/ \E k \in j.windows :
                       file' = [file EXCEPT ![f] = Collect(CloseInactive(
                                  [undone EXCEPT !.windows = @ \ {k}]))]
  /\ UNCHANGED <<link, late, backup, boots, minted, bill, budget, window, db>>

\* Reserve, when some budget has no credit: queue what is missing.
Deny(f, bound) ==
  /\ Admitting(f)
  /\ LET j       == CloseInactive(file[f])
         id(k)   == [boot |-> j.boot, key |-> k, n |-> minted + 1]
         ends(k) == IF Answering(j, k, bound) # {} THEN Answering(j, k, bound)
                                                   ELSE {id(k)}
         queues  == {q \in [Starved(j, bound) ->
                              UNION {ends(k) : k \in Starved(j, bound)}] :
                       \A k \in Starved(j, bound) : q[k] \in ends(k)}
     IN  /\ Lapsed(j) \/ Starved(j, bound) # {}
         /\ \E skip \in Skips(j, bound), q \in queues :
              LET fresh == \E k \in DOMAIN q : q[k] = id(k)
              IN  /\ fresh => minted < MaxMinted
                  /\ minted' = IF fresh THEN minted + 1 ELSE minted
                  /\ file' = [file EXCEPT ![f] = Collect(
                       FoldSet(LAMBDA k, t : QueueRequest(t, k, bound, q[k]),
                               CloseGrants(j, skip), Starved(j, bound)))]
  /\ UNCHANGED <<link, late, backup, boots, bill, budget, window, db>>

\* What an outcome proves of the cost of a call.
Proven(most, o) ==
  IF o.known /\ Complete(o) THEN Smaller(o.actual, most) ELSE most

\* Finish.  A permit of an earlier boot is unknown to the journal.
Finish(f, p, o) ==
  /\ Running(f) /\ p \in DOMAIN file[f].permits
  /\ ~file[f].permits[p].retired
  /\ \/ /\ ~Overflows(file[f], p, o)
        /\ file' = [file EXCEPT ![f] =
                      Collect(CloseInactive(Settle(@, p, o)))]
        /\ bill' = [bill EXCEPT ![p].most = Proven(@, o)]
     \/ /\ Overflows(file[f], p, o)
        /\ file' = [file EXCEPT ![f] = Collect(Poison(@, p, o))]
        /\ bill' = bill
  /\ UNCHANGED <<link, late, backup, boots, minted, budget, window, db>>

-----------------------------------------------------------------------------
(* time, crashes and operators *)

GrantExpires(f, id) ==
  /\ Running(f) /\ id \in file[f].live
  /\ file' = [file EXCEPT ![f].live = @ \ {id}]
  /\ UNCHANGED <<link, late, backup, boots, minted, bill, budget, window, db>>

WindowExpires(f, k) ==
  /\ Running(f) /\ k \in file[f].windows
  /\ file' = [file EXCEPT ![f].windows = @ \ {k}]
  /\ UNCHANGED <<link, late, backup, boots, minted, bill, budget, window, db>>

\* The database clock enters the next window.
NextWindow ==
  /\ window < LastWindow
  /\ window' = window + 1
  /\ UNCHANGED <<gateways, budget, db>>

EditPolicy(k, def) ==
  /\ budget[k] # def
  /\ budget' = [budget EXCEPT ![k] = def]
  /\ UNCHANGED <<gateways, window, db>>

\* Open, on a journal left by a crash, on a backup or on nothing.
Open(f, copy) ==
  /\ boots < MaxBoots
  /\ boots' = boots + 1
  /\ file' = [file EXCEPT ![f] = Opened(copy, boots + 1)]
  /\ Abandon(f)
  /\ link' = [link EXCEPT ![f] = Quiet]
  /\ UNCHANGED <<backup, minted, bill, budget, window, db>>

Restart(f) == Running(f) /\ Open(f, file[f])

Restore(f) == backup # NoFile /\ Open(f, backup)

\* A lost journal.  (Whether a backup was taken before makes no difference to it.)
Replace(f) == backup # NoFile /\ Running(f) /\ Open(f, EmptyJournal(0))

Backup(f) ==
  /\ MaxBackups > 0 /\ backup = NoFile /\ Running(f)
  /\ backup' = file[f]
  /\ UNCHANGED <<file, link, late, boots, minted, bill, budget, window, db>>

\* What the gateways of the files F, the network and an operator do.
Steps(F, bounds, outcomes, definitions) ==
  \/ \E f \in F :
       \/ SendSync(f)
       \/ ServeSync(f)
       \/ GiveUp(f)
       \/ ApplyReply(f)
       \/ RefuseReply(f)
       \/ \E bound \in bounds : \/ Reserve(f, bound)
                                \/ ReserveTooLate(f, bound)
                                \/ Deny(f, bound)
       \/ \E p \in DOMAIN bill, o \in outcomes : Finish(f, p, o)
       \/ \E id \in DOMAIN db.rows : GrantExpires(f, id)
       \/ \E k \in Keys : WindowExpires(f, k)
       \/ Restart(f)
  \/ \E m \in late : ServeLate(m)
  \/ \E k \in Keys, def \in definitions : EditPolicy(k, def)
  \/ NextWindow

\* What may happen to the files themselves.
Disasters(F) == \E f \in F : Restore(f) \/ Replace(f) \/ Backup(f)

Next == Steps(Files, Bounds, Outcomes, Definitions) \/ Disasters(Files)

Spec == Init /\ [][Next]_vars

-----------------------------------------------------------------------------
(* properties *)

\* Every journal that an operation commits is one that decode accepts, so that
\* no transaction after it finds the store broken: acknowledgements stay behind
\* what was sent, and a permit never loses its grants and meters to collect.
Decodable ==
  \A f \in Files : Running(f) =>
    LET j == file[f]
        checkpoint(c) == c.ack \in 0..c.sent /\ c.sent <= c.seq /\ c.seq > 0
    IN  /\ \A id \in DOMAIN j.grants :
             /\ checkpoint(j.grants[id])
             /\ j.grants[id].reserved >= 0 /\ j.grants[id].pending >= 0
        /\ \A id \in DOMAIN j.meters : checkpoint(j.meters[id])
        /\ \A p \in DOMAIN j.permits :
             /\ j.permits[p].grants \subseteq DOMAIN j.grants
             /\ j.permits[p].meters \subseteq DOMAIN j.meters

Booked(j, id) == {p \in DOMAIN j.permits : id \in j.permits[p].grants}

\* Finish never meets "inconsistent reservation": a grant's reservations are
\* those of the permits that hold it, it stays open as long as one does, and
\* unless it was overrun it is never promised beyond its amount.
ReservationsBacked ==
  \A f \in Files : Running(f) =>
    LET j == file[f] IN
    \A id \in DOMAIN j.grants :
      LET g == j.grants[id]
      IN  /\ g.pending = Cardinality(Booked(j, id))
          /\ g.reserved = FoldSet(LAMBDA p, n : n + j.permits[p].bound, 0,
                                  Booked(j, id))
          /\ g.pending > 0 => ~g.closed
          /\ g.overrun \/ Available(g) >= 0

Cost(S) == FoldSet(LAMBDA p, n : n + bill[p].most, 0, S)

Calls(id) == {p \in DOMAIN bill : id \in bill[p].grants}

\* What the authority holds back for a grant.
Liability(g) ==
  Larger(Spent(g), IF g.closed /\ ~g.overrun THEN 0 ELSE g.amount)

\* Whatever is lost, repeated, restored or cloned, the authority holds back at
\* least what the calls admitted from a grant may still cost: a refund is given
\* only for money that was provably not spent (Finish, retire, Apply and
\* applyReport together).
Covered ==
  \A id \in UNION {bill[p].grants : p \in DOMAIN bill} :
    /\ id \in DOMAIN db.rows
    /\ Cost(Calls(id)) <= Liability(db.rows[id])

AccountCalls(a) ==
  {p \in DOMAIN bill : \E id \in bill[p].grants : db.rows[id].key = a.key /\ db.rows[id].win = a.win}

AccountRows(a) == {id \in DOMAIN db.rows : db.rows[id].key = a.key /\ db.rows[id].win = a.win}

\* The abstract account behind each budget and window.
Promise ==
  INSTANCE Prepaid WITH
    Accounts <- AccountKeys,
    Limit    <- Max({def.limit : def \in Definitions \ {NoBudget}}),
    held     <- [a \in AccountKeys |-> MapThenSumSet(LAMBDA id : Liability(db.rows[id]), AccountRows(a))],
    owed     <- [a \in AccountKeys |-> Cost(AccountCalls(a))],
    frozen   <- [a \in AccountKeys |-> db.accounts[a].frozen]

\* Journals, lost and late messages, crashes, restores and clones together are
\* no more than a prepaid account: at no step does a gateway admit a call that
\* the authority does not already hold the money for, or the authority release
\* money that an admitted call may cost.
ImplementsPrepaid == Promise!PrepaidSpec

\* A gateway that keeps its own journal is never locked out: as long as no
\* backup was taken, at every moment the authority would accept the batch in
\* flight, and the journal the reply, whatever was lost, repeated, edited or
\* restarted before.
NeverLockedOut ==
  backup = NoFile => \A f \in Files :
    /\ link[f].kind = "request" => Accepts(link[f].msg)
    /\ link[f].kind = "reply" => Applicable(file[f], link[f].msg, "newer")

\* collect drops "never ... known unacknowledged accounting": a grant leaves a
\* journal only when the authority has closed it, and with the very totals of
\* the journal if it was granted to the running boot.
ForgetsOnlySettled ==
  [][\A f \in Files :
       Running(f) /\ boots' = boots =>
         \A id \in DOMAIN file[f].grants \ DOMAIN file'[f].grants :
           /\ db.rows[id].closed
           /\ id.boot = file[f].boot =>
                Same(db.rows[id], file[f].grants[id])]_vars

\* All credit comes back: a grant in the hands of a gateway is at last closed
\* by the authority, through any number of lost messages and a restart.
CreditReturns ==
  \A f \in Files, b \in 1..MaxBoots, k \in Keys, n \in 1..MaxMinted :
    LET id == [boot |-> b, key |-> k, n |-> n]
    IN  (Running(f) /\ id \in DOMAIN file[f].grants)
          ~> (id \in DOMAIN db.rows /\ db.rows[id].closed)

\* Every call is backed twice: its reservation by an open grant of the journal,
\* and the grant by money that the authority has not given back.
CallsBacked == ReservationsBacked /\ Covered

\* No history of its own stops a gateway: its journal can be read again, the
\* authority takes its batches, and it takes the authority's replies.
NeverStuck == Decodable /\ NeverLockedOut
=============================================================================
