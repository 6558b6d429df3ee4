--------------------------- MODULE AffinitySessions ---------------------------
(***************************************************************************)
(* The session affinity of the context router: a session keeps the target  *)
(* that served it for a minimum hold, and a request learns what it may pin *)
(* when it is routed and writes it only after it was served.  Requests of  *)
(* one session run concurrently, so each carries a token with the revision *)
(* it saw.  Times are ticks; a request is issued and recorded at most once.*)
(***************************************************************************)
EXTENDS Integers, FiniteSets

CONSTANTS Sessions, AffinityRequests,
          AffinityTargets,     \* targets of the filtered chains
          Digests,             \* digests of the policies a request is routed under
          SessionTTL, MinHold, MinRequests, MaxEntries, LastTick

ASSUME AffinityAssumption ==
  /\ {SessionTTL, MinRequests, MaxEntries} \subseteq Nat \ {0}
  /\ MinHold \in Nat /\ MinHold <= SessionTTL /\ LastTick \in Nat

VARIABLE af   \* [now, revision, entries, tokens]

NoEntry == [target |-> "none"]
Present(s, e) == e[s] # NoEntry

(* A fresh entry, or one more request of the streak on the same target and policy.      *)
(* served and basis are auxiliary: the requests counted, and the store's revision when   *)
(* the writer was routed.                                                                *)
NextEntry(a, q, t) ==
  LET k == a.tokens[q]
      old == a.entries[k.session]
      same == old # NoEntry /\ old.target = t /\ old.policy = k.policy
  IN [target |-> t, policy |-> k.policy, since |-> IF same THEN old.since ELSE a.now,
      expires |-> a.now + SessionTTL, requests |-> IF same THEN old.requests + 1 ELSE 1,
      revision |-> a.revision + 1, basis |-> k.basis,
      served |-> IF same THEN old.served \cup {q} ELSE {q}]

ExpiredAt(a, e) == e # NoEntry /\ a.now >= e.expires
Drop(a, s) == [a EXCEPT !.entries[s] = NoEntry]
Count(a) == Cardinality({s \in Sessions : Present(s, a.entries)})

-------------------------------------------------------------------------------
InitAffinity ==
  af = [now |-> 0, revision |-> 0, entries |-> [s \in Sessions |-> NoEntry],
        tokens |-> [q \in AffinityRequests |-> [state |-> "idle"]]]

(* prepareAffinity, first critical section: an entry that expired or was written under   *)
(* other policies is deleted; the token remembers the revision it saw.                   *)
PrepareAffinity(q, s, d) ==
  LET old == af.entries[s]
      stale == ExpiredAt(af, old) \/ (old # NoEntry /\ old.policy # d)
      seen == old # NoEntry /\ ~stale
  IN /\ af.tokens[q].state = "idle"
     /\ af' = [IF stale THEN Drop(af, s) ELSE af EXCEPT !.tokens[q] =
                 [state |-> IF seen THEN "seen" ELSE "routed", session |-> s, policy |-> d,
                  expected |-> IF seen THEN old.revision ELSE 0, issued |-> af.now, basis |-> af.revision,
                  entry |-> IF seen THEN old ELSE NoEntry, pin |-> "none", target |-> "none"]]

(* The hold: until both the minimum time and the minimum number of requests have passed. *)
Held(k) == k.issued < k.entry.since + MinHold \/ k.entry.requests < MinRequests

(* The pinned target is still in the filtered chain and its breaker closed: it leads     *)
(* while the hold lasts, and the rules choose anew afterwards.                            *)
KeepTarget(q) ==
  LET k == af.tokens[q]
  IN /\ k.state = "seen"
     /\ af' = [af EXCEPT !.tokens[q] = [k EXCEPT !.state = "routed", !.pin = IF Held(k) THEN k.entry.target ELSE "none"]]
(* It is not: the entry goes, unless somebody already replaced it. *)
LoseTarget(q) ==
  LET k == af.tokens[q]
      same == Present(k.session, af.entries) /\ af.entries[k.session].revision = k.entry.revision
  IN /\ k.state = "seen"
     /\ af' = [IF same THEN Drop(af, k.session) ELSE af EXCEPT !.tokens[q] =
                 [k EXCEPT !.state = "routed", !.expected = IF same THEN 0 ELSE @]]

(* May this token write?  Only over what it saw. *)
MayWriteAlways(a, k) == TRUE
MayWrite(a, k) ==
  IF Present(k.session, a.entries) THEN a.entries[k.session].revision = k.expected ELSE k.expected = 0

(* At capacity the expired entries go first; a full store only loses the pin. *)
MadeRoom(a, s) ==
  IF Present(s, a.entries) \/ Count(a) < MaxEntries THEN a
  ELSE [a EXCEPT !.entries = [x \in Sessions |-> IF ExpiredAt(a, @[x]) THEN NoEntry ELSE @[x]]]
HasRoom(a, s) == Present(s, a.entries) \/ Count(a) < MaxEntries

(* RecordAffinitySuccess: target t served the request.  A token is used once; a success  *)
(* that comes after the session's lifetime is not remembered.                             *)
RecordAffinitySuccess(q, t) ==
  LET k == af.tokens[q]
      used == [af EXCEPT !.tokens[q] = [k EXCEPT !.state = "recorded", !.target = t]]
      swept == IF ExpiredAt(used, used.entries[k.session]) THEN Drop(used, k.session) ELSE used
      room == MadeRoom(swept, k.session)
  IN /\ k.state = "routed"
     /\ af' = IF af.now >= k.issued + SessionTTL THEN used
              ELSE IF ~MayWrite(swept, k) THEN swept
              ELSE IF ~HasRoom(room, k.session) THEN room
              ELSE [room EXCEPT !.revision = @ + 1, !.entries[k.session] = NextEntry(room, q, t)]
FailedRequest(q) == af.tokens[q].state = "routed" /\ af' = [af EXCEPT !.tokens[q].state = "recorded"]
TickAffinity == af.now < LastTick /\ af' = [af EXCEPT !.now = @ + 1]

NextAffinity ==
  \/ \E q \in AffinityRequests :
       \/ \E s \in Sessions, d \in Digests : PrepareAffinity(q, s, d)
       \/ KeepTarget(q) \/ LoseTarget(q) \/ FailedRequest(q)
       \/ \E t \in AffinityTargets : RecordAffinitySuccess(q, t)
  \/ TickAffinity

AffinitySpec == InitAffinity /\ [][NextAffinity]_af

-------------------------------------------------------------------------------
AffinityTypeOK ==
  /\ af.now \in 0..LastTick /\ af.revision \in Nat
  /\ Count(af) <= MaxEntries
  /\ \A s \in Sessions : Present(s, af.entries) => af.entries[s].revision \in 1..af.revision

(* Whatever interleaving wrote it, an entry's request count is the number of distinct    *)
(* requests that its target really served under its policies, so the minimum number of   *)
(* requests cannot be met by requests served elsewhere.                                   *)
StreakCounted ==
  \A s \in Sessions : Present(s, af.entries) =>
    LET e == af.entries[s] IN /\ e.requests = Cardinality(e.served)
                              /\ \A q \in e.served : af.tokens[q].session = s /\ af.tokens[q].policy = e.policy /\ af.tokens[q].target = e.target

(* A request never overwrites what a later one recorded: the writer of the new entry was  *)
(* routed after the entry it replaces had been written.                                    *)
NoStaleOverwrite ==
  \A s \in Sessions : Present(s, af.entries) /\ Present(s, af'.entries) /\ af.entries[s] # af'.entries[s] /\ ~ExpiredAt(af, af.entries[s])
    => af'.entries[s].basis >= af.entries[s].revision

(* A held session moves to another target only by failover: the request that moves it     *)
(* led with the held target.                                                               *)
HeldSessionsStay ==
  \A s \in Sessions, q \in AffinityRequests :
    /\ Present(s, af.entries) /\ Present(s, af'.entries) /\ ~ExpiredAt(af, af.entries[s])
    /\ af'.entries[s].target # af.entries[s].target /\ af'.entries[s].policy = af.entries[s].policy
    /\ q \in af'.entries[s].served
    /\ af.tokens[q].issued < af.entries[s].since + MinHold \/ af.entries[s].requests < MinRequests
    => af.tokens[q].pin = af.entries[s].target

(* A session moves only with cause: its streak is made of its own successes, an answer     *)
(* routed before the last change does not undo it, and a hold outlasts overlapping         *)
(* requests (affinity.go RecordAffinity, selectAffinity).                                   *)
SessionsHold == [][AffinityTypeOK' /\ StreakCounted' /\ NoStaleOverwrite /\ HeldSessionsStay]_af
===============================================================================
