--------------------------- MODULE Feedback_proofs ---------------------------
(***************************************************************************)
(* What the gateway makes of observations that come late and out of order. *)
(* A circuit opens on evidence and late reports never shorten its window,  *)
(* for routes of any length, any number of requests, and every threshold   *)
(* and backoff. Budget alerts keep up with concurrent settlements, for any *)
(* number of them and every set of thresholds.  A session moves to another *)
(* target with cause only, however its requests overlap.  Reservations in  *)
(* the shared database never wait in a circle, for any number of calls and *)
(* limits, and book a call on what is current.                             *)
(***************************************************************************)
EXTENDS CircuitBreaker, BudgetAlerts, AffinitySessions, SharedAdmission, WellFoundedInduction, FiniteSetTheorems,
        SequenceTheorems, TLAPS

Entries == [fails : 0..Threshold, wait : 0..MaxBackoff, backoff : 0..MaxBackoff]

\* What OpenOnEvidence says of one entry.
Sound(e) ==
  IF e.backoff = 0 THEN e.fails < Threshold /\ e.wait = 0
  ELSE /\ e.fails = Threshold
       /\ e.backoff \in BaseBackoff..MaxBackoff
       /\ e.wait <= e.backoff

BreakerInv == BreakerTypeOK /\ OpenOnEvidence

LEMMA EvidenceOfEntries == OpenOnEvidence <=> \A p \in Identities : Sound(brk[p])
  BY DEF OpenOnEvidence, Sound

-----------------------------------------------------------------------------
(* What the methods of the breaker make of an entry *)

LEMMA FreshIsSound == Fresh \in Entries /\ Sound(Fresh)
  BY BreakerAssumption DEF Fresh, Entries, Sound

\* A recorded failure counts up to the threshold, and from there on opens the
\* circuit for at least as long as it was still to stay open.
LEMMA FailedIsSound ==
  ASSUME NEW e \in Entries, Sound(e)
  PROVE  Failed(e) \in Entries /\ Sound(Failed(e)) /\ Failed(e).wait >= e.wait
<1> DEFINE fails == MinNat(e.fails + 1, Threshold)
           backoff == IF e.backoff = 0 THEN BaseBackoff
                                       ELSE MinNat(2 * e.backoff, MaxBackoff)
<1>1. /\ fails \in 1..Threshold
      /\ backoff \in BaseBackoff..MaxBackoff
      /\ backoff >= e.backoff
  BY BreakerAssumption DEF MinNat, Entries, Sound
<1>2. CASE fails < Threshold
  <2>1. Failed(e) = [e EXCEPT !.fails = fails]
    BY <1>2 DEF Failed
  <2>2. e.fails < Threshold /\ e.backoff = 0 /\ e.wait = 0
    BY <1>2, BreakerAssumption DEF MinNat, Entries, Sound
  <2> QED
    BY <1>1, <1>2, <2>1, <2>2, BreakerAssumption DEF Entries, Sound
<1>3. CASE ~(fails < Threshold)
  <2>1. Failed(e) = [fails |-> fails, wait |-> backoff, backoff |-> backoff]
    BY <1>3 DEF Failed
  <2>2. fails = Threshold
    BY <1>1, <1>3, BreakerAssumption
  <2>3. e.wait <= e.backoff
    BY DEF Sound, Entries
  <2> HIDE DEF fails, backoff
  <2> QED
    BY <1>1, <2>1, <2>2, <2>3, BreakerAssumption DEF Entries, Sound
<1> QED
  BY <1>2, <1>3

\* Time only runs a window down.
LEMMA TickedIsSound ==
  ASSUME NEW e \in Entries, Sound(e)
  PROVE  LET t == [e EXCEPT !.wait = IF @ > 0 THEN @ - 1 ELSE 0]
         IN  t \in Entries /\ Sound(t)
  BY BreakerAssumption DEF Entries, Sound

\* Whoever has a chain calls the target at its first position.
LEMMA CalledIsOnTheRoute ==
  ASSUME BreakerTypeOK, NEW r \in Callers, call[r] # BreakerIdle
  PROVE  Called(r) \in Identities
<1>1. call[r] \subseteq DOMAIN Route /\ DOMAIN Route \subseteq Nat
  BY BreakerAssumption DEF BreakerTypeOK
<1> DEFINE less == {ss \in Nat \X Nat : ss[1] < ss[2]}
<1>2. IsWellFoundedOn(less, Nat)
  BY NatLessThanWellFounded, Zenon DEF OpToRel
<1> HIDE DEF less
<1>3. PICK i \in call[r] : \A j \in call[r] : ~(<<j, i>> \in less)
  <2>1. call[r] \subseteq Nat /\ call[r] # {}
    BY <1>1 DEF BreakerIdle
  <2> QED
    BY <1>2, <2>1, WFMin, Zenon
<1>4. \A j \in call[r] : i <= j
  <2> SUFFICES ASSUME NEW j \in call[r] PROVE i <= j
    OBVIOUS
  <2>1. i \in Nat /\ j \in Nat
    BY <1>1
  <2>2. j < i => <<j, i>> \in less
    BY <2>1 DEF less
  <2> QED
    BY <1>3, <2>1, <2>2
<1>5. Min(call[r]) \in call[r]
  BY <1>4 DEF Min
<1> QED
  BY <1>1, <1>5 DEF Called, Identities

-----------------------------------------------------------------------------
LEMMA BreakerInitInv == InitBreaker => BreakerInv
  BY FreshIsSound, EvidenceOfEntries
     DEF InitBreaker, BreakerInv, BreakerTypeOK, Entries, BreakerIdle

\* A step that changes entries keeps the invariant if every new entry is sound.
LEMMA EntriesSuffice ==
  ASSUME BreakerInv, brk' \in [Identities -> Entries],
         \A p \in Identities : Sound(brk'[p]),
         topology' \subseteq Identities, reloading' \in BOOLEAN,
         call' \in [Callers -> SUBSET DOMAIN Route],
         trial' \in [Identities -> SUBSET Callers], up' \subseteq Identities
  PROVE  BreakerInv'
  BY DEF BreakerInv, BreakerTypeOK, OpenOnEvidence, Sound, Entries

LEMMA BreakerStep ==
  ASSUME BreakerInv, [NextBreaker]_breakerVars
  PROVE  BreakerInv' /\ FailureNeverShortens
<1>1. /\ brk \in [Identities -> Entries]
      /\ \A p \in Identities : Sound(brk[p])
      /\ topology \subseteq Identities /\ reloading \in BOOLEAN
      /\ call \in [Callers -> SUBSET DOMAIN Route]
      /\ trial \in [Identities -> SUBSET Callers] /\ up \subseteq Identities
  BY EvidenceOfEntries DEF BreakerInv, BreakerTypeOK, Entries
<1>2. ASSUME NEW r \in Callers, NEW rest \in SUBSET DOMAIN Route, Leave(r, rest)
      PROVE  /\ call' \in [Callers -> SUBSET DOMAIN Route]
             /\ trial' \in [Identities -> SUBSET Callers]
  BY <1>1, <1>2 DEF Leave
<1>3. BreakerIdle \in SUBSET DOMAIN Route
  BY DEF BreakerIdle
\* The failing target's entry is the one that Failed makes of it.
<1>4. ASSUME NEW r \in Callers, CallFails(r)
      PROVE  /\ BreakerInv'
             /\ brk'[Called(r)].wait >= brk[Called(r)].wait
  <2>1. Called(r) \in Identities
    BY <1>4, CalledIsOnTheRoute DEF BreakerInv, CallFails
  <2> DEFINE p == Called(r)
  <2>2. brk' = [brk EXCEPT ![p] = Failed(brk[p])]
    BY <1>4 DEF CallFails, RecordFailure
  <2>3. Failed(brk[p]) \in Entries /\ Sound(Failed(brk[p])) /\ Failed(brk[p]).wait >= brk[p].wait
    BY <1>1, <2>1, FailedIsSound
  <2>4. Untried(r) \in SUBSET DOMAIN Route
    BY <1>1 DEF Untried
  <2>5. /\ call' \in [Callers -> SUBSET DOMAIN Route]
        /\ trial' \in [Identities -> SUBSET Callers]
    BY <1>2, <1>4, <2>4 DEF CallFails
  <2>6. UNCHANGED <<topology, reloading, up>>
    BY <1>4 DEF CallFails
  <2> HIDE DEF p
  <2>7. brk' \in [Identities -> Entries] /\ \A q \in Identities : Sound(brk'[q])
    BY <1>1, <2>2, <2>3
  <2>8. brk'[p].wait >= brk[p].wait
    BY <1>1, <2>1, <2>2, <2>3 DEF p
  <2> QED
    BY <1>1, <2>5, <2>6, <2>7, <2>8, EntriesSuffice DEF p
<1>5. ASSUME NEW r \in Callers, Resolve(r)
      PROVE  BreakerInv'
  <2>1. ResolveChain \in SUBSET DOMAIN Route
    BY DEF ResolveChain, Configured
  <2> QED
    BY <1>1, <1>5, <2>1, EntriesSuffice DEF Resolve, NoteTrial
<1>6. ASSUME NEW r \in Callers, CallSucceeds(r)
      PROVE  BreakerInv'
  <2>1. brk' \in [Identities -> Entries] /\ \A q \in Identities : Sound(brk'[q])
    BY <1>1, <1>6, FreshIsSound DEF CallSucceeds, RecordSuccess
  <2> QED
    BY <1>1, <1>2, <1>3, <1>6, <2>1, EntriesSuffice DEF CallSucceeds
<1>7. ASSUME NEW r \in Callers, LastCallFails(r) \/ CallAbandoned(r)
      PROVE  BreakerInv'
  BY <1>1, <1>2, <1>3, <1>7, EntriesSuffice DEF LastCallFails, CallAbandoned
<1>8. ASSUME NEW gen \in SUBSET Identities, Swap(gen)
      PROVE  BreakerInv'
  BY <1>1, <1>8, EntriesSuffice DEF Swap
<1>9. ASSUME RetainBreakers
      PROVE  BreakerInv'
  <2>1. brk' \in [Identities -> Entries] /\ \A q \in Identities : Sound(brk'[q])
    BY <1>1, <1>9, FreshIsSound DEF RetainBreakers, Retain
  <2> QED
    BY <1>1, <1>9, <2>1, EntriesSuffice DEF RetainBreakers
<1>10. ASSUME Tick
       PROVE  BreakerInv'
  <2> DEFINE Later(e) == [e EXCEPT !.wait = IF @ > 0 THEN @ - 1 ELSE 0]
  <2>1. \A e \in Entries : Sound(e) => Later(e) \in Entries /\ Sound(Later(e))
    BY TickedIsSound
  <2>2. brk' = [p \in Identities |-> Later(brk[p])]
    BY <1>10 DEF Tick
  <2> HIDE DEF Later
  <2>3. brk' \in [Identities -> Entries] /\ \A q \in Identities : Sound(brk'[q])
    BY <1>1, <2>1, <2>2
  <2> QED
    BY <1>1, <1>10, <2>3, EntriesSuffice DEF Tick
<1>11. ASSUME NEW p \in Identities, HealthChanges(p)
       PROVE  BreakerInv'
  BY <1>1, <1>11, EntriesSuffice DEF HealthChanges
<1>12. ASSUME UNCHANGED breakerVars
       PROVE  BreakerInv'
  BY <1>12 DEF breakerVars, BreakerInv, BreakerTypeOK, OpenOnEvidence
<1>13. BreakerInv'
  BY <1>4, <1>5, <1>6, <1>7, <1>8, <1>9, <1>10, <1>11, <1>12 DEF NextBreaker
<1> QED
  BY <1>4, <1>13 DEF FailureNeverShortens

\* A circuit is open only on the evidence of Threshold consecutive failures, and
\* a failure reported late never shortens its window (breaker.go RecordFailure,
\* RecordSuccess, Retain), whatever the route and the configured backoffs.
THEOREM CircuitsOpenOnEvidence == BreakerSpec => OpensOnEvidence
<1>1. InitBreaker => BreakerInv
  BY BreakerInitInv
<1>2. BreakerInv /\ [NextBreaker]_breakerVars =>
        BreakerInv' /\ [BreakerTypeOK' /\ OpenOnEvidence' /\ FailureNeverShortens]_breakerVars
  BY BreakerStep DEF BreakerInv
<1> QED
  BY <1>1, <1>2, PTL DEF BreakerSpec, OpensOnEvidence
-----------------------------------------------------------------------------
(* Budget alerts *)

Armings == {"unknown", "yes", "no"}
SettlePcs == {"start", "team_debited", "team_read", "key", "key_debited", "key_read", "settled"}
Fires == [scope : Scopes, threshold : Nat, window : Nat]
Deliveries == [fire : Nat, delivered : BOOLEAN]
AlertState ==
  [spent : [Scopes -> Nat], window : 0..LastWindow, latch : [Scopes -> Nat], armed : [Scopes -> Armings],
   fires : Seq(Fires), out : SUBSET Nat, recent : Seq(Deliveries), closing : BOOLEAN,
   pc : [Settlements -> SettlePcs], read : [Settlements -> [cost : Nat, saw : Nat]]]

DebitedPc(s) == IF s = "team" THEN "team_debited" ELSE "key_debited"
ReadPc(s) == IF s = "team" THEN "team_read" ELSE "key_read"

\* t is the highest threshold that a spend of n reaches.
IsTop(s, n, t) == t \in Thresholds[s] /\ n >= t /\ \A u \in Thresholds[s] : n >= u => u <= t
\* t was fired in the current window.
Fired(a, s, t) ==
  \E i \in DOMAIN a.fires : a.fires[i].scope = s /\ a.fires[i].threshold = t /\ a.fires[i].window = a.window
\* A settlement is still going to tell the notifier of t.
Pending(a, s, t) ==
  \E x \in Settlements :
    \/ a.pc[x] = DebitedPc(s)
    \/ a.pc[x] = ReadPc(s) /\ a.read[x].saw >= t /\ a.read[x].saw <= a.spent[s]

\* What is latched since the first reading of the window was fired in the window.
Heard(a, s) == a.armed[s] = "yes" /\ a.latch[s] # 0 => Fired(a, s, a.latch[s])
\* The highest threshold reached was fired, or a settlement is on its way to fire it.
OnItsWay(a, s) ==
  a.armed[s] # "no" => \A t \in Thresholds[s] : IsTop(s, a.spent[s], t) => Fired(a, s, t) \/ Pending(a, s, t)

Alerting(a) ==
  /\ a \in AlertState /\ a.out \subseteq DOMAIN a.fires /\ Len(a.recent) <= RecentCap
  /\ \A s \in Scopes : a.latch[s] \in Thresholds[s] \cup {0} /\ Heard(a, s)
Keeping(a) == Alerting(a) /\ \A s \in Scopes : OnItsWay(a, s)
AlertsInv == Keeping(al)

LEMMA HighestIsIn ==
  ASSUME NEW S, S \subseteq Nat, S # {}, NEW r \in Nat, \A t \in S : t <= r
  PROVE  Highest(S) \in S /\ \A t \in S : t <= Highest(S)
<1> DEFINE below == {ss \in Nat \X Nat : ss[1] < ss[2]}
           D == {r - t : t \in S}
<1>1. IsWellFoundedOn(below, Nat)
  BY NatLessThanWellFounded, Zenon DEF OpToRel
<1>2. D \subseteq Nat /\ D # {}
  <2>1. \A t \in S : t \in Nat /\ t <= r
    OBVIOUS
  <2>2. D \subseteq Nat
    BY <2>1
  <2>3. PICK t : t \in S
    OBVIOUS
  <2>4. r - t \in D
    BY <2>3
  <2> QED
    BY <2>2, <2>4
<1> HIDE DEF below
<1>3. PICK d \in D : \A e \in D : ~(<<e, d>> \in below)
  <2> HIDE DEF D
  <2> QED
    BY <1>1, <1>2, WFMin, Zenon
<1>4. PICK m \in S : d = r - m
  OBVIOUS
<1>5. \A t \in S : t <= m
  <2> SUFFICES ASSUME NEW t \in S, ~(t <= m) PROVE FALSE
    OBVIOUS
  <2>0. t \in Nat /\ m \in Nat
    OBVIOUS
  <2>1. r - t \in D /\ r - t < d /\ r - t \in Nat /\ d \in Nat
    BY <1>2, <1>4, <2>0
  <2>2. <<r - t, d>> \in below
    BY <2>1 DEF below
  <2> QED
    BY <1>3, <2>1, <2>2
<1> QED
  BY <1>5 DEF Highest

LEMMA CrossedFacts ==
  ASSUME NEW s \in Scopes, NEW r \in Nat, NEW prev \in Nat
  PROVE  LET c == Crossed(s, r, prev)
         IN /\ c = 0 => \A t \in Thresholds[s] : ~(r >= t /\ t > prev)
            /\ c # 0 => /\ c \in Thresholds[s] /\ r >= c /\ c > prev
                        /\ \A t \in Thresholds[s] : r >= t /\ t > prev => t <= c
            /\ c \in Nat
<1> DEFINE S == {t \in Thresholds[s] : r >= t /\ t > prev}
<1>1. Thresholds[s] \subseteq Nat \ {0}
  BY AlertAssumption
<1>2. CASE S = {}
  <2>1. Crossed(s, r, prev) = 0
    BY <1>2 DEF Crossed, Highest
  <2> QED
    BY <1>2, <2>1
<1>3. CASE S # {}
  <2>1. S \subseteq Nat /\ \A t \in S : t <= r
    BY <1>1
  <2>2. Highest(S) \in S /\ \A t \in S : t <= Highest(S)
    <3> HIDE DEF S
    <3> QED
      BY <1>3, <2>1, HighestIsIn
  <2>3. Crossed(s, r, prev) = Highest(S)
    BY DEF Crossed
  <2> DEFINE c == Highest(S)
  <2> HIDE DEF c
  <2>4. c \in S /\ (\A t \in S : t <= c) /\ Crossed(s, r, prev) = c
    BY <2>2, <2>3 DEF c
  <2>5. c \in Thresholds[s] /\ r >= c /\ c > prev /\ c \in Nat /\ c # 0
    BY <1>1, <2>4
  <2> QED
    BY <2>4, <2>5
<1> QED
  BY <1>2, <1>3

-----------------------------------------------------------------------------
(* A reading reaches the notifier. *)

\* What Observe changes, with the latch it starts from and the threshold it finds crossed.
ObservedAs(a, s, r, prev, c, q) ==
  /\ q \in AlertState /\ q.spent = a.spent /\ q.window = a.window /\ q.pc = a.pc /\ q.read = a.read
  /\ q.recent = a.recent /\ q.closing = a.closing /\ prev \in Nat /\ c \in Nat
  /\ q.latch = [a.latch EXCEPT ![s] = IF c = 0 THEN prev ELSE c]
  /\ q.armed = [a.armed EXCEPT ![s] = IF @ = "unknown"
                  THEN IF a.latch[s] = 0 \/ r < a.latch[s] THEN "yes" ELSE "no" ELSE @]
  /\ q.fires = IF c = 0 THEN a.fires
               ELSE Append(a.fires, [scope |-> s, threshold |-> c, window |-> a.window])
  /\ q.out = IF c = 0 THEN a.out ELSE a.out \cup {Len(a.fires) + 1}

LEMMA ObserveFields ==
  ASSUME NEW a, Alerting(a), NEW s \in Scopes, NEW r \in Nat
  PROVE  ObservedAs(a, s, r, Prev(a, s, r), Crossed(s, r, Prev(a, s, r)), Observe(a, s, r))
<1> DEFINE prev == Prev(a, s, r)
           c == Crossed(s, r, prev)
           l == [a.latch EXCEPT ![s] = IF c = 0 THEN prev ELSE c]
           m == [a.armed EXCEPT ![s] = IF @ = "unknown"
                   THEN IF a.latch[s] = 0 \/ r < a.latch[s] THEN "yes" ELSE "no" ELSE @]
           fire == [scope |-> s, threshold |-> c, window |-> a.window]
           f == IF c = 0 THEN a.fires ELSE Append(a.fires, fire)
           o == IF c = 0 THEN a.out ELSE a.out \cup {Len(a.fires) + 1}
           q == [[[[a EXCEPT !.latch = l] EXCEPT !.armed = m] EXCEPT !.fires = f] EXCEPT !.out = o]
<1>1. a \in AlertState
  BY DEF Alerting
<1>2. /\ a.latch \in [Scopes -> Nat] /\ a.armed \in [Scopes -> Armings] /\ a.fires \in Seq(Fires) /\ a.out \subseteq Nat
      /\ a.window \in Nat
  BY <1>1, AlertAssumption DEF AlertState
<1>3. prev \in Nat
  BY <1>2 DEF Prev
<1>4. c \in Nat
  <2> HIDE DEF prev
  <2> QED
    BY <1>3, CrossedFacts
<1>5. Observe(a, s, r) = q
  BY <1>1 DEF Observe, AlertState
<1> HIDE DEF prev, c
<1>6. l \in [Scopes -> Nat] /\ m \in [Scopes -> Armings]
  BY <1>2, <1>3, <1>4 DEF Armings
<1>7. f \in Seq(Fires) /\ o \subseteq Nat
  <2>1. fire \in Fires
    BY <1>2, <1>4 DEF Fires
  <2> HIDE DEF fire
  <2> QED
    BY <1>2, <2>1
<1> HIDE DEF l, m, f, o
<1>8. q \in AlertState
  BY <1>1, <1>6, <1>7 DEF AlertState
<1>9. /\ q.spent = a.spent /\ q.window = a.window /\ q.pc = a.pc /\ q.read = a.read
      /\ q.recent = a.recent /\ q.closing = a.closing /\ q.latch = l /\ q.armed = m /\ q.fires = f /\ q.out = o
  BY <1>1 DEF AlertState
<1> QED
  BY <1>3, <1>4, <1>5, <1>8, <1>9 DEF ObservedAs, l, m, f, o, c, prev

LEMMA ObserveKeeps ==
  ASSUME NEW a, Alerting(a), NEW s \in Scopes, NEW r \in Nat
  PROVE  LET q == Observe(a, s, r)
         IN /\ Alerting(q) /\ q.spent = a.spent /\ q.pc = a.pc /\ q.read = a.read
            /\ \A u \in Scopes, t \in Nat : Fired(a, u, t) => Fired(q, u, t)
            /\ \A u \in Scopes : q.armed[u] # "no" => a.armed[u] # "no"
            /\ \A t \in Thresholds[s] : IsTop(s, a.spent[s], t) /\ t <= r /\ r <= a.spent[s] /\ q.armed[s] # "no"
                                          => Fired(q, s, t)
<1> DEFINE q == Observe(a, s, r)
           prev == Prev(a, s, r)
           c == Crossed(s, r, prev)
           fire == [scope |-> s, threshold |-> c, window |-> a.window]
<1>1. /\ q \in AlertState /\ q.spent = a.spent /\ q.window = a.window /\ q.pc = a.pc /\ q.read = a.read
      /\ q.recent = a.recent /\ q.closing = a.closing /\ prev \in Nat /\ c \in Nat
      /\ q.latch = [a.latch EXCEPT ![s] = IF c = 0 THEN prev ELSE c]
      /\ q.armed = [a.armed EXCEPT ![s] = IF @ = "unknown"
                      THEN IF a.latch[s] = 0 \/ r < a.latch[s] THEN "yes" ELSE "no" ELSE @]
      /\ q.fires = IF c = 0 THEN a.fires ELSE Append(a.fires, fire)
      /\ q.out = IF c = 0 THEN a.out ELSE a.out \cup {Len(a.fires) + 1}
  <2>1. ObservedAs(a, s, r, prev, c, q)
    BY ObserveFields
  <2> HIDE DEF q, prev, c
  <2> QED
    BY <2>1 DEF ObservedAs
<1>2. /\ a \in AlertState /\ a.latch \in [Scopes -> Nat] /\ a.armed \in [Scopes -> Armings] /\ a.fires \in Seq(Fires)
      /\ a.spent \in [Scopes -> Nat] /\ a.out \subseteq DOMAIN a.fires /\ Len(a.recent) <= RecentCap
  BY DEF Alerting, AlertState
<1>3. Thresholds[s] \subseteq Nat \ {0} /\ a.latch[s] \in Thresholds[s] \cup {0} /\ Heard(a, s)
  BY AlertAssumption DEF Alerting
<1>4. prev = 0 \/ (prev = a.latch[s] /\ r >= a.latch[s])
  <2>1. a.latch[s] \in Nat
    BY <1>2
  <2> QED
    BY <2>1 DEF Prev
<1>5. /\ c = 0 => \A t \in Thresholds[s] : ~(r >= t /\ t > prev)
      /\ c # 0 => /\ c \in Thresholds[s] /\ r >= c /\ c > prev
                  /\ \A t \in Thresholds[s] : r >= t /\ t > prev => t <= c
  <2>1. prev \in Nat
    BY <1>1
  <2> HIDE DEF prev
  <2> QED
    BY <2>1, CrossedFacts
<1> HIDE DEF q, c, prev
<1>6. \A u \in Scopes, t \in Nat : Fired(a, u, t) => Fired(q, u, t)
  <2> SUFFICES ASSUME NEW u \in Scopes, NEW t \in Nat, Fired(a, u, t) PROVE Fired(q, u, t)
    OBVIOUS
  <2>1. PICK i \in DOMAIN a.fires : a.fires[i].scope = u /\ a.fires[i].threshold = t /\ a.fires[i].window = a.window
    BY DEF Fired
  <2>2. i \in DOMAIN q.fires /\ q.fires[i] = a.fires[i]
    BY <1>1, <1>2
  <2> QED
    BY <1>1, <2>1, <2>2 DEF Fired
<1>7. c # 0 => Fired(q, s, c)
  <2> SUFFICES ASSUME c # 0 PROVE Fired(q, s, c)
    OBVIOUS
  <2>1. Len(a.fires) + 1 \in DOMAIN q.fires /\ q.fires[Len(a.fires) + 1] = fire
    BY <1>1, <1>2
  <2> QED
    BY <1>1, <2>1 DEF Fired
<1>8. q.out \subseteq DOMAIN q.fires
  <2>1. CASE c = 0
    BY <1>1, <1>2, <2>1
  <2>2. CASE c # 0
    <3>1. q.fires = Append(a.fires, fire) /\ q.out = a.out \cup {Len(a.fires) + 1}
      BY <1>1, <2>2
    <3>2. DOMAIN q.fires = 1..(Len(a.fires) + 1) /\ DOMAIN a.fires = 1..Len(a.fires) /\ Len(a.fires) \in Nat
      BY <1>2, <3>1
    <3> QED
      BY <1>2, <3>1, <3>2
  <2> QED
    BY <2>1, <2>2
<1>9. /\ \A u \in Scopes : u # s => q.latch[u] = a.latch[u] /\ q.armed[u] = a.armed[u]
      /\ q.latch[s] = IF c = 0 THEN prev ELSE c
      /\ q.armed[s] = IF a.armed[s] = "unknown" THEN IF a.latch[s] = 0 \/ r < a.latch[s] THEN "yes" ELSE "no"
                      ELSE a.armed[s]
  BY <1>1, <1>2
\* A latch that this reading does not move was there before.
<1>10. prev # 0 /\ q.armed[s] = "yes" => prev = a.latch[s] /\ Fired(q, s, prev)
  <2> SUFFICES ASSUME prev # 0, q.armed[s] = "yes" PROVE prev = a.latch[s] /\ Fired(q, s, prev)
    OBVIOUS
  <2>1. prev = a.latch[s] /\ r >= a.latch[s] /\ a.latch[s] # 0 /\ a.latch[s] \in Nat
    BY <1>2, <1>4
  <2>2. ~(a.latch[s] = 0 \/ r < a.latch[s])
    BY <2>1
  <2>3. a.armed[s] = "yes"
    BY <1>9, <2>2
  <2>4. Fired(a, s, a.latch[s])
    BY <1>3, <2>1, <2>3 DEF Heard
  <2> QED
    BY <1>6, <2>1, <2>4
<1>11. \A u \in Scopes : q.latch[u] \in Thresholds[u] \cup {0} /\ Heard(q, u)
  <2> SUFFICES ASSUME NEW u \in Scopes PROVE q.latch[u] \in Thresholds[u] \cup {0} /\ Heard(q, u)
    OBVIOUS
  <2>1. CASE u # s
    <3>1. a.latch[u] \in Thresholds[u] \cup {0} /\ Heard(a, u) /\ a.latch[u] \in Nat
      BY <1>2 DEF Alerting
    <3> QED
      BY <1>6, <1>9, <2>1, <3>1 DEF Heard
  <2>2. CASE u = s
    <3>1. q.latch[s] \in Thresholds[s] \cup {0}
      BY <1>3, <1>4, <1>5, <1>9
    <3>2. Heard(q, s)
      BY <1>7, <1>9, <1>10 DEF Heard
    <3> QED
      BY <2>2, <3>1, <3>2
  <2> QED
    BY <2>1, <2>2
<1>12. Alerting(q)
  BY <1>1, <1>2, <1>8, <1>11 DEF Alerting
<1>13. ASSUME NEW t \in Thresholds[s], IsTop(s, a.spent[s], t), t <= r, r <= a.spent[s], q.armed[s] # "no"
       PROVE  Fired(q, s, t)
  <2>1. t \in Nat /\ t > 0 /\ a.spent[s] \in Nat
    BY <1>2, <1>3
  <2>2. CASE prev < t
    <3>1. c # 0 /\ t <= c
      BY <1>1, <1>5, <1>13, <2>1, <2>2
    <3>2. c <= t
      BY <1>1, <1>5, <1>13, <2>1, <3>1 DEF IsTop
    <3>3. c = t
      BY <1>1, <2>1, <3>1, <3>2
    <3> QED
      BY <1>7, <3>1, <3>3
  <2>3. CASE ~(prev < t)
    <3>1. prev # 0 /\ prev = a.latch[s] /\ r >= prev
      BY <1>1, <1>4, <2>1, <2>3
    <3>2. prev \in Thresholds[s] /\ a.spent[s] >= prev
      BY <1>1, <1>3, <1>13, <2>1, <3>1
    <3>3. prev = t
      BY <1>1, <1>13, <2>1, <2>3, <3>2 DEF IsTop
    <3>4. q.armed[s] = "yes"
      BY <1>1, <1>2, <1>9, <1>13 DEF Armings
    <3> QED
      BY <1>10, <3>1, <3>3, <3>4
  <2> QED
    BY <2>2, <2>3
<1>14. \A u \in Scopes : q.armed[u] # "no" => a.armed[u] # "no"
  BY <1>9
<1> QED
  BY <1>1, <1>6, <1>12, <1>13, <1>14 DEF q

-----------------------------------------------------------------------------
(* The steps of a settlement. *)

SameNotifier(a, q) ==
  /\ q.window = a.window /\ q.latch = a.latch /\ q.armed = a.armed /\ q.fires = a.fires /\ q.out = a.out
  /\ q.recent = a.recent

LEMMA NotifierKept ==
  ASSUME NEW a, Alerting(a), NEW q \in AlertState, SameNotifier(a, q)
  PROVE  Alerting(q) /\ \A u \in Scopes, t \in Nat : Fired(a, u, t) => Fired(q, u, t)
<1>1. \A u \in Scopes : \A t : Fired(a, u, t) => Fired(q, u, t)
  BY DEF Fired, SameNotifier
<1>2. \A u \in Scopes : q.latch[u] \in Thresholds[u] \cup {0} /\ Heard(q, u)
  BY <1>1 DEF Alerting, Heard, SameNotifier
<1> QED
  BY <1>1, <1>2 DEF Alerting, SameNotifier

\* Only settlement x has moved.
OthersStay(a, q, x) ==
  \A y \in Settlements : y # x => q.pc[y] = a.pc[y] /\ q.read[y].saw = a.read[y].saw

LEMMA OthersPend ==
  ASSUME NEW a, NEW q, NEW x \in Settlements, OthersStay(a, q, x), NEW u \in Scopes, NEW t,
         q.spent[u] = a.spent[u], Pending(a, u, t), a.pc[x] # DebitedPc(u), a.pc[x] # ReadPc(u)
  PROVE  Pending(q, u, t)
<1>1. PICK y \in Settlements : \/ a.pc[y] = DebitedPc(u)
                               \/ a.pc[y] = ReadPc(u) /\ a.read[y].saw >= t /\ a.read[y].saw <= a.spent[u]
  BY DEF Pending
<1>2. y # x
  BY <1>1
<1> QED
  BY <1>1, <1>2 DEF Pending, OthersStay

LEMMA PcsDiffer ==
  ASSUME NEW s \in Scopes, NEW u \in Scopes
  PROVE  /\ DebitedPc(s) \notin {"start", "key", "settled"} /\ ReadPc(s) \notin {"start", "key", "settled"}
         /\ DebitedPc(s) # ReadPc(u) /\ (s # u => DebitedPc(s) # DebitedPc(u) /\ ReadPc(s) # ReadPc(u))
         /\ DebitedPc(s) \in SettlePcs /\ ReadPc(s) \in SettlePcs
BY DEF Scopes, DebitedPc, ReadPc, SettlePcs

LEMMA ThresholdsArePositive == \A s \in Scopes : Thresholds[s] \subseteq Nat \ {0}
BY AlertAssumption

LEMMA DebitKeeps ==
  ASSUME NEW a, Keeping(a), NEW x \in Settlements, NEW s \in Scopes, a.pc[x] \in {"start", "key"},
         NEW q \in AlertState, SameNotifier(a, q), OthersStay(a, q, x), q.pc[x] = DebitedPc(s),
         \A u \in Scopes : u # s => q.spent[u] = a.spent[u]
  PROVE  Keeping(q)
<1>1. Alerting(q) /\ \A u \in Scopes, t \in Nat : Fired(a, u, t) => Fired(q, u, t)
  BY NotifierKept DEF Keeping
<1>2. ASSUME NEW u \in Scopes, q.armed[u] # "no", NEW t \in Thresholds[u], IsTop(u, q.spent[u], t)
      PROVE  Fired(q, u, t) \/ Pending(q, u, t)
  <2>1. CASE u = s
    BY <2>1 DEF Pending
  <2>2. CASE u # s
    <3>1. q.spent[u] = a.spent[u] /\ a.armed[u] # "no" /\ t \in Nat
      BY <1>2, <2>2, ThresholdsArePositive DEF SameNotifier
    <3>2. Fired(a, u, t) \/ Pending(a, u, t)
      BY <1>2, <3>1 DEF Keeping, OnItsWay
    <3>3. a.pc[x] # DebitedPc(u) /\ a.pc[x] # ReadPc(u)
      BY PcsDiffer
    <3> QED
      BY <1>1, <3>1, <3>2, <3>3, OthersPend
  <2> QED
    BY <2>1, <2>2
<1> QED
  BY <1>1, <1>2 DEF Keeping, OnItsWay

LEMMA ReadKeeps ==
  ASSUME NEW a, Keeping(a), NEW x \in Settlements, NEW s \in Scopes, a.pc[x] = DebitedPc(s),
         NEW q \in AlertState, SameNotifier(a, q), OthersStay(a, q, x), q.pc[x] = ReadPc(s),
         q.read[x].saw = a.spent[s], q.spent = a.spent
  PROVE  Keeping(q)
<1>1. Alerting(q) /\ \A u \in Scopes, t \in Nat : Fired(a, u, t) => Fired(q, u, t)
  BY NotifierKept DEF Keeping
<1>2. ASSUME NEW u \in Scopes, q.armed[u] # "no", NEW t \in Thresholds[u], IsTop(u, q.spent[u], t)
      PROVE  Fired(q, u, t) \/ Pending(q, u, t)
  <2>1. CASE u = s
    <3>1. q.spent[s] \in Nat /\ q.spent[s] >= t
      BY <1>2, <2>1 DEF IsTop, AlertState
    <3>2. q.read[x].saw >= t /\ q.read[x].saw <= q.spent[s]
      BY <3>1
    <3> QED
      BY <2>1, <3>2 DEF Pending
  <2>2. CASE u # s
    <3>1. q.spent[u] = a.spent[u] /\ a.armed[u] # "no" /\ t \in Nat
      BY <1>2, <2>2, ThresholdsArePositive DEF SameNotifier
    <3>2. Fired(a, u, t) \/ Pending(a, u, t)
      BY <1>2, <3>1 DEF Keeping, OnItsWay
    <3>3. a.pc[x] # DebitedPc(u) /\ a.pc[x] # ReadPc(u)
      BY <2>2, PcsDiffer
    <3> QED
      BY <1>1, <3>1, <3>2, <3>3, OthersPend
  <2> QED
    BY <2>1, <2>2
<1> QED
  BY <1>1, <1>2 DEF Keeping, OnItsWay

\* The reading is handed over: a has moved on already, o is what the notifier makes of it.
LEMMA NotifyKeeps ==
  ASSUME NEW a, Keeping(a), NEW x \in Settlements, NEW s \in Scopes, a.pc[x] = ReadPc(s),
         NEW m \in AlertState, SameNotifier(a, m), OthersStay(a, m, x), m.spent = a.spent,
         NEW o, o = Observe(m, s, a.read[x].saw),
         NEW q \in AlertState, SameNotifier(o, q), OthersStay(o, q, x), q.spent = o.spent
  PROVE  Keeping(q)
<1>1. Alerting(m) /\ \A u \in Scopes, t \in Nat : Fired(a, u, t) => Fired(m, u, t)
  BY NotifierKept DEF Keeping
<1>2. a \in AlertState /\ a.read[x].saw \in Nat
  BY DEF Keeping, Alerting, AlertState
<1>3. /\ Alerting(o) /\ o.spent = m.spent /\ o.pc = m.pc /\ o.read = m.read
      /\ \A u \in Scopes, t \in Nat : Fired(m, u, t) => Fired(o, u, t)
      /\ \A u \in Scopes : o.armed[u] # "no" => m.armed[u] # "no"
      /\ \A t \in Thresholds[s] : /\ IsTop(s, m.spent[s], t) /\ t <= a.read[x].saw /\ a.read[x].saw <= m.spent[s]
                                   /\ o.armed[s] # "no"
                                   => Fired(o, s, t)
  BY <1>1, <1>2, ObserveKeeps
<1>4. Alerting(q) /\ \A u \in Scopes, t \in Nat : Fired(o, u, t) => Fired(q, u, t)
  BY <1>3, NotifierKept
<1>5. ASSUME NEW u \in Scopes, q.armed[u] # "no", NEW t \in Thresholds[u], IsTop(u, q.spent[u], t)
      PROVE  Fired(q, u, t) \/ Pending(q, u, t)
  <2>1. q.spent[u] = a.spent[u] /\ a.armed[u] # "no" /\ o.armed[u] # "no" /\ t \in Nat
    BY <1>3, <1>5, ThresholdsArePositive DEF SameNotifier
  <2>2. Fired(a, u, t) \/ Pending(a, u, t)
    BY <1>5, <2>1 DEF Keeping, OnItsWay
  <2>3. CASE Fired(a, u, t)
    BY <1>1, <1>3, <1>4, <2>1, <2>3
  <2>4. CASE Pending(a, u, t)
    <3>1. PICK y \in Settlements : \/ a.pc[y] = DebitedPc(u)
                                   \/ a.pc[y] = ReadPc(u) /\ a.read[y].saw >= t /\ a.read[y].saw <= a.spent[u]
      BY <2>4 DEF Pending
    <3>2. CASE y = x
      <4>1. u = s
        BY <3>1, <3>2, PcsDiffer
      <4>2. a.read[x].saw >= t /\ a.read[x].saw <= a.spent[s]
        BY <3>1, <3>2, <4>1, PcsDiffer
      <4>3. t <= a.read[x].saw /\ IsTop(s, m.spent[s], t) /\ a.read[x].saw <= m.spent[s]
        BY <1>2, <1>5, <2>1, <4>1, <4>2
      <4>4. Fired(o, s, t)
        BY <1>3, <1>5, <2>1, <4>1, <4>3
      <4> QED
        BY <1>4, <2>1, <4>1, <4>4
    <3>3. CASE y # x
      <4>1. q.pc[y] = a.pc[y] /\ q.read[y].saw = a.read[y].saw
        BY <1>3, <3>3 DEF OthersStay
      <4> QED
        BY <2>1, <3>1, <4>1 DEF Pending
    <3> QED
      BY <3>2, <3>3
  <2> QED
    BY <2>2, <2>3, <2>4
<1> QED
  BY <1>4, <1>5 DEF Keeping, OnItsWay

LEMMA MovedFields ==
  ASSUME al \in AlertState, NEW x \in Settlements, NEW pc \in SettlePcs
  PROVE  /\ Moved(x, pc) \in AlertState /\ SameNotifier(al, Moved(x, pc)) /\ Moved(x, pc).spent = al.spent
         /\ Moved(x, pc).read = al.read /\ Moved(x, pc).closing = al.closing
         /\ Moved(x, pc).pc = [al.pc EXCEPT ![x] = pc] /\ Moved(x, pc).pc[x] = pc
         /\ OthersStay(al, Moved(x, pc), x)
<1> DEFINE p == [al.pc EXCEPT ![x] = pc]
           q == [al EXCEPT !.pc = p]
<1>1. Moved(x, pc) = q
  BY DEF Moved, AlertState
<1>2. p \in [Settlements -> SettlePcs] /\ p[x] = pc /\ \A y \in Settlements : y # x => p[y] = al.pc[y]
  BY DEF AlertState
<1> HIDE DEF p
<1>3. q \in AlertState
  BY <1>2 DEF AlertState
<1>4. SameNotifier(al, q) /\ q.spent = al.spent /\ q.read = al.read /\ q.closing = al.closing /\ q.pc = p
  BY DEF AlertState, SameNotifier
<1> HIDE DEF q
<1> QED
  BY <1>1, <1>2, <1>3, <1>4 DEF OthersStay, p

\* A later change of one settlement's notes.
LEMMA NotedFields ==
  ASSUME NEW m \in AlertState, NEW x \in Settlements, NEW note \in [cost : Nat, saw : Nat]
  PROVE  LET q == [m EXCEPT !.read[x] = note]
         IN /\ q \in AlertState /\ SameNotifier(m, q) /\ q.spent = m.spent /\ q.pc = m.pc /\ q.closing = m.closing
            /\ q.read[x] = note /\ OthersStay(m, q, x)
<1> DEFINE n == [m.read EXCEPT ![x] = note]
           q == [m EXCEPT !.read = n]
<1>1. [m EXCEPT !.read[x] = note] = q
  BY DEF AlertState
<1>2. n \in [Settlements -> [cost : Nat, saw : Nat]] /\ n[x] = note /\ \A y \in Settlements : y # x => n[y] = m.read[y]
  <2>1. m.read \in [Settlements -> [cost : Nat, saw : Nat]]
    BY DEF AlertState
  <2> QED
    BY <2>1
<1> HIDE DEF n
<1>3. q \in AlertState
  BY <1>2 DEF AlertState
<1>4. SameNotifier(m, q) /\ q.spent = m.spent /\ q.pc = m.pc /\ q.closing = m.closing /\ q.read = n
  BY DEF AlertState, SameNotifier
<1> HIDE DEF q
<1> QED
  BY <1>1, <1>2, <1>3, <1>4 DEF OthersStay

\* A later change of one counter.
LEMMA SpentFields ==
  ASSUME NEW m \in AlertState, NEW s \in Scopes, NEW c \in Nat
  PROVE  LET q == [m EXCEPT !.spent[s] = @ + c]
         IN /\ q \in AlertState /\ SameNotifier(m, q) /\ q.read = m.read /\ q.pc = m.pc /\ q.closing = m.closing
            /\ \A u \in Scopes : u # s => q.spent[u] = m.spent[u]
<1> DEFINE n == [m.spent EXCEPT ![s] = m.spent[s] + c]
           q == [m EXCEPT !.spent = n]
<1>1. [m EXCEPT !.spent[s] = @ + c] = q
  BY DEF AlertState
<1>2. n \in [Scopes -> Nat] /\ \A u \in Scopes : u # s => n[u] = m.spent[u]
  <2>1. m.spent \in [Scopes -> Nat] /\ m.spent[s] + c \in Nat
    BY DEF AlertState
  <2> QED
    BY <2>1
<1> HIDE DEF n
<1>3. q \in AlertState
  BY <1>2 DEF AlertState
<1>4. SameNotifier(m, q) /\ q.read = m.read /\ q.pc = m.pc /\ q.closing = m.closing /\ q.spent = n
  BY DEF AlertState, SameNotifier
<1> HIDE DEF q
<1> QED
  BY <1>1, <1>2, <1>3, <1>4

LEMMA NotesAreTyped ==
  ASSUME al \in AlertState, NEW x \in Settlements
  PROVE  al.read[x] \in [cost : Nat, saw : Nat] /\ al.read[x].cost \in Nat /\ al.read[x].saw \in Nat
BY DEF AlertState

LEMMA ScopePcs ==
  /\ "team" \in Scopes /\ "key" \in Scopes /\ "team" # "key"
  /\ DebitedPc("team") = "team_debited" /\ ReadPc("team") = "team_read"
  /\ DebitedPc("key") = "key_debited" /\ ReadPc("key") = "key_read"
  /\ "key" \in SettlePcs /\ "settled" \in SettlePcs
BY DEF Scopes, DebitedPc, ReadPc, SettlePcs

LEMMA DebitStep ==
  ASSUME AlertsInv, NEW x \in Settlements, DebitTeam(x) \/ DebitKey(x)
  PROVE  Keeping(al')
<1>1. al \in AlertState /\ Keeping(al)
  BY DEF AlertsInv, Keeping, Alerting
<1>2. CASE DebitTeam(x)
  <2>1. PICK c \in Costs : al' = [Moved(x, "team_debited") EXCEPT !.spent["team"] = @ + c, !.read[x].cost = c]
    BY <1>2 DEF DebitTeam
  <2> DEFINE m == Moved(x, "team_debited")
             p == [m EXCEPT !.spent["team"] = @ + c]
             note == [al.read[x] EXCEPT !.cost = c]
             q == [p EXCEPT !.read[x] = note]
  <2>2. c \in Nat /\ "team_debited" \in SettlePcs
    BY AlertAssumption DEF SettlePcs
  <2>3. /\ m \in AlertState /\ SameNotifier(al, m) /\ m.spent = al.spent /\ m.read = al.read
        /\ m.pc[x] = "team_debited" /\ OthersStay(al, m, x)
    BY <1>1, <2>2, MovedFields
  <2> HIDE DEF m
  <2>4. /\ p \in AlertState /\ SameNotifier(m, p) /\ p.read = m.read /\ p.pc = m.pc
        /\ \A u \in Scopes : u # "team" => p.spent[u] = m.spent[u]
    BY <2>2, <2>3, ScopePcs, SpentFields
  <2>5. note \in [cost : Nat, saw : Nat]
    BY <1>1, <2>2, NotesAreTyped
  <2>6. al' = q
    <3>1. al' = [m EXCEPT !.spent["team"] = @ + c, !.read[x].cost = c]
      BY <2>1 DEF m
    <3>2. m.read[x] = al.read[x]
      BY <2>3
    <3> QED
      BY <2>3, <3>1, <3>2 DEF AlertState
  <2> HIDE DEF p, note
  <2>7. /\ q \in AlertState /\ SameNotifier(p, q) /\ q.spent = p.spent /\ q.pc = p.pc /\ OthersStay(p, q, x)
    BY <2>4, <2>5, NotedFields
  <2> HIDE DEF q
  <2>8. /\ SameNotifier(al, q) /\ OthersStay(al, q, x) /\ q.pc[x] = DebitedPc("team")
        /\ \A u \in Scopes : u # "team" => q.spent[u] = al.spent[u]
    BY <2>3, <2>4, <2>7, ScopePcs DEF SameNotifier, OthersStay
  <2>9. al.pc[x] \in {"start", "key"}
    BY <1>2 DEF DebitTeam, At
  <2> QED
    BY <1>1, <2>6, <2>7, <2>8, <2>9, ScopePcs, DebitKeeps
<1>3. CASE DebitKey(x)
  <2> DEFINE c == al.read[x].cost
             m == Moved(x, "key_debited")
             q == [m EXCEPT !.spent["key"] = @ + c]
  <2>1. c \in Nat /\ "key_debited" \in SettlePcs
    BY <1>1, NotesAreTyped DEF SettlePcs
  <2>2. al' = q
    BY <1>3 DEF DebitKey
  <2>3. /\ m \in AlertState /\ SameNotifier(al, m) /\ m.spent = al.spent /\ m.read = al.read
        /\ m.pc[x] = "key_debited" /\ OthersStay(al, m, x)
    BY <1>1, <2>1, MovedFields
  <2> HIDE DEF m, c
  <2>4. /\ q \in AlertState /\ SameNotifier(m, q) /\ q.read = m.read /\ q.pc = m.pc
        /\ \A u \in Scopes : u # "key" => q.spent[u] = m.spent[u]
    BY <2>1, <2>3, ScopePcs, SpentFields
  <2> HIDE DEF q
  <2>5. /\ SameNotifier(al, q) /\ OthersStay(al, q, x) /\ q.pc[x] = DebitedPc("key")
        /\ \A u \in Scopes : u # "key" => q.spent[u] = al.spent[u]
    BY <2>3, <2>4, ScopePcs DEF SameNotifier, OthersStay
  <2>6. al.pc[x] \in {"start", "key"}
    BY <1>3 DEF DebitKey, At
  <2> QED
    BY <1>1, <2>2, <2>4, <2>5, <2>6, ScopePcs, DebitKeeps
<1> QED
  BY <1>2, <1>3

LEMMA ReadStep ==
  ASSUME AlertsInv, NEW x \in Settlements, NEW s \in Scopes, al.pc[x] = DebitedPc(s),
         al' = [Moved(x, ReadPc(s)) EXCEPT !.read[x].saw = al.spent[s]]
  PROVE  Keeping(al')
<1>1. al \in AlertState /\ Keeping(al) /\ ReadPc(s) \in SettlePcs
  BY PcsDiffer DEF AlertsInv, Keeping, Alerting
<1> DEFINE m == Moved(x, ReadPc(s))
           note == [al.read[x] EXCEPT !.saw = al.spent[s]]
           q == [m EXCEPT !.read[x] = note]
<1>2. /\ m \in AlertState /\ SameNotifier(al, m) /\ m.spent = al.spent /\ m.read = al.read
      /\ m.pc[x] = ReadPc(s) /\ OthersStay(al, m, x)
  BY <1>1, MovedFields
<1>3. note \in [cost : Nat, saw : Nat] /\ note.saw = al.spent[s]
  <2>1. al.spent[s] \in Nat
    BY <1>1 DEF AlertState
  <2> QED
    BY <1>1, <2>1, NotesAreTyped
<1>4. al' = q
  <2> HIDE DEF m
  <2>1. al' = [m EXCEPT !.read[x].saw = al.spent[s]] /\ m.read[x] = al.read[x]
    BY <1>2 DEF m
  <2> QED
    BY <1>2, <2>1 DEF AlertState
<1> HIDE DEF m, note
<1>5. /\ q \in AlertState /\ SameNotifier(m, q) /\ q.spent = m.spent /\ q.pc = m.pc
      /\ q.read[x] = note /\ OthersStay(m, q, x)
  BY <1>2, <1>3, NotedFields
<1> HIDE DEF q
<1>6. /\ SameNotifier(al, q) /\ OthersStay(al, q, x) /\ q.pc[x] = ReadPc(s) /\ q.read[x].saw = al.spent[s]
      /\ q.spent = al.spent
  BY <1>2, <1>3, <1>5 DEF SameNotifier, OthersStay
<1> QED
  BY <1>1, <1>4, <1>5, <1>6, ReadKeeps

LEMMA NotifyStep ==
  ASSUME AlertsInv, NEW x \in Settlements, NEW s \in Scopes, al.pc[x] = ReadPc(s), NEW pc \in SettlePcs,
         al' = [Observe(Moved(x, pc), s, al.read[x].saw) EXCEPT !.read[x].saw = 0]
  PROVE  Keeping(al')
<1>1. al \in AlertState /\ Keeping(al) /\ Alerting(al)
  BY DEF AlertsInv, Keeping, Alerting
<1> DEFINE m == Moved(x, pc)
           r == al.read[x].saw
           o == Observe(m, s, r)
           note == [al.read[x] EXCEPT !.saw = 0]
           q == [o EXCEPT !.read[x] = note]
<1>2. /\ m \in AlertState /\ SameNotifier(al, m) /\ m.spent = al.spent /\ m.read = al.read /\ OthersStay(al, m, x)
  BY <1>1, MovedFields
<1>3. note \in [cost : Nat, saw : Nat] /\ r \in Nat
  BY <1>1, NotesAreTyped
<1> HIDE DEF m, r
<1>4. Alerting(m)
  BY <1>1, <1>2, NotifierKept
<1>5. o \in AlertState /\ o.spent = m.spent /\ o.pc = m.pc /\ o.read = m.read
  BY <1>3, <1>4, ObserveKeeps DEF Alerting
<1>6. al' = q
  <2> HIDE DEF o
  <2>1. al' = [o EXCEPT !.read[x].saw = 0] /\ o.read[x] = al.read[x]
    BY <1>2, <1>5 DEF o, m, r
  <2> QED
    BY <1>5, <2>1 DEF AlertState
<1>7. o = Observe(m, s, al.read[x].saw)
  BY DEF r
<1> HIDE DEF o, note
<1>8. /\ q \in AlertState /\ SameNotifier(o, q) /\ q.spent = o.spent /\ OthersStay(o, q, x)
  BY <1>3, <1>5, NotedFields
<1> HIDE DEF q
<1> QED
  BY <1>1, <1>2, <1>6, <1>7, <1>8, NotifyKeeps

-----------------------------------------------------------------------------
(* The month ends, a delivery returns, the notifier closes. *)

\* The counters start again: no threshold is reached, and nothing is known of the latches.
LEMMA RollOverStep ==
  ASSUME AlertsInv, RollOver
  PROVE  Keeping(al')
<1>1. al \in AlertState /\ Alerting(al)
  BY DEF AlertsInv, Keeping, Alerting
<1> DEFINE z == [s \in Scopes |-> 0]
           k == [s \in Scopes |-> "unknown"]
           w == al.window + 1
<1>2. al' = [al EXCEPT !.window = w, !.spent = z, !.armed = k]
  BY DEF RollOver
<1>3. w \in 0..LastWindow /\ z \in [Scopes -> Nat] /\ k \in [Scopes -> Armings]
  BY <1>1, AlertAssumption DEF RollOver, AlertState, Armings
<1>4. \A s \in Scopes : z[s] = 0 /\ k[s] = "unknown"
  OBVIOUS
<1> HIDE DEF z, k, w
<1>5. /\ al' \in AlertState /\ al'.spent = z /\ al'.armed = k /\ al'.latch = al.latch /\ al'.fires = al.fires
      /\ al'.out = al.out /\ al'.recent = al.recent
  BY <1>1, <1>2, <1>3 DEF AlertState
<1>6. Alerting(al')
  BY <1>1, <1>4, <1>5 DEF Alerting, Heard
<1>7. \A s \in Scopes : \A t \in Thresholds[s] : ~IsTop(s, al'.spent[s], t)
  BY <1>4, <1>5, ThresholdsArePositive DEF IsTop
<1> QED
  BY <1>6, <1>7 DEF Keeping, OnItsWay

\* The list of recent deliveries keeps its bound.
LEMMA RecordedBounded ==
  ASSUME NEW recent \in Seq(Deliveries), NEW f \in Deliveries
  PROVE  Recorded(recent, f) \in Seq(Deliveries) /\ Len(Recorded(recent, f)) <= RecentCap
<1> DEFINE l == <<f>> \o recent
           n == IF Len(recent) + 1 < RecentCap THEN Len(recent) + 1 ELSE RecentCap
<1>1. l \in Seq(Deliveries) /\ Len(l) = Len(recent) + 1 /\ Len(recent) \in Nat
  <2>1. <<f>> \in Seq(Deliveries) /\ Len(<<f>>) = 1
    OBVIOUS
  <2> QED
    BY <2>1, ConcatProperties
<1>2. n \in Nat /\ n >= 1 /\ n <= RecentCap /\ n <= Len(recent) + 1
  BY <1>1, AlertAssumption
<1> HIDE DEF n, l
<1>3. \A i \in 1..n : l[i] \in Deliveries
  BY <1>1, <1>2, ElementOfSeq
<1>4. SubSeq(l, 1, n) \in Seq(Deliveries) /\ Len(SubSeq(l, 1, n)) = IF 1 <= n THEN n - 1 + 1 ELSE 0
  <2>1. 1 \in Int /\ n \in Int
    BY <1>2
  <2> QED
    BY <1>3, <2>1, SubSeqProperties
<1>5. Recorded(recent, f) = SubSeq(l, 1, n)
  BY DEF Recorded, l, n
<1> QED
  BY <1>2, <1>4, <1>5, AlertAssumption

\* What a step that leaves the counters, the latches and the settlements alone keeps.
LEMMA AsideKeeps ==
  ASSUME NEW a, Keeping(a), NEW q \in AlertState, q.spent = a.spent, q.window = a.window, q.latch = a.latch,
         q.armed = a.armed, q.fires = a.fires, q.pc = a.pc, q.read = a.read, q.out \subseteq a.out,
         Len(q.recent) <= RecentCap
  PROVE  Keeping(q)
<1>1. \A s \in Scopes : \A t : (Fired(a, s, t) => Fired(q, s, t)) /\ (Pending(a, s, t) => Pending(q, s, t))
  BY DEF Fired, Pending
<1>2. \A s \in Scopes : q.latch[s] \in Thresholds[s] \cup {0} /\ Heard(q, s)
  BY <1>1 DEF Keeping, Alerting, Heard
<1>3. \A s \in Scopes : OnItsWay(q, s)
  BY <1>1 DEF Keeping, OnItsWay
<1> QED
  BY <1>2, <1>3 DEF Keeping, Alerting

LEMMA DeliverStep ==
  ASSUME AlertsInv, Deliver
  PROVE  Keeping(al')
<1>1. al \in AlertState /\ Keeping(al)
  BY DEF AlertsInv, Keeping, Alerting
<1>2. PICK i \in al.out, delivered \in BOOLEAN :
        al' = [al EXCEPT !.out = @ \ {i}, !.recent = Recorded(@, [fire |-> i, delivered |-> delivered])]
  BY DEF Deliver
<1> DEFINE o == al.out \ {i}
           d == [fire |-> i, delivered |-> delivered]
           l == Recorded(al.recent, d)
<1>3. i \in Nat /\ o \subseteq Nat /\ o \subseteq al.out /\ al.recent \in Seq(Deliveries)
  BY <1>1 DEF AlertState
<1>4. d \in Deliveries
  BY <1>3 DEF Deliveries
<1>5. l \in Seq(Deliveries) /\ Len(l) <= RecentCap
  <2> HIDE DEF d
  <2> QED
    BY <1>3, <1>4, RecordedBounded
<1>6. al' = [al EXCEPT !.out = o, !.recent = l]
  BY <1>1, <1>2 DEF AlertState
<1> HIDE DEF o, l
<1>7. /\ al' \in AlertState /\ al'.spent = al.spent /\ al'.window = al.window /\ al'.latch = al.latch
      /\ al'.armed = al.armed /\ al'.fires = al.fires /\ al'.pc = al.pc /\ al'.read = al.read
      /\ al'.out = o /\ al'.recent = l
  BY <1>1, <1>3, <1>5, <1>6 DEF AlertState
<1> QED
  BY <1>1, <1>3, <1>5, <1>7, AsideKeeps

LEMMA CloseStep ==
  ASSUME AlertsInv, CloseNotifier
  PROVE  Keeping(al')
<1>1. al \in AlertState /\ Keeping(al) /\ Len(al.recent) <= RecentCap
  BY DEF AlertsInv, Keeping, Alerting
<1>2. al' = [al EXCEPT !.closing = TRUE]
  BY DEF CloseNotifier
<1>3. /\ al' \in AlertState /\ al'.spent = al.spent /\ al'.window = al.window /\ al'.latch = al.latch
      /\ al'.armed = al.armed /\ al'.fires = al.fires /\ al'.pc = al.pc /\ al'.read = al.read
      /\ al'.out = al.out /\ al'.recent = al.recent
  BY <1>1, <1>2 DEF AlertState
<1> QED
  BY <1>1, <1>3, AsideKeeps

-----------------------------------------------------------------------------
(* The notifier keeps up. *)

LEMMA AlertsStart == InitAlerts => AlertsInv
<1> SUFFICES ASSUME InitAlerts PROVE Keeping(al)
  BY DEF AlertsInv
<1> DEFINE z == [s \in Scopes |-> 0]
           k == [s \in Scopes |-> "unknown"]
           p == [x \in Settlements |-> "start"]
           n == [x \in Settlements |-> [cost |-> 0, saw |-> 0]]
<1>1. al = [spent |-> z, window |-> 0, latch |-> z, armed |-> k, fires |-> <<>>, out |-> {}, recent |-> <<>>,
            closing |-> FALSE, pc |-> p, read |-> n]
  BY DEF InitAlerts
<1>2. z \in [Scopes -> Nat] /\ k \in [Scopes -> Armings] /\ p \in [Settlements -> SettlePcs]
  BY DEF Armings, SettlePcs
<1>3. n \in [Settlements -> [cost : Nat, saw : Nat]]
  OBVIOUS
<1>4. \A s \in Scopes : z[s] = 0 /\ k[s] = "unknown"
  OBVIOUS
<1>5. 0 \in 0..LastWindow /\ 0 <= RecentCap /\ Len(<<>>) = 0
  BY AlertAssumption
<1> HIDE DEF z, k, p, n
<1>6. al \in AlertState
  BY <1>1, <1>2, <1>3, <1>5 DEF AlertState
<1>7. al.spent = z /\ al.latch = z /\ al.armed = k /\ al.out = {} /\ al.recent = <<>>
  BY <1>1
<1>8. Alerting(al)
  BY <1>4, <1>5, <1>6, <1>7 DEF Alerting, Heard
<1>9. \A s \in Scopes : \A t \in Thresholds[s] : ~IsTop(s, al.spent[s], t)
  BY <1>4, <1>7, ThresholdsArePositive DEF IsTop
<1> QED
  BY <1>8, <1>9 DEF Keeping, OnItsWay

LEMMA AlertsStep ==
  ASSUME AlertsInv, [NextAlerts]_al
  PROVE  AlertsInv'
<1> SUFFICES Keeping(al')
  BY DEF AlertsInv
<1>1. ASSUME NEW x \in Settlements, DebitTeam(x) \/ DebitKey(x) PROVE Keeping(al')
  BY <1>1, DebitStep
<1>2. ASSUME NEW x \in Settlements, ReadTeam(x) PROVE Keeping(al')
  BY <1>2, ReadStep, ScopePcs DEF ReadTeam, At
<1>3. ASSUME NEW x \in Settlements, ReadKey(x) PROVE Keeping(al')
  BY <1>3, ReadStep, ScopePcs DEF ReadKey, At
<1>4. ASSUME NEW x \in Settlements, NotifyTeam(x) PROVE Keeping(al')
  BY <1>4, NotifyStep, ScopePcs DEF NotifyTeam, At
<1>5. ASSUME NEW x \in Settlements, ObserveKey(x) PROVE Keeping(al')
  BY <1>5, NotifyStep, ScopePcs DEF ObserveKey, At
<1>6. CASE UNCHANGED al
  BY <1>6 DEF AlertsInv
<1> QED
  BY <1>1, <1>2, <1>3, <1>4, <1>5, <1>6, RollOverStep, DeliverStep, CloseStep DEF NextAlerts

LEMMA AlertsInvariant == AlertsSpec => []AlertsInv
<1>1. AlertsInv /\ [NextAlerts]_al => AlertsInv'
  BY AlertsStep
<1> QED
  BY <1>1, AlertsStart, PTL DEF AlertsSpec

LEMMA AlertsInvHolds == AlertsInv => AlertsHold
<1> SUFFICES ASSUME AlertsInv PROVE AlertsTypeOK /\ HighestAlerted
  BY DEF AlertsHold
<1>1. Alerting(al) /\ al \in AlertState
  BY DEF AlertsInv, Keeping, Alerting
<1>2. AlertsTypeOK
  BY <1>1 DEF AlertsTypeOK, Alerting, AlertState
<1>3. ASSUME Idle(al), NEW s \in Scopes,
             Highest({t \in Thresholds[s] : al.spent[s] >= t}) > 0, al.armed[s] = "yes"
      PROVE  \E i \in FiredIn(s, al.window) :
               al.fires[i].threshold = Highest({t \in Thresholds[s] : al.spent[s] >= t})
  <2> DEFINE S == {t \in Thresholds[s] : al.spent[s] >= t}
             top == Highest(S)
  <2>1. al.spent[s] \in Nat
    BY <1>1 DEF AlertState
  <2>2. S \subseteq Nat /\ \A t \in S : t <= al.spent[s]
    BY <2>1, ThresholdsArePositive
  <2>3. S # {}
    <3> SUFFICES ASSUME S = {} PROVE FALSE
      OBVIOUS
    <3>1. Highest(S) = 0
      BY DEF Highest
    <3> QED
      BY <1>3, <3>1
  <2>4. top \in S /\ \A t \in S : t <= top
    <3> HIDE DEF S
    <3> QED
      BY <2>1, <2>2, <2>3, HighestIsIn
  <2>5. top \in Thresholds[s] /\ IsTop(s, al.spent[s], top)
    <3> HIDE DEF top
    <3> QED
      BY <2>4 DEF IsTop
  <2> HIDE DEF top
  <2>6. Fired(al, s, top) \/ Pending(al, s, top)
    BY <1>3, <2>5 DEF AlertsInv, Keeping, OnItsWay
  <2>7. ~Pending(al, s, top)
    BY <1>3, PcsDiffer DEF Pending, Idle
  <2>8. PICK i \in DOMAIN al.fires :
          al.fires[i].scope = s /\ al.fires[i].threshold = top /\ al.fires[i].window = al.window
    BY <2>6, <2>7 DEF Fired
  <2>9. i \in FiredIn(s, al.window) /\ al.fires[i].threshold = top
    BY <2>8 DEF FiredIn
  <2> QED
    BY <2>9 DEF top
<1>4. HighestAlerted
  BY <1>3 DEF HighestAlerted
<1> QED
  BY <1>2, <1>4

(* Alerts keep up: once the settlements have run their course, the highest *)
(* threshold this window's spend has reached has been alerted in this      *)
(* window, if the window's first reading found the latch open or fell      *)
(* below it, whatever the number of settlements, their costs, the          *)
(* thresholds and the order of the readings; and the list of recent alerts *)
(* stays bounded (Settle, alert.go Observe).                               *)
THEOREM AlertsKeepUp == AlertsSpec => []AlertsHold
BY AlertsInvariant, AlertsInvHolds, PTL


-----------------------------------------------------------------------------
(* Session affinity *)

Pins == AffinityTargets \cup {"none"}
AffEntries ==
  [target : AffinityTargets, policy : Digests, since : Nat, expires : Nat, requests : Nat, revision : Nat,
   basis : Nat, served : SUBSET AffinityRequests]
IdleToken == [state |-> "idle"]
AffTokens ==
  [state : {"seen", "routed", "recorded"}, session : Sessions, policy : Digests, expected : Nat, issued : Nat,
   basis : Nat, entry : AffEntries \cup {NoEntry}, pin : Pins, target : Pins]
AffStates ==
  [now : 0..LastTick, revision : Nat, entries : [Sessions -> AffEntries \cup {NoEntry}],
   tokens : [AffinityRequests -> AffTokens \cup {IdleToken}]]

\* Request q was served by target t for session s, under policy d.
ServedBy(a, q, s, d, t) ==
  /\ a.tokens[q] # IdleToken /\ a.tokens[q].state = "recorded"
  /\ a.tokens[q].session = s /\ a.tokens[q].policy = d /\ a.tokens[q].target = t

\* A streak counts the requests that its target served.
EntryHonest(a, s) ==
  LET e == a.entries[s]
  IN  Present(s, a.entries) =>
        /\ e.revision \in 1..a.revision /\ IsFiniteSet(e.served) /\ e.requests = Cardinality(e.served)
        /\ \A q \in e.served : ServedBy(a, q, s, e.policy, e.target)

\* A token knows the entry whose revision it expects, and led with its target
\* if the entry was held.
TokenHonest(a, q) ==
  LET k == a.tokens[q]
  IN  k # IdleToken =>
        /\ k.expected <= k.basis /\ k.basis <= a.revision
        /\ k.state = "seen" => k.entry # NoEntry /\ k.expected = k.entry.revision
        /\ k.state \in {"seen", "routed"} /\ Present(k.session, a.entries)
             /\ a.entries[k.session].revision = k.expected =>
             /\ a.entries[k.session] = k.entry
             /\ k.state = "routed" /\ Held(k) => k.pin = k.entry.target

Pinned(a) == {s \in Sessions : Present(s, a.entries)}

Affine(a) ==
  /\ a \in AffStates
  /\ IsFiniteSet(Pinned(a)) /\ Count(a) <= MaxEntries
  /\ \A s \in Sessions : EntryHonest(a, s)
  /\ \A q \in AffinityRequests : TokenHonest(a, q)
AffinityInv == Affine(af)

LEMMA KindsDiffer ==
  /\ \A e \in AffEntries : e # NoEntry
  /\ \A k \in AffTokens : k # IdleToken /\ k.state # "idle"
  /\ IdleToken.state = "idle"
<1>1. ASSUME NEW e \in AffEntries PROVE e # NoEntry
  <2>1. "policy" \in DOMAIN e
    BY DEF AffEntries
  <2>2. "policy" \notin DOMAIN NoEntry
    BY DEF NoEntry
  <2> QED
    BY <2>1, <2>2
<1>2. ASSUME NEW k \in AffTokens PROVE k.state # "idle"
  BY DEF AffTokens
<1>3. IdleToken.state = "idle"
  BY DEF IdleToken
<1> QED
  BY <1>1, <1>2, <1>3

-----------------------------------------------------------------------------
(* What the steps are made of. *)

\* Entries may go at any time.
LEMMA Dropping ==
  ASSUME NEW a, Affine(a), NEW b \in AffStates, b.now = a.now, b.revision = a.revision, b.tokens = a.tokens,
         \A s \in Sessions : b.entries[s] = a.entries[s] \/ b.entries[s] = NoEntry
  PROVE  Affine(b)
<1>1. Pinned(b) \subseteq Pinned(a)
  BY DEF Pinned, Present
<1>2. IsFiniteSet(Pinned(b)) /\ Cardinality(Pinned(b)) <= Cardinality(Pinned(a))
  BY <1>1, FS_Subset DEF Affine
<1>3. Count(b) <= MaxEntries
  <2>1. Cardinality(Pinned(b)) \in Nat /\ Cardinality(Pinned(a)) \in Nat /\ MaxEntries \in Nat
    BY <1>2, FS_CardinalityType, AffinityAssumption DEF Affine
  <2>2. Count(b) = Cardinality(Pinned(b)) /\ Count(a) = Cardinality(Pinned(a))
    BY DEF Count, Pinned
  <2> QED
    BY <1>2, <2>1, <2>2 DEF Affine
<1>4. \A s \in Sessions : EntryHonest(b, s)
  BY DEF Affine, EntryHonest, ServedBy, Present
<1>5. ASSUME NEW q \in AffinityRequests PROVE TokenHonest(b, q)
  <2>1. TokenHonest(a, q)
    BY DEF Affine
  <2>2. a \in AffStates
    BY DEF Affine
  <2> SUFFICES ASSUME a.tokens[q] # IdleToken PROVE TokenHonest(b, q)
    BY DEF TokenHonest
  <2>3. a.tokens[q].session \in Sessions
    BY <2>2 DEF AffStates, AffTokens
  <2> QED
    BY <2>1, <2>3 DEF TokenHonest, Present
<1> QED
  BY <1>2, <1>3, <1>4, <1>5 DEF Affine

\* A token that was not recorded yet changes.
LEMMA TokenMoves ==
  ASSUME NEW a, Affine(a), NEW q \in AffinityRequests, a.tokens[q].state # "recorded",
         NEW k \in AffTokens, NEW b, b = [a EXCEPT !.tokens[q] = k], TokenHonest(b, q)
  PROVE  /\ Affine(b) /\ b.now = a.now /\ b.revision = a.revision /\ b.entries = a.entries
         /\ b.tokens[q] = k /\ \A p \in AffinityRequests \ {q} : b.tokens[p] = a.tokens[p]
<1> DEFINE t == [a.tokens EXCEPT ![q] = k]
<1>1. a \in AffStates
  BY DEF Affine
<1>2. b = [a EXCEPT !.tokens = t]
  BY <1>1 DEF AffStates
<1>3. /\ t \in [AffinityRequests -> AffTokens \cup {IdleToken}] /\ t[q] = k
      /\ \A p \in AffinityRequests \ {q} : t[p] = a.tokens[p]
  <2>1. a.tokens \in [AffinityRequests -> AffTokens \cup {IdleToken}]
    BY <1>1 DEF AffStates
  <2> QED
    BY <2>1
<1> HIDE DEF t
<1>4. b \in AffStates /\ b.now = a.now /\ b.revision = a.revision /\ b.entries = a.entries /\ b.tokens = t
  BY <1>1, <1>2, <1>3 DEF AffStates
<1>5. \A s \in Sessions : EntryHonest(b, s)
  <2> SUFFICES ASSUME NEW s \in Sessions, Present(s, a.entries) PROVE EntryHonest(b, s)
    BY <1>4 DEF EntryHonest
  <2>1. EntryHonest(a, s) /\ a.entries[s] \in AffEntries
    BY <1>1 DEF Affine, AffStates, Present
  <2>2. ASSUME NEW p \in a.entries[s].served PROVE ServedBy(b, p, s, a.entries[s].policy, a.entries[s].target)
    <3>1. p \in AffinityRequests /\ ServedBy(a, p, s, a.entries[s].policy, a.entries[s].target)
      BY <2>1 DEF EntryHonest, AffEntries
    <3> QED
      BY <1>3, <1>4, <3>1 DEF ServedBy
  <2> QED
    BY <1>4, <2>1, <2>2 DEF EntryHonest
<1>6. \A p \in AffinityRequests \ {q} : TokenHonest(b, p)
  BY <1>3, <1>4 DEF Affine, TokenHonest
<1>7. Pinned(b) = Pinned(a) /\ Count(b) = Count(a)
  BY <1>4 DEF Pinned, Count
<1> QED
  BY <1>3, <1>4, <1>5, <1>6, <1>7 DEF Affine

\* Drop makes one entry go.
LEMMA DropKeeps ==
  ASSUME NEW a, Affine(a), NEW s \in Sessions
  PROVE  /\ Affine(Drop(a, s)) /\ Drop(a, s).now = a.now /\ Drop(a, s).revision = a.revision
         /\ Drop(a, s).tokens = a.tokens
         /\ \A x \in Sessions : Drop(a, s).entries[x] = IF x = s THEN NoEntry ELSE a.entries[x]
<1> DEFINE n == [a.entries EXCEPT ![s] = NoEntry]
           b == [a EXCEPT !.entries = n]
<1>1. a \in AffStates
  BY DEF Affine
<1>2. Drop(a, s) = b
  BY <1>1 DEF Drop, AffStates
<1>3. /\ n \in [Sessions -> AffEntries \cup {NoEntry}]
      /\ \A x \in Sessions : n[x] = IF x = s THEN NoEntry ELSE a.entries[x]
  <2>1. a.entries \in [Sessions -> AffEntries \cup {NoEntry}]
    BY <1>1 DEF AffStates
  <2> QED
    BY <2>1
<1> HIDE DEF n
<1>4. b \in AffStates /\ b.now = a.now /\ b.revision = a.revision /\ b.tokens = a.tokens /\ b.entries = n
  BY <1>1, <1>3 DEF AffStates
<1> HIDE DEF b
<1>5. Affine(b)
  BY <1>3, <1>4, Dropping
<1> QED
  BY <1>2, <1>3, <1>4, <1>5

\* The sweep at capacity makes expired entries go, and never that of a session present.
LEMMA RoomKeeps ==
  ASSUME NEW a, Affine(a), NEW s \in Sessions
  PROVE  LET b == MadeRoom(a, s)
         IN  /\ Affine(b) /\ b.now = a.now /\ b.revision = a.revision /\ b.tokens = a.tokens
             /\ \A x \in Sessions : b.entries[x] = a.entries[x] \/ b.entries[x] = NoEntry
             /\ b.entries[s] = a.entries[s]
<1>1. CASE Present(s, a.entries) \/ Count(a) < MaxEntries
  BY <1>1 DEF MadeRoom
<1>2. CASE ~(Present(s, a.entries) \/ Count(a) < MaxEntries)
  <2> DEFINE n == [x \in Sessions |-> IF ExpiredAt(a, a.entries[x]) THEN NoEntry ELSE a.entries[x]]
             b == [a EXCEPT !.entries = n]
  <2>1. a \in AffStates
    BY DEF Affine
  <2>2. MadeRoom(a, s) = b
    BY <1>2, <2>1 DEF MadeRoom, AffStates
  <2>3. /\ n \in [Sessions -> AffEntries \cup {NoEntry}]
        /\ \A x \in Sessions : n[x] = a.entries[x] \/ n[x] = NoEntry
        /\ n[s] = NoEntry /\ a.entries[s] = NoEntry
    <3>1. \A x \in Sessions : a.entries[x] \in AffEntries \cup {NoEntry}
      BY <2>1 DEF AffStates
    <3> QED
      BY <1>2, <3>1 DEF Present
  <2> HIDE DEF n
  <2>4. b \in AffStates /\ b.now = a.now /\ b.revision = a.revision /\ b.tokens = a.tokens /\ b.entries = n
    BY <2>1, <2>3 DEF AffStates
  <2> HIDE DEF b
  <2>5. Affine(b)
    BY <2>3, <2>4, Dropping
  <2> QED
    BY <2>2, <2>3, <2>4, <2>5
<1> QED
  BY <1>1, <1>2

\* A new entry takes the next revision: nobody expects it yet.
Written(a, s, e) == [a EXCEPT !.revision = @ + 1, !.entries[s] = e]
LEMMA EntryWritten ==
  ASSUME NEW a, Affine(a), NEW q \in AffinityRequests, NEW t \in AffinityTargets, NEW s \in Sessions,
         a.tokens[q] \in AffTokens, a.tokens[q].state = "recorded", a.tokens[q].session = s,
         a.tokens[q].target = t, HasRoom(a, s), \A x \in Sessions : Present(x, a.entries) => q \notin a.entries[x].served,
         NEW b, b = Written(a, s, NextEntry(a, q, t))
  PROVE  /\ Affine(b) /\ b.entries[s] = NextEntry(a, q, t)
         /\ \A x \in Sessions \ {s} : b.entries[x] = a.entries[x]
<1> DEFINE k == a.tokens[q]
           old == a.entries[s]
           e == NextEntry(a, q, t)
           n == [a.entries EXCEPT ![s] = e]
           same == old # NoEntry /\ old.target = t /\ old.policy = k.policy
<1>1. a \in AffStates /\ a.entries \in [Sessions -> AffEntries \cup {NoEntry}] /\ a.revision \in Nat /\ a.now \in Nat
  BY AffinityAssumption DEF Affine, AffStates
<1>2. e = [target |-> t, policy |-> k.policy, since |-> IF same THEN old.since ELSE a.now,
           expires |-> a.now + SessionTTL, requests |-> IF same THEN old.requests + 1 ELSE 1,
           revision |-> a.revision + 1, basis |-> k.basis,
           served |-> IF same THEN old.served \cup {q} ELSE {q}]
  BY DEF NextEntry
<1>3. old \in AffEntries \cup {NoEntry} /\ (same => old \in AffEntries) /\ k.policy \in Digests /\ k.basis \in Nat
  BY <1>1 DEF AffTokens
<1>4. /\ e \in AffEntries /\ e.revision = a.revision + 1 /\ e.policy = k.policy /\ e.target = t
      /\ e.served = (IF same THEN old.served \cup {q} ELSE {q})
      /\ e.requests = (IF same THEN old.requests + 1 ELSE 1)
  <2>1. SessionTTL \in Nat
    BY AffinityAssumption
  <2>2. /\ (IF same THEN old.since ELSE a.now) \in Nat /\ a.now + SessionTTL \in Nat
        /\ (IF same THEN old.requests + 1 ELSE 1) \in Nat /\ a.revision + 1 \in Nat
        /\ (IF same THEN old.served \cup {q} ELSE {q}) \subseteq AffinityRequests
    <3> HIDE DEF same, old
    <3> QED
      BY <1>1, <1>3, <2>1 DEF AffEntries
  <2> HIDE DEF same, old, k, e
  <2> QED
    BY <1>2, <1>3, <2>2 DEF AffEntries
<1>5. b = [[a EXCEPT !.revision = a.revision + 1] EXCEPT !.entries = n]
  BY <1>1 DEF AffStates, Written
<1>6. n \in [Sessions -> AffEntries \cup {NoEntry}] /\ n[s] = e /\ \A x \in Sessions \ {s} : n[x] = a.entries[x]
  <2> HIDE DEF e
  <2> QED
    BY <1>1, <1>4
<1> HIDE DEF n
<1>7. b \in AffStates /\ b.now = a.now /\ b.revision = a.revision + 1 /\ b.tokens = a.tokens /\ b.entries = n
  <2> DEFINE c == [a EXCEPT !.revision = a.revision + 1]
  <2>1. a.revision + 1 \in Nat
    BY <1>1
  <2>2. c \in AffStates /\ c.now = a.now /\ c.revision = a.revision + 1 /\ c.tokens = a.tokens
    BY <1>1, <2>1 DEF AffStates
  <2>3. b = [c EXCEPT !.entries = n]
    BY <1>5
  <2> HIDE DEF c
  <2> QED
    BY <1>6, <2>2, <2>3 DEF AffStates
<1> HIDE DEF e
<1>8. EntryHonest(b, s)
  <2>1. e.revision \in 1..b.revision
    BY <1>1, <1>4, <1>7
  <2>2. ServedBy(b, q, s, e.policy, e.target)
    BY <1>4, <1>7, KindsDiffer DEF ServedBy
  <2>3. CASE ~same
    <3>1. IsFiniteSet({q}) /\ Cardinality({q}) = 1
      BY FS_Singleton
    <3>2. e.served = {q} /\ e.requests = 1
      BY <1>4, <2>3
    <3> QED
      BY <1>6, <1>7, <2>1, <2>2, <3>1, <3>2 DEF EntryHonest
  <2>4. CASE same
    <3>1. /\ EntryHonest(a, s) /\ Present(s, a.entries)
      BY <2>4 DEF Affine, Present
    <3>2. /\ IsFiniteSet(old.served) /\ old.requests = Cardinality(old.served) /\ q \notin old.served
          /\ \A p \in old.served : ServedBy(a, p, s, old.policy, old.target)
      BY <3>1 DEF EntryHonest
    <3>3. IsFiniteSet(old.served \cup {q}) /\ Cardinality(old.served \cup {q}) = Cardinality(old.served) + 1
      BY <3>2, FS_AddElement
    <3>4. e.served = old.served \cup {q} /\ e.requests = old.requests + 1 /\ e.policy = old.policy /\ e.target = old.target
      BY <1>4, <2>4
    <3>5. \A p \in old.served : ServedBy(b, p, s, e.policy, e.target)
      BY <1>7, <3>2, <3>4 DEF ServedBy
    <3> HIDE DEF old, same
    <3> QED
      BY <1>6, <1>7, <2>1, <2>2, <3>2, <3>3, <3>4, <3>5 DEF EntryHonest
  <2> QED
    BY <2>3, <2>4
<1>9. \A x \in Sessions \ {s} : EntryHonest(b, x)
  BY <1>1, <1>6, <1>7 DEF Affine, EntryHonest, ServedBy, Present
<1>10. ASSUME NEW p \in AffinityRequests PROVE TokenHonest(b, p)
  <2> DEFINE j == a.tokens[p]
  <2> SUFFICES ASSUME j # IdleToken PROVE TokenHonest(b, p)
    BY <1>7 DEF TokenHonest
  <2>1. j \in AffTokens /\ TokenHonest(a, p)
    BY <1>1 DEF AffStates, Affine
  <2>2. j.expected \in Nat /\ j.basis \in Nat /\ j.session \in Sessions /\ j.expected <= j.basis /\ j.basis <= a.revision
    BY <2>1 DEF AffTokens, TokenHonest
  <2>3. j.basis <= a.revision + 1 /\ a.revision + 1 # j.expected
    BY <1>1, <2>2
  <2>4. CASE j.session = s
    <3>1. b.entries[j.session].revision # j.expected
      BY <1>4, <1>6, <1>7, <2>3, <2>4
    <3> QED
      BY <1>7, <2>1, <2>2, <2>3, <3>1 DEF TokenHonest
  <2>5. CASE j.session # s
    <3>1. b.entries[j.session] = a.entries[j.session]
      BY <1>6, <1>7, <2>2, <2>5
    <3> QED
      BY <1>7, <2>1, <2>2, <2>3, <3>1 DEF TokenHonest, Present
  <2> QED
    BY <2>4, <2>5
<1>11. IsFiniteSet(Pinned(b)) /\ Count(b) <= MaxEntries
  <2>1. Count(a) = Cardinality(Pinned(a)) /\ Count(b) = Cardinality(Pinned(b)) /\ IsFiniteSet(Pinned(a))
    BY DEF Count, Pinned, Affine
  <2>2. Pinned(b) = Pinned(a) \cup {s}
    BY <1>4, <1>6, <1>7, KindsDiffer DEF Pinned, Present
  <2>3. CASE s \in Pinned(a)
    BY <2>1, <2>2, <2>3 DEF Affine
  <2>4. CASE s \notin Pinned(a)
    <3>1. Count(a) < MaxEntries
      BY <2>4 DEF HasRoom, Pinned
    <3>2. IsFiniteSet(Pinned(b)) /\ Cardinality(Pinned(b)) = Cardinality(Pinned(a)) + 1
      BY <2>1, <2>2, <2>4, FS_AddElement
    <3>3. Cardinality(Pinned(a)) \in Nat /\ MaxEntries \in Nat
      BY <2>1, FS_CardinalityType, AffinityAssumption
    <3> QED
      BY <2>1, <3>1, <3>2, <3>3
  <2> QED
    BY <2>3, <2>4
<1> QED
  BY <1>6, <1>7, <1>8, <1>9, <1>10, <1>11 DEF Affine, e
-----------------------------------------------------------------------------
(* The steps. *)

LEMMA AffinityStarts ==
  InitAffinity => AffinityInv
<1> SUFFICES ASSUME InitAffinity PROVE Affine(af)
  BY DEF AffinityInv
<1>1. \A s \in Sessions : ~Present(s, af.entries)
  BY DEF InitAffinity, Present
<1>2. \A q \in AffinityRequests : af.tokens[q] = IdleToken
  BY DEF InitAffinity, IdleToken
<1>3. af \in AffStates
  BY AffinityAssumption DEF InitAffinity, AffStates, IdleToken
<1>4. IsFiniteSet(Pinned(af)) /\ Count(af) <= MaxEntries
  <2>1. Pinned(af) = {}
    BY <1>1 DEF Pinned
  <2>2. IsFiniteSet({}) /\ Cardinality({}) = 0
    BY FS_EmptySet
  <2>3. Count(af) = Cardinality(Pinned(af)) /\ MaxEntries \in Nat
    BY AffinityAssumption DEF Count, Pinned
  <2> QED
    BY <2>1, <2>2, <2>3
<1> QED
  BY <1>1, <1>2, <1>3, <1>4 DEF Affine, EntryHonest, TokenHonest

\* prepareAffinity remembers the entry it saw; what is stale is gone by then.
LEMMA PrepareKeeps ==
  ASSUME AffinityInv, NEW q \in AffinityRequests, NEW s \in Sessions, NEW d \in Digests, PrepareAffinity(q, s, d)
  PROVE  /\ AffinityInv'
         /\ \A x \in Sessions : af'.entries[x] = af.entries[x] \/ af'.entries[x] = NoEntry
<1> DEFINE old == af.entries[s]
           stale == ExpiredAt(af, old) \/ (old # NoEntry /\ old.policy # d)
           seen == old # NoEntry /\ ~stale
           a == IF stale THEN Drop(af, s) ELSE af
           k == [state |-> IF seen THEN "seen" ELSE "routed", session |-> s, policy |-> d,
                 expected |-> IF seen THEN old.revision ELSE 0, issued |-> af.now, basis |-> af.revision,
                 entry |-> IF seen THEN old ELSE NoEntry, pin |-> "none", target |-> "none"]
<1>1. af.tokens[q].state = "idle" /\ af' = [a EXCEPT !.tokens[q] = k]
  BY DEF PrepareAffinity
<1>2. /\ Affine(af) /\ af \in AffStates /\ af.now \in Nat /\ af.revision \in Nat
      /\ old \in AffEntries \cup {NoEntry} /\ af.entries \in [Sessions -> AffEntries \cup {NoEntry}]
  BY AffinityAssumption DEF AffinityInv, Affine, AffStates
<1>3. /\ Affine(a) /\ a.now = af.now /\ a.revision = af.revision /\ a.tokens = af.tokens
      /\ \A x \in Sessions : a.entries[x] = af.entries[x] \/ a.entries[x] = NoEntry
      /\ stale => a.entries[s] = NoEntry
      /\ ~stale => a.entries[s] = old
  <2> HIDE DEF stale
  <2>1. CASE stale
    <3>1. a = Drop(af, s)
      BY <2>1
    <3> HIDE DEF a
    <3> QED
      BY <1>2, <2>1, <3>1, DropKeeps
  <2>2. CASE ~stale
    BY <1>2, <2>2
  <2> QED
    BY <2>1, <2>2
<1>4. /\ seen => old \in AffEntries /\ old.revision \in Nat /\ old.revision <= af.revision /\ 0 < old.revision
      /\ seen => a.entries[s] = old
      /\ ~seen => a.entries[s] = NoEntry
  <2>1. old # NoEntry => old \in AffEntries /\ old.revision \in 1..af.revision
    BY <1>2 DEF Affine, EntryHonest, Present
  <2> HIDE DEF a
  <2>2. /\ seen => old # NoEntry /\ ~stale
        /\ ~seen => old = NoEntry \/ stale
    OBVIOUS
  <2> HIDE DEF seen, stale
  <2> QED
    BY <1>2, <1>3, <2>1, <2>2
<1> DEFINE w == IF seen THEN old.revision ELSE 0
           f == IF seen THEN old ELSE NoEntry
           z == IF seen THEN "seen" ELSE "routed"
<1>5. /\ w \in Nat /\ w <= af.revision /\ f \in AffEntries \cup {NoEntry} /\ z \in {"seen", "routed", "recorded"}
      /\ seen => w = old.revision /\ f = old /\ z = "seen"
      /\ ~seen => w = 0 /\ f = NoEntry /\ z = "routed"
  <2> HIDE DEF seen, old
  <2> QED
    BY <1>2, <1>4
<1>6. k = [state |-> z, session |-> s, policy |-> d, expected |-> w, issued |-> af.now, basis |-> af.revision,
           entry |-> f, pin |-> "none", target |-> "none"]
  OBVIOUS
<1> HIDE DEF w, f, z, k, seen, stale, a, old
<1>7. /\ k \in AffTokens /\ k.state = z /\ k.session = s /\ k.expected = w /\ k.basis = af.revision /\ k.entry = f
  BY <1>2, <1>5, <1>6 DEF AffTokens, Pins
<1>8. af'.entries = a.entries /\ af'.revision = a.revision /\ af'.tokens[q] = k
  <2>1. a \in AffStates
    BY <1>3 DEF Affine
  <2>2. a.tokens \in [AffinityRequests -> AffTokens \cup {IdleToken}]
    BY <2>1 DEF AffStates
  <2> QED
    BY <1>1, <2>1, <2>2 DEF AffStates
<1>9. TokenHonest(af', q)
  <2>1. k.expected <= k.basis /\ k.basis <= af'.revision
    BY <1>2, <1>3, <1>5, <1>7, <1>8
  <2>2. CASE seen
    BY <1>4, <1>5, <1>7, <1>8, <2>1, <2>2, KindsDiffer DEF TokenHonest
  <2>3. CASE ~seen
    BY <1>4, <1>5, <1>7, <1>8, <2>1, <2>3 DEF TokenHonest, Present
  <2> QED
    BY <2>2, <2>3
<1>10. a.tokens[q].state # "recorded"
  BY <1>1, <1>3
<1> DEFINE b == af'
<1>11. b = [a EXCEPT !.tokens[q] = k] /\ TokenHonest(b, q)
  BY <1>1, <1>9
<1> HIDE DEF b
<1>12. Affine(b)
  BY <1>3, <1>7, <1>10, <1>11, TokenMoves
<1>13. AffinityInv'
  BY <1>12 DEF b, AffinityInv, Affine, TokenHonest, EntryHonest, ServedBy, Pinned, Count, Present
<1> QED
  BY <1>3, <1>8, <1>13
\* The pinned target leads while the hold lasts.
LEMMA KeepTargetKeeps ==
  ASSUME AffinityInv, NEW q \in AffinityRequests, KeepTarget(q)
  PROVE  AffinityInv' /\ af'.entries = af.entries
<1> DEFINE k == af.tokens[q]
           h == IF Held(k) THEN k.entry.target ELSE "none"
           j == [k EXCEPT !.state = "routed", !.pin = h]
           b == af'
<1>1. k.state = "seen" /\ b = [af EXCEPT !.tokens[q] = j]
  BY DEF KeepTarget
<1>2. Affine(af) /\ k \in AffTokens /\ TokenHonest(af, q)
  <2>1. Affine(af) /\ af.tokens[q] \in AffTokens \cup {IdleToken} /\ TokenHonest(af, q)
    BY DEF AffinityInv, Affine, AffStates
  <2> QED
    BY <1>1, <2>1, KindsDiffer
<1>3. h \in Pins /\ (Held(k) => h = k.entry.target) /\ k.entry \in AffEntries
  <2>1. k # IdleToken /\ k.entry \in AffEntries \cup {NoEntry}
    BY <1>2, KindsDiffer DEF AffTokens
  <2>2. k.entry \in AffEntries
    BY <1>1, <1>2, <2>1 DEF TokenHonest
  <2>3. k.entry.target \in Pins /\ "none" \in Pins
    BY <2>2 DEF AffEntries, Pins
  <2> QED
    BY <2>2, <2>3
<1> HIDE DEF h, b
<1>4. /\ j \in AffTokens /\ j.state = "routed" /\ j.pin = h /\ j.session = k.session /\ j.expected = k.expected
      /\ j.basis = k.basis /\ j.entry = k.entry /\ j.issued = k.issued
  BY <1>2, <1>3 DEF AffTokens
<1> HIDE DEF j
<1>5. b.entries = af.entries /\ b.revision = af.revision /\ b.tokens[q] = j
  <2>1. af \in AffStates /\ af.tokens \in [AffinityRequests -> AffTokens \cup {IdleToken}]
    BY <1>2 DEF Affine, AffStates
  <2> QED
    BY <1>1, <2>1 DEF AffStates
<1>6. Held(j) = Held(k)
  BY <1>4 DEF Held
<1>7. TokenHonest(b, q)
  <2>1. k # IdleToken
    BY <1>2, KindsDiffer
  <2>2. k.expected <= k.basis /\ k.basis <= af.revision
    BY <1>2, <2>1 DEF TokenHonest
  <2>3. Present(k.session, af.entries) /\ af.entries[k.session].revision = k.expected => af.entries[k.session] = k.entry
    BY <1>1, <1>2, <2>1 DEF TokenHonest
  <2> HIDE DEF k
  <2> QED
    BY <1>3, <1>4, <1>5, <1>6, <2>2, <2>3 DEF TokenHonest
<1>8. af.tokens[q].state # "recorded"
  BY <1>1
<1>9. Affine(b)
  BY <1>1, <1>2, <1>4, <1>7, <1>8, TokenMoves
<1> QED
  BY <1>5, <1>9 DEF b, AffinityInv, Affine, TokenHonest, EntryHonest, ServedBy, Pinned, Count, Present

\* Without it, the entry goes, or it is no longer the one the token expects.
LEMMA LoseTargetKeeps ==
  ASSUME AffinityInv, NEW q \in AffinityRequests, LoseTarget(q)
  PROVE  /\ AffinityInv'
         /\ \A x \in Sessions : af'.entries[x] = af.entries[x] \/ af'.entries[x] = NoEntry
<1> DEFINE k == af.tokens[q]
           same == Present(k.session, af.entries) /\ af.entries[k.session].revision = k.entry.revision
           w == IF same THEN 0 ELSE k.expected
           a == IF same THEN Drop(af, k.session) ELSE af
           j == [k EXCEPT !.state = "routed", !.expected = w]
           b == af'
<1>1. k.state = "seen" /\ b = [a EXCEPT !.tokens[q] = j]
  BY DEF LoseTarget
<1>2. Affine(af) /\ k \in AffTokens /\ TokenHonest(af, q)
  <2>1. Affine(af) /\ af.tokens[q] \in AffTokens \cup {IdleToken} /\ TokenHonest(af, q)
    BY DEF AffinityInv, Affine, AffStates
  <2> QED
    BY <1>1, <2>1, KindsDiffer
<1>3. /\ k.session \in Sessions /\ k.expected \in Nat /\ k.basis \in Nat /\ k.expected <= k.basis
      /\ k.basis <= af.revision /\ k.expected = k.entry.revision
  <2>1. k # IdleToken /\ k.session \in Sessions /\ k.expected \in Nat /\ k.basis \in Nat
    BY <1>2, KindsDiffer DEF AffTokens
  <2> QED
    BY <1>1, <1>2, <2>1 DEF TokenHonest
<1>4. /\ Affine(a) /\ a.revision = af.revision /\ a.tokens = af.tokens
      /\ \A x \in Sessions : a.entries[x] = af.entries[x] \/ a.entries[x] = NoEntry
      /\ same => a.entries[k.session] = NoEntry
      /\ ~same => a.entries = af.entries
  <2>1. CASE same
    <3>1. a = Drop(af, k.session)
      BY <2>1
    <3> HIDE DEF same, k, a
    <3> QED
      BY <1>2, <1>3, <2>1, <3>1, DropKeeps
  <2>2. CASE ~same
    <3> HIDE DEF same
    <3> QED
      BY <1>2, <2>2
  <2> QED
    BY <2>1, <2>2
<1>5. w \in Nat /\ w <= k.basis /\ (same => w = 0) /\ (~same => w = k.expected)
  <2> HIDE DEF same, k
  <2> QED
    BY <1>3
<1>6. ~same => ~(Present(k.session, af.entries) /\ af.entries[k.session].revision = k.expected)
  BY <1>3
<1> HIDE DEF w, a, b
<1>7. j \in AffTokens /\ j.state = "routed" /\ j.session = k.session /\ j.expected = w /\ j.basis = k.basis
  BY <1>2, <1>5 DEF AffTokens
<1> HIDE DEF j
<1>8. b.entries = a.entries /\ b.revision = a.revision /\ b.tokens[q] = j
  <2>1. a \in AffStates /\ a.tokens \in [AffinityRequests -> AffTokens \cup {IdleToken}]
    BY <1>4 DEF Affine, AffStates
  <2> QED
    BY <1>1, <2>1 DEF AffStates
<1>9. TokenHonest(b, q)
  <2> HIDE DEF k, same
  <2>1. ~(Present(j.session, b.entries) /\ b.entries[j.session].revision = j.expected)
    BY <1>4, <1>5, <1>6, <1>7, <1>8 DEF Present
  <2> QED
    BY <1>3, <1>4, <1>5, <1>7, <1>8, <2>1 DEF TokenHonest
<1>10. a.tokens[q].state # "recorded"
  BY <1>1, <1>4
<1>11. Affine(b)
  BY <1>1, <1>4, <1>7, <1>9, <1>10, TokenMoves
<1>12. AffinityInv'
  BY <1>11 DEF b, AffinityInv, Affine, TokenHonest, EntryHonest, ServedBy, Pinned, Count, Present
<1>13. \A x \in Sessions : b.entries[x] = af.entries[x] \/ b.entries[x] = NoEntry
  BY <1>4, <1>8
<1> QED
  BY <1>12, <1>13 DEF b

\* A token that is used up may no longer write.
Used(k, t) == [k EXCEPT !.state = "recorded", !.target = t]
LEMMA TokenUsed ==
  ASSUME Affine(af), NEW q \in AffinityRequests, af.tokens[q].state = "routed",
         NEW t \in Pins, NEW b, b = [af EXCEPT !.tokens[q] = Used(af.tokens[q], t)]
  PROVE  LET k == af.tokens[q]
             j == Used(k, t)
         IN  /\ Affine(b) /\ b.now = af.now /\ b.revision = af.revision /\ b.entries = af.entries
             /\ b.tokens[q] = j /\ j \in AffTokens /\ j.state = "recorded" /\ j.target = t
             /\ j.session = k.session /\ j.policy = k.policy /\ j.basis = k.basis /\ k \in AffTokens
<1> DEFINE k == af.tokens[q]
           j == Used(k, t)
<1>1. k \in AffTokens /\ TokenHonest(af, q)
  <2>1. af.tokens[q] \in AffTokens \cup {IdleToken} /\ TokenHonest(af, q)
    BY DEF Affine, AffStates
  <2> QED
    BY <2>1, KindsDiffer
<1>2. k.expected <= k.basis /\ k.basis <= af.revision
  <2>1. k # IdleToken
    BY <1>1, KindsDiffer
  <2> QED
    BY <1>1, <2>1 DEF TokenHonest
<1>3. /\ j \in AffTokens /\ j.state = "recorded" /\ j.session = k.session /\ j.expected = k.expected
      /\ j.basis = k.basis /\ j.target = t /\ j.policy = k.policy
  <2> HIDE DEF k
  <2> QED
    BY <1>1 DEF AffTokens, Used
<1> HIDE DEF j
<1>4. b = [af EXCEPT !.tokens[q] = j]
  BY DEF j
<1>5. b.revision = af.revision /\ b.tokens[q] = j
  <2>1. af \in AffStates /\ af.tokens \in [AffinityRequests -> AffTokens \cup {IdleToken}]
    BY DEF Affine, AffStates
  <2> QED
    BY <1>4, <2>1 DEF AffStates
<1>6. TokenHonest(b, q)
  BY <1>2, <1>3, <1>5 DEF TokenHonest
<1>7. k.state # "recorded"
  OBVIOUS
<1>8. Affine(b) /\ b.now = af.now /\ b.revision = af.revision /\ b.entries = af.entries
  BY <1>3, <1>4, <1>6, <1>7, TokenMoves
<1> QED
  BY <1>1, <1>3, <1>5, <1>8 DEF j

LEMMA FailedKeeps ==
  ASSUME AffinityInv, NEW q \in AffinityRequests, FailedRequest(q)
  PROVE  AffinityInv' /\ af'.entries = af.entries
<1> DEFINE k == af.tokens[q]
           t == k.target
           b == af'
<1>1. k.state = "routed" /\ b = [af EXCEPT !.tokens[q] = [k EXCEPT !.state = "recorded"]]
  BY DEF FailedRequest
<1>2. Affine(af) /\ k \in AffTokens
  <2>1. Affine(af) /\ af.tokens[q] \in AffTokens \cup {IdleToken}
    BY DEF AffinityInv, Affine, AffStates
  <2> QED
    BY <1>1, <2>1, KindsDiffer
<1>3. Used(k, t) = [k EXCEPT !.state = "recorded"] /\ t \in Pins
  <2> HIDE DEF k
  <2> QED
    BY <1>2 DEF AffTokens, Used
<1>4. b = [af EXCEPT !.tokens[q] = Used(af.tokens[q], t)]
  BY <1>1, <1>3
<1> HIDE DEF b, t
<1>5. Affine(b) /\ b.entries = af.entries
  BY <1>1, <1>2, <1>3, <1>4, TokenUsed
<1> QED
  BY <1>5 DEF b, AffinityInv, Affine, TokenHonest, EntryHonest, ServedBy, Pinned, Count, Present

LEMMA TickKeeps ==
  ASSUME AffinityInv, TickAffinity
  PROVE  AffinityInv' /\ af'.entries = af.entries
<1> DEFINE b == af'
<1>1. af.now < LastTick /\ b = [af EXCEPT !.now = af.now + 1]
  BY DEF TickAffinity
<1>2. Affine(af) /\ af \in AffStates
  BY DEF AffinityInv, Affine
<1>3. af.now + 1 \in 0..LastTick
  BY <1>1, <1>2, AffinityAssumption DEF AffStates
<1> HIDE DEF b
<1>4. b \in AffStates /\ b.revision = af.revision /\ b.entries = af.entries /\ b.tokens = af.tokens
  BY <1>1, <1>2, <1>3 DEF AffStates
<1>5. Affine(b)
  BY <1>2, <1>4 DEF Affine, TokenHonest, EntryHonest, ServedBy, Pinned, Count, Present
<1> QED
  BY <1>4, <1>5 DEF b, AffinityInv, Affine, TokenHonest, EntryHonest, ServedBy, Pinned, Count, Present
\* What a session may look like after a success of request q was recorded.
Rewritten(a, b, q, t) ==
  LET k == a.tokens[q]
      s == k.session
      o == a.entries[s]
      e == b.entries[s]
  IN  /\ e.basis = k.basis /\ e.policy = k.policy /\ e.target = t
      /\ Present(s, a.entries) /\ ~ExpiredAt(a, o) =>
           /\ o.revision = k.expected
           /\ ~(o.target = t /\ o.policy = k.policy) => e.served = {q}

\* RecordAffinitySuccess rewrites only the entry that the token saw, or none.
LEMMA RecordKeeps ==
  ASSUME AffinityInv, NEW q \in AffinityRequests, NEW t \in AffinityTargets, RecordAffinitySuccess(q, t)
  PROVE  /\ AffinityInv' /\ af.tokens[q].state = "routed" /\ af.tokens[q] \in AffTokens
         /\ \A x \in Sessions :
              \/ af'.entries[x] = af.entries[x] \/ af'.entries[x] = NoEntry
              \/ x = af.tokens[q].session /\ Rewritten(af, af', q, t)
<1> DEFINE k == af.tokens[q]
           s == k.session
           j == Used(k, t)
           used == [af EXCEPT !.tokens[q] = [k EXCEPT !.state = "recorded", !.target = t]]
           swept == IF ExpiredAt(used, used.entries[s]) THEN Drop(used, s) ELSE used
           room == MadeRoom(swept, s)
           b == af'
<1>1. /\ k.state = "routed"
      /\ b = IF af.now >= k.issued + SessionTTL THEN used
             ELSE IF ~MayWrite(swept, k) THEN swept
             ELSE IF ~HasRoom(room, s) THEN room
             ELSE [room EXCEPT !.revision = @ + 1, !.entries[s] = NextEntry(room, q, t)]
  BY DEF RecordAffinitySuccess
<1>2. Affine(af) /\ t \in Pins
  BY DEF AffinityInv, Pins
<1>3. used = [af EXCEPT !.tokens[q] = Used(af.tokens[q], t)]
  BY DEF Used
<1> HIDE DEF used
<1>4. /\ Affine(used) /\ used.now = af.now /\ used.revision = af.revision /\ used.entries = af.entries
      /\ used.tokens[q] = j /\ j \in AffTokens /\ j.state = "recorded" /\ j.target = t
      /\ j.session = s /\ j.policy = k.policy /\ j.basis = k.basis /\ k \in AffTokens
  <2>1. af.tokens[q].state = "routed"
    BY <1>1
  <2> HIDE DEF swept, room, b
  <2>2. Affine(used) /\ used.now = af.now /\ used.revision = af.revision /\ used.entries = af.entries
    BY <1>2, <1>3, <2>1, TokenUsed
  <2>3. used.tokens[q] = Used(af.tokens[q], t)
    BY <1>2, <1>3 DEF Affine, AffStates
  <2>4. /\ Used(af.tokens[q], t) \in AffTokens /\ af.tokens[q] \in AffTokens
        /\ Used(af.tokens[q], t).state = "recorded" /\ Used(af.tokens[q], t).target = t
    BY <1>2, <1>3, <2>1, TokenUsed
  <2>5. /\ Used(af.tokens[q], t).session = af.tokens[q].session /\ Used(af.tokens[q], t).policy = af.tokens[q].policy
        /\ Used(af.tokens[q], t).basis = af.tokens[q].basis
    BY <1>2, <1>3, <2>1, TokenUsed
  <2> QED
    BY <2>2, <2>3, <2>4, <2>5
<1>5. s \in Sessions
  <2> HIDE DEF k
  <2> QED
    BY <1>4 DEF AffTokens
<1> HIDE DEF j, s
<1>6. /\ Affine(swept) /\ swept.now = af.now /\ swept.revision = af.revision /\ swept.tokens = used.tokens
      /\ \A x \in Sessions : swept.entries[x] = af.entries[x] \/ swept.entries[x] = NoEntry
      /\ Present(s, af.entries) /\ ~ExpiredAt(af, af.entries[s]) => swept.entries[s] = af.entries[s]
  <2>1. ExpiredAt(used, used.entries[s]) = ExpiredAt(af, af.entries[s])
    BY <1>4 DEF ExpiredAt
  <2>2. CASE ExpiredAt(used, used.entries[s])
    <3>1. swept = Drop(used, s)
      BY <2>2
    <3> HIDE DEF swept, k
    <3> QED
      BY <1>4, <1>5, <2>1, <2>2, <3>1, DropKeeps
  <2>3. CASE ~ExpiredAt(used, used.entries[s])
    <3>1. swept = used
      BY <2>3
    <3> HIDE DEF swept, k
    <3> QED
      BY <1>4, <3>1
  <2> QED
    BY <2>2, <2>3
<1> HIDE DEF swept
<1>7. /\ Affine(room) /\ room.now = af.now /\ room.revision = af.revision /\ room.tokens = used.tokens
      /\ \A x \in Sessions : room.entries[x] = af.entries[x] \/ room.entries[x] = NoEntry
      /\ room.entries[s] = swept.entries[s]
  <2> HIDE DEF k
  <2>1. LET r == room
        IN  /\ Affine(r) /\ r.now = swept.now /\ r.revision = swept.revision /\ r.tokens = swept.tokens
            /\ \A x \in Sessions : r.entries[x] = swept.entries[x] \/ r.entries[x] = NoEntry
            /\ r.entries[s] = swept.entries[s]
    BY <1>5, <1>6, RoomKeeps
  <2> HIDE DEF room
  <2> QED
    BY <1>6, <2>1
<1> HIDE DEF room, k, b
<1>8. CASE af.now >= k.issued + SessionTTL
  <2>1. b = used
    BY <1>1, <1>8
  <2>2. Affine(b) /\ \A x \in Sessions : b.entries[x] = af.entries[x] \/ b.entries[x] = NoEntry
    BY <1>4, <2>1
  <2> QED
    BY <1>1, <1>4, <2>2 DEF b, k, AffinityInv, Affine, TokenHonest, EntryHonest, ServedBy, Pinned, Count, Present
<1>9. CASE ~(af.now >= k.issued + SessionTTL) /\ ~MayWrite(swept, k)
  <2>1. b = swept
    BY <1>1, <1>9
  <2>2. Affine(b) /\ \A x \in Sessions : b.entries[x] = af.entries[x] \/ b.entries[x] = NoEntry
    BY <1>6, <2>1
  <2> QED
    BY <1>1, <1>4, <2>2 DEF b, k, AffinityInv, Affine, TokenHonest, EntryHonest, ServedBy, Pinned, Count, Present
<1>10. CASE ~(af.now >= k.issued + SessionTTL) /\ MayWrite(swept, k) /\ ~HasRoom(room, s)
  <2>1. b = room
    BY <1>1, <1>10
  <2>2. Affine(b) /\ \A x \in Sessions : b.entries[x] = af.entries[x] \/ b.entries[x] = NoEntry
    BY <1>7, <2>1
  <2> QED
    BY <1>1, <1>4, <2>2 DEF b, k, AffinityInv, Affine, TokenHonest, EntryHonest, ServedBy, Pinned, Count, Present
<1>11. CASE ~(af.now >= k.issued + SessionTTL) /\ MayWrite(swept, k) /\ HasRoom(room, s)
  <2> DEFINE e == NextEntry(room, q, t)
             o == room.entries[s]
  <2>1. b = Written(room, s, NextEntry(room, q, t))
    BY <1>1, <1>11 DEF Written
  <2>2. ASSUME NEW x \in Sessions, Present(x, room.entries) PROVE q \notin room.entries[x].served
    <3>1. Present(x, af.entries) /\ room.entries[x] = af.entries[x] /\ EntryHonest(af, x)
      BY <1>2, <1>7, <2>2 DEF Present, Affine
    <3>2. q \in af.entries[x].served => ServedBy(af, q, x, af.entries[x].policy, af.entries[x].target)
      BY <3>1 DEF EntryHonest
    <3> QED
      BY <1>1, <3>1, <3>2 DEF ServedBy, k
  <2>3. room.tokens[q] = j
    BY <1>4, <1>7
  <2>4. Affine(b) /\ b.entries[s] = e /\ \A x \in Sessions \ {s} : b.entries[x] = room.entries[x]
    BY <1>4, <1>5, <1>7, <1>11, <2>1, <2>2, <2>3, EntryWritten
  <2>5. /\ e.basis = k.basis /\ e.policy = k.policy /\ e.target = t
        /\ ~(o # NoEntry /\ o.target = t /\ o.policy = k.policy) => e.served = {q}
    BY <1>4, <2>3 DEF NextEntry
  <2>6. Present(s, af.entries) /\ ~ExpiredAt(af, af.entries[s]) => o = af.entries[s] /\ o.revision = k.expected
    BY <1>6, <1>7, <1>11 DEF MayWrite, Present, s
  <2> HIDE DEF e, o
  <2>7. Rewritten(af, b, q, t)
    BY <2>4, <2>5, <2>6 DEF Rewritten, k, s
  <2>8. \A x \in Sessions \ {s} : b.entries[x] = af.entries[x] \/ b.entries[x] = NoEntry
    BY <1>7, <2>4
  <2>9. AffinityInv'
    BY <2>4 DEF b, AffinityInv, Affine, TokenHonest, EntryHonest, ServedBy, Pinned, Count, Present
  <2> QED
    BY <1>1, <1>4, <2>7, <2>8, <2>9 DEF b, k, s
<1> QED
  BY <1>8, <1>9, <1>10, <1>11

LEMMA AffinityStep ==
  AffinityInv /\ [NextAffinity]_af => AffinityInv'
<1> SUFFICES ASSUME AffinityInv, [NextAffinity]_af PROVE AffinityInv'
  OBVIOUS
<1>1. CASE UNCHANGED af
  BY <1>1 DEF AffinityInv, Affine, TokenHonest, EntryHonest, ServedBy, Pinned, Count, Present
<1>2. CASE NextAffinity
  BY <1>2, PrepareKeeps, KeepTargetKeeps, LoseTargetKeeps, FailedKeeps, TickKeeps, RecordKeeps DEF NextAffinity
<1> QED
  BY <1>1, <1>2

-----------------------------------------------------------------------------
(* What a step may do to a session. *)

\* A session is rewritten by a recorded success only; every other step keeps or
\* drops the entry.
LEMMA EntriesMove ==
  ASSUME AffinityInv, NextAffinity
  PROVE  \/ \A x \in Sessions : af'.entries[x] = af.entries[x] \/ af'.entries[x] = NoEntry
         \/ \E q \in AffinityRequests, t \in AffinityTargets :
              /\ af.tokens[q].state = "routed" /\ af.tokens[q] \in AffTokens
              /\ \A x \in Sessions :
                   \/ af'.entries[x] = af.entries[x] \/ af'.entries[x] = NoEntry
                   \/ x = af.tokens[q].session /\ Rewritten(af, af', q, t)
  BY PrepareKeeps, KeepTargetKeeps, LoseTargetKeeps, FailedKeeps, TickKeeps, RecordKeeps DEF NextAffinity

LEMMA StepsKeepHolds ==
  ASSUME AffinityInv, NextAffinity
  PROVE  NoStaleOverwrite /\ HeldSessionsStay
<1>1. CASE \A x \in Sessions : af'.entries[x] = af.entries[x] \/ af'.entries[x] = NoEntry
  BY <1>1 DEF NoStaleOverwrite, HeldSessionsStay, Present
<1>2. ASSUME NEW q \in AffinityRequests, NEW t \in AffinityTargets,
             af.tokens[q].state = "routed", af.tokens[q] \in AffTokens,
             \A x \in Sessions : \/ af'.entries[x] = af.entries[x] \/ af'.entries[x] = NoEntry
                                 \/ x = af.tokens[q].session /\ Rewritten(af, af', q, t)
      PROVE  NoStaleOverwrite /\ HeldSessionsStay
  <2> DEFINE k == af.tokens[q]
  <2>1. TokenHonest(af, q) /\ k # IdleToken
    BY <1>2, KindsDiffer DEF AffinityInv, Affine
  <2>2. k.expected <= k.basis /\ k.expected \in Nat /\ k.basis \in Nat
    BY <1>2, <2>1 DEF TokenHonest, AffTokens
  <2>3. NoStaleOverwrite
    <3> SUFFICES ASSUME NEW s \in Sessions, Present(s, af.entries), Present(s, af'.entries),
                        af.entries[s] # af'.entries[s], ~ExpiredAt(af, af.entries[s])
                 PROVE  af'.entries[s].basis >= af.entries[s].revision
      BY DEF NoStaleOverwrite
    <3>1. s = k.session /\ Rewritten(af, af', q, t)
      BY <1>2 DEF Present
    <3>2. af'.entries[s].basis = k.basis /\ af.entries[s].revision = k.expected
      BY <3>1 DEF Rewritten
    <3> QED
      BY <2>2, <3>2
  <2>4. HeldSessionsStay
    <3> SUFFICES ASSUME NEW s \in Sessions, NEW p \in AffinityRequests,
                        Present(s, af.entries), Present(s, af'.entries), ~ExpiredAt(af, af.entries[s]),
                        af'.entries[s].target # af.entries[s].target,
                        af'.entries[s].policy = af.entries[s].policy, p \in af'.entries[s].served,
                        af.tokens[p].issued < af.entries[s].since + MinHold \/ af.entries[s].requests < MinRequests
                 PROVE  af.tokens[p].pin = af.entries[s].target
      BY DEF HeldSessionsStay
    <3>1. s = k.session /\ Rewritten(af, af', q, t)
      BY <1>2 DEF Present
    <3>2. af.entries[s].revision = k.expected /\ p = q
      BY <3>1 DEF Rewritten
    <3>3. af.entries[s] = k.entry /\ (Held(k) => k.pin = k.entry.target)
      BY <1>2, <2>1, <3>1, <3>2 DEF TokenHonest
    <3>4. Held(k)
      BY <3>2, <3>3 DEF Held
    <3> QED
      BY <3>2, <3>3, <3>4
  <2> QED
    BY <2>3, <2>4
<1> QED
  BY <1>1, <1>2, EntriesMove

LEMMA AffinityInvImplies ==
  AffinityInv => AffinityTypeOK /\ StreakCounted
<1> SUFFICES ASSUME AffinityInv PROVE AffinityTypeOK /\ StreakCounted
  OBVIOUS
<1>1. af \in AffStates /\ Count(af) <= MaxEntries /\ \A s \in Sessions : EntryHonest(af, s)
  BY DEF AffinityInv, Affine
<1>2. af.now \in 0..LastTick /\ af.revision \in Nat
  BY <1>1 DEF AffStates
<1>3. AffinityTypeOK
  BY <1>1, <1>2 DEF AffinityTypeOK, EntryHonest
<1>4. StreakCounted
  BY <1>1 DEF StreakCounted, EntryHonest, ServedBy
<1> QED
  BY <1>3, <1>4

(* Sessions move with cause (affinity.go, RecordAffinity and selectAffinity):  *)
(* whatever the number of sessions, of overlapping requests and of targets,    *)
(* and wherever the hold, the lifetime and the capacity lie, the store never   *)
(* exceeds its capacity, a streak counts the distinct requests that its target *)
(* served, an answer routed before the last change does not undo it, and a     *)
(* held session moves only with a request that led with the held target.       *)
THEOREM SessionsMoveWithCause == AffinitySpec => SessionsHold
<1>1. AffinityInv /\ AffinityInv' /\ [NextAffinity]_af
      => [AffinityTypeOK' /\ StreakCounted' /\ NoStaleOverwrite /\ HeldSessionsStay]_af
  <2> SUFFICES ASSUME AffinityInv, AffinityInv', NextAffinity
               PROVE  AffinityTypeOK' /\ StreakCounted' /\ NoStaleOverwrite /\ HeldSessionsStay
    OBVIOUS
  <2>1. AffinityInv' => AffinityTypeOK' /\ StreakCounted'
    BY AffinityInvImplies, PTL
  <2> QED
    BY <2>1, StepsKeepHolds
<1> QED
  BY <1>1, AffinityStarts, AffinityStep, PTL DEF AffinitySpec, SessionsHold

-----------------------------------------------------------------------------
(* Shared admission: the locks of transactions and what they were decided on *)

\* The place of a row: within bounds, and no two rows of a transaction share one.
LEMMA PlaceOfLimit ==
  ASSUME NEW c \in SharedLimits
  PROVE  LET p == CHOOSE i \in 1..Len(Order) : Order[i] = c IN p \in 1..Len(Order) /\ Order[p] = c
<1>1. \E i \in 1..Len(Order) : Order[i] = c
  BY DEF SharedLimits
<1> QED
  BY <1>1

LEMMA RankOfRow ==
  ASSUME NEW k \in {"account", "counter"}, NEW c \in SharedLimits, NEW w
  PROVE  LET p == CHOOSE i \in 1..Len(Order) : Order[i] = c
         IN  /\ LockRank(<<k, c, w>>) = (IF k = "account" THEN p ELSE Len(Order) + p)
             /\ LockRank(<<k, c, w>>) \in 1..(Len(Order) + Len(Order))
<1> DEFINE p == CHOOSE i \in 1..Len(Order) : Order[i] = c
<1>1. p \in 1..Len(Order)
  BY PlaceOfLimit
<1>2. LockRank(<<k, c, w>>) = IF k = "account" THEN p ELSE Len(Order) + p
  <2> DEFINE row == <<k, c, w>>
  <2>1. row[1] = k /\ row[2] = c
    OBVIOUS
  <2> HIDE DEF row
  <2>2. LockRank(row) = IF row[1] = "account" THEN p ELSE Len(Order) + p
    BY <2>1 DEF LockRank
  <2> QED
    BY <2>1, <2>2 DEF row
<1>3. Len(Order) \in Nat
  BY SharedAssumption
<1> HIDE DEF p
<1>4. LockRank(<<k, c, w>>) \in 1..(Len(Order) + Len(Order))
  BY <1>1, <1>2, <1>3
<1> QED
  BY <1>2, <1>4 DEF p

LEMMA SamePlace ==
  ASSUME NEW n \in Nat, NEW p \in 1..n, NEW q \in 1..n, NEW k \in {"account", "counter"}, NEW l \in {"account", "counter"},
         (IF k = "account" THEN p ELSE n + p) = (IF l = "account" THEN q ELSE n + q)
  PROVE  k = l /\ p = q
  OBVIOUS

\* The rows of a transaction that is sound.
LEMMA RowsRanked ==
  ASSUME NEW e, LockedLimits(e) \subseteq SharedLimits
  PROVE  /\ \A row \in LockRows(e) : LockRank(row) \in 1..(Len(Order) + Len(Order))
         /\ \A row, other \in LockRows(e) : LockRank(row) = LockRank(other) => row = other
<1>1. ASSUME NEW row \in LockRows(e)
      PROVE  \E k \in {"account", "counter"}, c \in SharedLimits : row = <<k, c, WindowOf(e, c)>>
  BY DEF LockRows, Row
<1>2. ASSUME NEW row \in LockRows(e) PROVE LockRank(row) \in 1..(Len(Order) + Len(Order))
  <2>1. PICK k \in {"account", "counter"}, c \in SharedLimits : row = <<k, c, WindowOf(e, c)>>
    BY <1>1
  <2> QED
    BY <2>1, RankOfRow
<1>3. ASSUME NEW row \in LockRows(e), NEW other \in LockRows(e), LockRank(row) = LockRank(other) PROVE row = other
  <2>1. PICK k \in {"account", "counter"}, c \in SharedLimits : row = <<k, c, WindowOf(e, c)>>
    BY <1>1
  <2>2. PICK l \in {"account", "counter"}, d \in SharedLimits : other = <<l, d, WindowOf(e, d)>>
    BY <1>1
  <2> DEFINE p == CHOOSE i \in 1..Len(Order) : Order[i] = c
             q == CHOOSE i \in 1..Len(Order) : Order[i] = d
  <2>3. p \in 1..Len(Order) /\ q \in 1..Len(Order) /\ Order[p] = c /\ Order[q] = d /\ Len(Order) \in Nat
    BY PlaceOfLimit, SharedAssumption
  <2>4. LockRank(row) = IF k = "account" THEN p ELSE Len(Order) + p
    BY <2>1, RankOfRow
  <2>5. LockRank(other) = IF l = "account" THEN q ELSE Len(Order) + q
    BY <2>2, RankOfRow
  <2> HIDE DEF p, q
  <2>6. k = l /\ p = q
    <3>1. (IF k = "account" THEN p ELSE Len(Order) + p) = (IF l = "account" THEN q ELSE Len(Order) + q)
      BY <1>3, <2>4, <2>5, Zenon
    <3> QED
      BY <2>3, <3>1, SamePlace
  <2>7. k = l /\ c = d
    BY <2>3, <2>6
  <2> QED
    BY <2>1, <2>2, <2>7
<1> QED
  BY <1>2, <1>3

\* The transaction of an attempt holds rows of its own that precede every one it
\* still needs; a reservation's snapshot is current, and a settlement has a permit.
TxSound(e) ==
  tx[e] # NoTx =>
    /\ tx[e] \in [op : {"reserve", "terminal"}, now : Nat, held : SUBSET LockRows(e)]
    /\ \A row \in tx[e].held, other \in Unlocked(e) : LockRank(row) < LockRank(other)
    /\ tx[e].op = "reserve" => attempt[e].saw = version
    /\ tx[e].op = "terminal" => permits[e] \in NewPermits

AttemptSound(e) ==
  /\ DOMAIN attempt[e] = {"phase", "saw", "settlement"} /\ attempt[e].saw \in [Documents -> Nat]
  /\ attempt[e].phase \in {"permitted", "dispatched"} => permits[e] \in NewPermits

SharedInv ==
  /\ clock \in Nat /\ version \in [Documents -> Nat]
  /\ DOMAIN defs = SharedLimits /\ \A c \in SharedLimits : defs[c] \in Definitions[c]
  /\ DOMAIN attempt = SharedAttempts /\ DOMAIN permits = SharedAttempts /\ DOMAIN tx = SharedAttempts
  /\ \A e \in SharedAttempts : TxSound(e) /\ AttemptSound(e)

LEMMA OwnLimits ==
  ASSUME NEW e \in SharedAttempts, tx[e] # NoTx, TxSound(e)
  PROVE  LockedLimits(e) \subseteq SharedLimits
  BY DEF TxSound, LockedLimits, Active, NewPermits

\* No transaction waits for one that waits in turn for a row of a lower rank.
LEMMA WaitsClimb ==
  ASSUME SharedInv, NEW e \in SharedAttempts, NEW f \in SharedAttempts, Waits(e, f),
         NEW row \in NextRows(e), NEW other \in NextRows(f)
  PROVE  LockRank(row) < LockRank(other) /\ LockRank(other) \in 1..(Len(Order) + Len(Order))
<1>1. tx[e] # NoTx /\ tx[f] # NoTx /\ TxSound(e) /\ TxSound(f)
  BY DEF Waits, SharedInv
<1>2. PICK held \in NextRows(e) : held \in tx[f].held
  BY DEF Waits
<1>3. held \in LockRows(e) /\ row \in LockRows(e) /\ LockRank(row) <= LockRank(held) /\ LockRank(held) <= LockRank(row)
  BY <1>2 DEF NextRows, Unlocked
<1>4. other \in LockRows(f) /\ other \in Unlocked(f)
  BY DEF NextRows, Unlocked
<1>5. LockRank(held) < LockRank(other)
  BY <1>1, <1>2, <1>4 DEF TxSound
<1>6. LockRank(row) \in Nat /\ LockRank(held) \in Nat /\ LockRank(other) \in 1..(Len(Order) + Len(Order))
  BY <1>1, <1>3, <1>4, OwnLimits, RowsRanked
<1> QED
  BY <1>3, <1>5, <1>6

\* The last row that someone waits for is held by nobody who waits.
LEMMA LocksStraight ==
  ASSUME SharedInv
  PROVE  NoWaitCycle
<1> SUFFICES ASSUME NEW S \in SUBSET SharedAttempts, S # {}, \A e \in S : \E f \in S : Waits(e, f)
             PROVE  FALSE
  BY DEF NoWaitCycle
<1> DEFINE n == Len(Order) + Len(Order)
           T == {r \in 0..n : \E e \in S : \E row \in NextRows(e) : LockRank(row) = r}
<1>1. n \in Nat
  BY SharedAssumption
<1>2. ASSUME NEW e \in S, NEW f \in S, Waits(e, f) PROVE \E row \in NextRows(e) : TRUE
  BY <1>2 DEF Waits
<1>3. ASSUME NEW e \in S, NEW f \in S, Waits(e, f), NEW row \in NextRows(e), NEW other \in NextRows(f)
      PROVE  LockRank(row) < LockRank(other) /\ LockRank(other) \in 0..n
  <2>1. LockRank(row) < LockRank(other) /\ LockRank(other) \in 1..n
    BY <1>3, WaitsClimb
  <2> QED
    BY <1>1, <2>1
<1>4. T # {}
  <2>1. PICK e \in S : TRUE
    OBVIOUS
  <2>2. PICK f \in S : Waits(e, f)
    OBVIOUS
  <2>3. PICK g \in S : Waits(f, g)
    OBVIOUS
  <2>4. PICK row \in NextRows(e), other \in NextRows(f) : TRUE
    BY <1>2, <2>2, <2>3
  <2>5. LockRank(other) \in 0..n
    BY <1>3, <2>2
  <2> QED
    BY <2>5
<1> HIDE DEF n
<1>5. PICK top \in T : \A r \in T : r <= top
  <2>1. T \subseteq Nat /\ \A r \in T : r <= n
    BY <1>1
  <2> HIDE DEF T
  <2> QED
    BY <1>1, <1>4, <2>1, HighestIsIn
<1>6. PICK e \in S : \E row \in NextRows(e) : LockRank(row) = top
  BY <1>5
<1>12. PICK row \in NextRows(e) : LockRank(row) = top
  BY <1>6
<1>7. PICK f \in S : Waits(e, f)
  OBVIOUS
<1>8. PICK g \in S : Waits(f, g)
  OBVIOUS
<1>9. PICK other \in NextRows(f) : TRUE
  BY <1>2, <1>8
<1>10. LockRank(other) \in T /\ LockRank(row) < LockRank(other)
  BY <1>3, <1>7
<1>11. LockRank(other) <= top /\ top \in Nat /\ LockRank(other) \in Nat
  BY <1>5, <1>10
<1> QED
  BY <1>10, <1>11, <1>12

\* What a transaction rests on is its own attempt and permit and, while it reserves,
\* the definitions and the documents.
LEMMA TxFramed ==
  ASSUME NEW e \in SharedAttempts, TxSound(e), tx'[e] = tx[e], attempt'[e].saw = attempt[e].saw, permits'[e] = permits[e],
         SharesDocuments(e) => defs' = defs /\ version' = version
  PROVE  TxSound(e)'
<1> SUFFICES ASSUME tx[e] # NoTx PROVE TxSound(e)'
  BY DEF TxSound
<1>1. CASE tx[e].op = "reserve"
  <2>1. defs' = defs /\ version' = version
    BY <1>1 DEF SharesDocuments
  <2>2. LockRows(e)' = LockRows(e)
    BY <1>1, <2>1 DEF LockRows, Row, LockedLimits, WindowOf, Active
  <2> QED
    BY <1>1, <2>1, <2>2 DEF TxSound, Unlocked
<1>2. CASE tx[e].op # "reserve"
  <2>1. LockRows(e)' = LockRows(e)
    BY <1>2 DEF LockRows, Row, LockedLimits, WindowOf
  <2> QED
    BY <1>2, <2>1 DEF TxSound, Unlocked
<1> QED
  BY <1>1, <1>2

\* A step of one attempt leaves the others as they are.
LEMMA OwnStep ==
  ASSUME SharedInv, NEW e \in SharedAttempts, UNCHANGED <<clock, defs, version>>,
         DOMAIN tx' = SharedAttempts, DOMAIN attempt' = SharedAttempts, DOMAIN permits' = SharedAttempts,
         \A f \in SharedAttempts \ {e} : tx'[f] = tx[f] /\ attempt'[f] = attempt[f] /\ permits'[f] = permits[f],
         TxSound(e)', AttemptSound(e)'
  PROVE  SharedInv'
<1>1. ASSUME NEW f \in SharedAttempts, f # e PROVE TxSound(f)' /\ AttemptSound(f)'
  <2>1. TxSound(f)'
    BY <1>1, TxFramed DEF SharedInv
  <2>2. AttemptSound(f)'
    BY <1>1 DEF SharedInv, AttemptSound
  <2> QED
    BY <2>1, <2>2
<1> QED
  BY <1>1 DEF SharedInv

\* The phase of an attempt moves on, and what it saw stays.
LEMMA PhaseMoves ==
  ASSUME SharedInv, NEW e \in SharedAttempts, NEW p, attempt' = [attempt EXCEPT ![e].phase = p],
         p \in {"permitted", "dispatched"} => permits'[e] \in NewPermits
  PROVE  /\ DOMAIN attempt' = SharedAttempts /\ \A f \in SharedAttempts \ {e} : attempt'[f] = attempt[f]
         /\ attempt'[e].saw = attempt[e].saw /\ AttemptSound(e)'
<1> DEFINE a == attempt[e]
           b == [a EXCEPT !.phase = p]
<1>1. attempt' = [attempt EXCEPT ![e] = b]
  OBVIOUS
<1>2. DOMAIN attempt = SharedAttempts /\ DOMAIN a = {"phase", "saw", "settlement"} /\ a.saw \in [Documents -> Nat]
  BY DEF SharedInv, AttemptSound
<1>3. DOMAIN b = {"phase", "saw", "settlement"} /\ b.saw = a.saw /\ b.phase = p
  BY <1>2
<1> HIDE DEF a, b
<1>4. /\ DOMAIN attempt' = SharedAttempts /\ attempt'[e] = b
      /\ \A f \in SharedAttempts \ {e} : attempt'[f] = attempt[f]
  BY <1>1, <1>2
<1> QED
  BY <1>2, <1>3, <1>4 DEF AttemptSound, a

\* A transaction that ends.
LEMMA TxEnds ==
  ASSUME SharedInv, NEW e \in SharedAttempts, tx' = [tx EXCEPT ![e] = NoTx]
  PROVE  /\ DOMAIN tx' = SharedAttempts /\ \A f \in SharedAttempts \ {e} : tx'[f] = tx[f]
         /\ TxSound(e)'
  BY DEF SharedInv, TxSound

\* A transaction that begins holds nothing.
LEMMA TxBegins ==
  ASSUME SharedInv, NEW e \in SharedAttempts, NEW op \in {"reserve", "terminal"},
         tx' = [tx EXCEPT ![e] = [op |-> op, now |-> clock, held |-> {}]],
         op = "reserve" => attempt'[e].saw = version', op = "terminal" => permits'[e] \in NewPermits
  PROVE  /\ DOMAIN tx' = SharedAttempts /\ \A f \in SharedAttempts \ {e} : tx'[f] = tx[f]
         /\ TxSound(e)'
<1>1. DOMAIN tx' = SharedAttempts /\ \A f \in SharedAttempts \ {e} : tx'[f] = tx[f]
  BY DEF SharedInv
<1>2. tx'[e] = [op |-> op, now |-> clock, held |-> {}] /\ clock \in Nat
  BY DEF SharedInv
<1> QED
  BY <1>1, <1>2 DEF TxSound

LEMMA ArriveKeeps ==
  ASSUME SharedInv, NEW e \in SharedAttempts, Arrive(e)
  PROVE  SharedInv'
<1> DEFINE a == attempt[e]
           b == [[a EXCEPT !.phase = "ready"] EXCEPT !.saw = version]
<1>1. attempt' = [attempt EXCEPT ![e] = b] /\ UNCHANGED <<clock, defs, version, permits, tx>>
  BY DEF Arrive
<1>2. DOMAIN attempt = SharedAttempts /\ DOMAIN a = {"phase", "saw", "settlement"} /\ version \in [Documents -> Nat]
  BY DEF SharedInv, AttemptSound
<1>3. DOMAIN b = {"phase", "saw", "settlement"} /\ b.saw = version /\ b.phase = "ready"
  BY <1>2
<1> HIDE DEF a, b
<1>4. /\ DOMAIN attempt' = SharedAttempts /\ attempt'[e] = b
      /\ \A f \in SharedAttempts \ {e} : attempt'[f] = attempt[f]
  BY <1>1, <1>2
<1>5. AttemptSound(e)'
  BY <1>2, <1>3, <1>4 DEF AttemptSound
<1>6. TxSound(e)'
  <2>1. LockRows(e)' = LockRows(e) /\ Unlocked(e)' = Unlocked(e)
    BY <1>1 DEF LockRows, Row, LockedLimits, WindowOf, Active, Unlocked
  <2> QED
    BY <1>1, <1>3, <1>4, <2>1 DEF TxSound, SharedInv
<1> QED
  BY <1>1, <1>4, <1>5, <1>6, OwnStep DEF SharedInv

LEMMA BeginReserveKeeps ==
  ASSUME SharedInv, NEW e \in SharedAttempts, BeginReserve(e)
  PROVE  SharedInv'
<1>1. UNCHANGED <<clock, defs, version, permits>>
  BY DEF BeginReserve
<1>2. CASE /\ SnapshotCurrent(e) /\ tx' = [tx EXCEPT ![e] = [op |-> "reserve", now |-> clock, held |-> {}]]
           /\ attempt' = [attempt EXCEPT ![e].phase = "reserving"]
  <2>1. /\ DOMAIN attempt' = SharedAttempts /\ \A f \in SharedAttempts \ {e} : attempt'[f] = attempt[f]
        /\ attempt'[e].saw = attempt[e].saw /\ AttemptSound(e)'
    BY <1>2, PhaseMoves
  <2>2. attempt[e].saw = version
    BY <1>2 DEF SnapshotCurrent, SharedInv, AttemptSound
  <2>3. /\ DOMAIN tx' = SharedAttempts /\ \A f \in SharedAttempts \ {e} : tx'[f] = tx[f]
        /\ TxSound(e)'
    BY <1>1, <1>2, <2>1, <2>2, TxBegins
  <2> QED
    BY <1>1, <2>1, <2>3, OwnStep DEF SharedInv
<1>3. CASE attempt' = [attempt EXCEPT ![e].phase = "refused"] /\ UNCHANGED tx
  <2>1. /\ DOMAIN attempt' = SharedAttempts /\ \A f \in SharedAttempts \ {e} : attempt'[f] = attempt[f]
        /\ attempt'[e].saw = attempt[e].saw /\ AttemptSound(e)'
    BY <1>3, PhaseMoves
  <2>2. TxSound(e)'
    BY <1>1, <1>3, <2>1, TxFramed DEF SharedInv
  <2> QED
    BY <1>1, <1>3, <2>1, <2>2, OwnStep DEF SharedInv
<1> QED
  BY <1>2, <1>3 DEF BeginReserve

\* The row locked next precedes every one that is still needed.
LEMMA LockNextKeeps ==
  ASSUME SharedInv, NEW e \in SharedAttempts, LockNext(e)
  PROVE  SharedInv'
<1>1. tx[e] # NoTx /\ UNCHANGED <<clock, defs, version, permits, attempt>> /\ TxSound(e) /\ DOMAIN tx = SharedAttempts
  BY DEF LockNext, SharedInv
<1>2. PICK row \in NextRows(e) : tx' = [tx EXCEPT ![e].held = @ \cup {row}]
  BY DEF LockNext
<1> DEFINE t == tx[e]
           u == [t EXCEPT !.held = t.held \cup {row}]
<1>3. t \in [op : {"reserve", "terminal"}, now : Nat, held : SUBSET LockRows(e)]
  BY <1>1 DEF TxSound
<1>4. row \in LockRows(e) /\ row \notin t.held /\ \A other \in Unlocked(e) : LockRank(row) <= LockRank(other)
  BY DEF NextRows, Unlocked
<1>5. u \in [op : {"reserve", "terminal"}, now : Nat, held : SUBSET LockRows(e)] /\ u.op = t.op /\ u.now = t.now
      /\ u.held = t.held \cup {row}
  BY <1>3, <1>4
<1>6. tx' = [tx EXCEPT ![e] = u]
  BY <1>2
<1> HIDE DEF u
<1>7. DOMAIN tx' = SharedAttempts /\ tx'[e] = u /\ \A f \in SharedAttempts \ {e} : tx'[f] = tx[f]
  BY <1>1, <1>6
<1>8. LockRows(e)' = LockRows(e)
  BY <1>1, <1>5, <1>7 DEF LockRows, Row, LockedLimits, WindowOf, Active
<1>9. Unlocked(e)' = Unlocked(e) \ {row}
  BY <1>5, <1>7, <1>8 DEF Unlocked
<1>10. ASSUME NEW held \in u.held, NEW other \in Unlocked(e) \ {row} PROVE LockRank(held) < LockRank(other)
  <2>1. CASE held \in t.held
    BY <1>1, <2>1 DEF TxSound
  <2>2. CASE held = row
    <3>1. other \in LockRows(e) /\ LockRank(row) <= LockRank(other)
      BY <1>4 DEF Unlocked
    <3>2. LockRank(row) # LockRank(other) /\ LockRank(row) \in Nat /\ LockRank(other) \in Nat
      BY <1>1, <1>4, <3>1, OwnLimits, RowsRanked
    <3> QED
      BY <2>2, <3>1, <3>2
  <2> QED
    BY <1>5, <2>1, <2>2
<1>11. TxSound(e)'
  BY <1>1, <1>5, <1>7, <1>8, <1>9, <1>10 DEF TxSound
<1>12. AttemptSound(e)'
  BY <1>1 DEF SharedInv, AttemptSound
<1> QED
  BY <1>1, <1>7, <1>11, <1>12, OwnStep DEF SharedInv

\* The permit that a reservation writes.
LEMMA PermitWritten ==
  ASSUME SharedInv, NEW e \in SharedAttempts, NEW told, CommitReserve(e, told)
  PROVE  /\ DOMAIN permits' = SharedAttempts /\ \A f \in SharedAttempts \ {e} : permits'[f] = permits[f]
         /\ permits'[e] \in NewPermits
         /\ permits'[e].bookings = [c \in Active |-> [window |-> WindowOf(e, c), amount |-> BoundOf(c),
                                                      hard |-> defs[c].hard]]
<1> DEFINE k == [c \in Active |-> [window |-> WindowOf(e, c), amount |-> BoundOf(c), hard |-> defs[c].hard]]
           As == {BoundOf(c) : c \in SharedLimits}
           B == [window : Nat, amount : As, hard : BOOLEAN]
<1>1. permits' = [permits EXCEPT ![e] = [terminal |-> "", invalid |-> FALSE, bookings |-> k]]
  BY DEF CommitReserve
<1>2. tx[e] # NoTx /\ tx[e].op = "reserve" /\ tx[e].now \in Nat
  BY DEF CommitReserve, SharedInv, TxSound
<1>3. ASSUME NEW c \in Active PROVE k[c] \in B
  <2>1. c \in SharedLimits /\ defs[c] \in [limit : Nat, hard : BOOLEAN]
    BY PermitAssumption DEF Active, SharedInv
  <2>2. WindowOf(e, c) \in Nat
    BY <1>2, SharedAssumption DEF WindowOf, SharedWindow
  <2>3. BoundOf(c) \in As
    BY <2>1
  <2> HIDE DEF As
  <2> QED
    BY <2>1, <2>2, <2>3
<1>4. k \in [Active -> B] /\ Active \in SUBSET SharedLimits
  BY <1>3 DEF Active
<1>5. k \in UNION {[cs -> B] : cs \in SUBSET SharedLimits}
  <2> HIDE DEF k, B
  <2> QED
    BY <1>4
<1>6. [terminal |-> "", invalid |-> FALSE, bookings |-> k] \in NewPermits
  <2> HIDE DEF k
  <2> QED
    BY <1>5 DEF NewPermits
<1> HIDE DEF k
<1>7. DOMAIN permits = SharedAttempts
  BY DEF SharedInv
<1> QED
  BY <1>1, <1>6, <1>7 DEF k

LEMMA CommitReserveKeeps ==
  ASSUME SharedInv, NEW e \in SharedAttempts, NEW told, CommitReserve(e, told)
  PROVE  SharedInv'
<1> DEFINE p == IF told THEN "permitted" ELSE "refused"
<1>1. UNCHANGED <<clock, defs, version>> /\ tx' = [tx EXCEPT ![e] = NoTx] /\ attempt' = [attempt EXCEPT ![e].phase = p]
  BY DEF CommitReserve
<1>2. /\ DOMAIN permits' = SharedAttempts /\ \A f \in SharedAttempts \ {e} : permits'[f] = permits[f]
      /\ permits'[e] \in NewPermits
  BY PermitWritten
<1> HIDE DEF p
<1>3. /\ DOMAIN attempt' = SharedAttempts /\ \A f \in SharedAttempts \ {e} : attempt'[f] = attempt[f]
      /\ AttemptSound(e)'
  BY <1>1, <1>2, PhaseMoves
<1>4. DOMAIN tx' = SharedAttempts /\ (\A f \in SharedAttempts \ {e} : tx'[f] = tx[f]) /\ TxSound(e)'
  BY <1>1, TxEnds
<1> QED
  BY <1>1, <1>2, <1>3, <1>4, OwnStep

\* A transaction rolls back, and a settlement commits: the attempt is over.
LEMMA EndKeeps ==
  ASSUME SharedInv, NEW e \in SharedAttempts, RollbackReserve(e) \/ RollbackTerminal(e) \/ CommitTerminal(e)
  PROVE  SharedInv'
<1>1. PICK p \in {"refused", "done"} :
        UNCHANGED <<clock, defs, version>> /\ tx' = [tx EXCEPT ![e] = NoTx] /\ attempt' = [attempt EXCEPT ![e].phase = p]
  BY DEF RollbackReserve, RollbackTerminal, CommitTerminal
<1>2. DOMAIN permits' = SharedAttempts /\ \A f \in SharedAttempts \ {e} : permits'[f] = permits[f]
  <2>1. DOMAIN permits = SharedAttempts
    BY DEF SharedInv
  <2>2. CASE permits' = permits
    BY <2>1, <2>2
  <2>3. CASE CommitTerminal(e)
    <3>1. PICK q : permits' = [permits EXCEPT ![e] = q]
      BY <2>3 DEF CommitTerminal
    <3> QED
      BY <2>1, <3>1
  <2> QED
    BY <2>2, <2>3 DEF RollbackReserve, RollbackTerminal
<1>3. /\ DOMAIN attempt' = SharedAttempts /\ \A f \in SharedAttempts \ {e} : attempt'[f] = attempt[f]
      /\ AttemptSound(e)'
  BY <1>1, PhaseMoves
<1>4. DOMAIN tx' = SharedAttempts /\ (\A f \in SharedAttempts \ {e} : tx'[f] = tx[f]) /\ TxSound(e)'
  BY <1>1, TxEnds
<1> QED
  BY <1>1, <1>2, <1>3, <1>4, OwnStep

LEMMA DispatchKeeps ==
  ASSUME SharedInv, NEW e \in SharedAttempts, Dispatch(e)
  PROVE  SharedInv'
<1>1. /\ UNCHANGED <<clock, defs, version, permits, tx>> /\ attempt' = [attempt EXCEPT ![e].phase = "dispatched"]
      /\ attempt[e].phase = "permitted"
  BY DEF Dispatch
<1>2. permits'[e] \in NewPermits
  BY <1>1 DEF SharedInv, AttemptSound
<1>3. /\ DOMAIN attempt' = SharedAttempts /\ \A f \in SharedAttempts \ {e} : attempt'[f] = attempt[f]
      /\ attempt'[e].saw = attempt[e].saw /\ AttemptSound(e)'
  BY <1>1, <1>2, PhaseMoves
<1>4. TxSound(e)'
  BY <1>1, <1>3, TxFramed DEF SharedInv
<1> QED
  BY <1>1, <1>3, <1>4, OwnStep DEF SharedInv

LEMMA BeginTerminalKeeps ==
  ASSUME SharedInv, NEW e \in SharedAttempts, NEW s, BeginTerminal(e, s)
  PROVE  SharedInv'
<1> DEFINE a == attempt[e]
           b == [[a EXCEPT !.phase = "settling"] EXCEPT !.settlement = s]
<1>1. /\ attempt' = [attempt EXCEPT ![e] = b] /\ UNCHANGED <<clock, defs, version, permits>>
      /\ tx' = [tx EXCEPT ![e] = [op |-> "terminal", now |-> clock, held |-> {}]]
      /\ attempt[e].phase \in {"permitted", "dispatched"}
  BY DEF BeginTerminal
<1>2. /\ DOMAIN attempt = SharedAttempts /\ DOMAIN a = {"phase", "saw", "settlement"} /\ a.saw \in [Documents -> Nat]
      /\ permits[e] \in NewPermits
  BY <1>1 DEF SharedInv, AttemptSound
<1>3. DOMAIN b = {"phase", "saw", "settlement"} /\ b.saw = a.saw /\ b.phase = "settling"
  BY <1>2
<1> HIDE DEF a, b
<1>4. /\ DOMAIN attempt' = SharedAttempts /\ attempt'[e] = b
      /\ \A f \in SharedAttempts \ {e} : attempt'[f] = attempt[f]
  BY <1>1, <1>2
<1>5. AttemptSound(e)'
  BY <1>2, <1>3, <1>4 DEF AttemptSound
<1>6. DOMAIN tx' = SharedAttempts /\ (\A f \in SharedAttempts \ {e} : tx'[f] = tx[f]) /\ TxSound(e)'
  BY <1>1, <1>2, TxBegins
<1> QED
  BY <1>1, <1>4, <1>5, <1>6, OwnStep DEF SharedInv

\* An edit waits for the reservations that share the documents.
LEMMA EditKeeps ==
  ASSUME SharedInv, NEW d \in Documents, NEW c \in SharedLimits, NEW def \in Definitions[c], Edit(d, c, def)
  PROVE  SharedInv'
<1>1. /\ UNCHANGED <<clock, permits, tx, attempt>> /\ \A e \in SharedAttempts : ~SharesDocuments(e)
      /\ version' = [version EXCEPT ![d] = @ + 1]
      /\ defs' = defs \/ defs' = [defs EXCEPT ![c] = def]
  BY DEF Edit
<1>2. version' \in [Documents -> Nat] /\ DOMAIN defs' = SharedLimits /\ \A l \in SharedLimits : defs'[l] \in Definitions[l]
  BY <1>1 DEF SharedInv
<1>3. ASSUME NEW e \in SharedAttempts PROVE TxSound(e)' /\ AttemptSound(e)'
  <2>1. TxSound(e)'
    BY <1>1, TxFramed DEF SharedInv
  <2> QED
    BY <1>1, <2>1 DEF SharedInv, AttemptSound
<1> QED
  BY <1>1, <1>2, <1>3 DEF SharedInv

LEMMA SharedClockKeeps ==
  ASSUME SharedInv, SharedTick \/ UNCHANGED sharedVars
  PROVE  SharedInv'
<1>1. UNCHANGED <<defs, version, permits, tx, attempt>> /\ clock' \in Nat
  BY DEF SharedTick, sharedVars, SharedInv
<1>2. ASSUME NEW e \in SharedAttempts PROVE TxSound(e)' /\ AttemptSound(e)'
  <2>1. TxSound(e)'
    BY <1>1, TxFramed DEF SharedInv
  <2> QED
    BY <1>1, <2>1 DEF SharedInv, AttemptSound
<1> QED
  BY <1>1, <1>2 DEF SharedInv

LEMMA SharedInitially ==
  ASSUME InitShared
  PROVE  SharedInv
<1>1. clock \in Nat /\ version \in [Documents -> Nat] /\ DOMAIN defs = SharedLimits
      /\ \A c \in SharedLimits : defs[c] \in Definitions[c]
  BY DEF InitShared
<1>2. DOMAIN attempt = SharedAttempts /\ DOMAIN permits = SharedAttempts /\ DOMAIN tx = SharedAttempts
  BY DEF InitShared
<1>3. ASSUME NEW e \in SharedAttempts PROVE TxSound(e) /\ AttemptSound(e)
  <2>1. tx[e] = NoTx /\ attempt[e] = [phase |-> "new", saw |-> version, settlement |-> Canceled]
    BY DEF InitShared
  <2> QED
    BY <1>1, <2>1 DEF TxSound, AttemptSound
<1> QED
  BY <1>1, <1>2, <1>3 DEF SharedInv

LEMMA SharedStep ==
  ASSUME SharedInv, [NextShared]_sharedVars
  PROVE  SharedInv'
<1>1. CASE SharedTick \/ UNCHANGED sharedVars
  BY <1>1, SharedClockKeeps
<1>2. CASE \E d \in Documents, c \in SharedLimits : \E def \in Definitions[c] : Edit(d, c, def)
  BY <1>2, EditKeeps
<1>3. ASSUME NEW e \in SharedAttempts,
             \/ Arrive(e) \/ BeginReserve(e) \/ LockNext(e)
             \/ \E told \in BOOLEAN : CommitReserve(e, told)
             \/ RollbackReserve(e) \/ Dispatch(e)
             \/ \E r \in Reports, complete \in BOOLEAN : BeginTerminal(e, SettleShared(r, complete))
             \/ BeginTerminal(e, Canceled)
             \/ CommitTerminal(e) \/ RollbackTerminal(e)
      PROVE  SharedInv'
  <2>1. CASE \E r \in Reports, complete \in BOOLEAN : BeginTerminal(e, SettleShared(r, complete))
    <3>1. PICK s : BeginTerminal(e, s)
      BY <2>1
    <3> QED
      BY <3>1, BeginTerminalKeeps
  <2> QED
    BY <1>3, <2>1, ArriveKeeps, BeginReserveKeeps, LockNextKeeps, CommitReserveKeeps, DispatchKeeps, BeginTerminalKeeps,
       EndKeeps
<1> QED
  BY <1>1, <1>2, <1>3 DEF NextShared

\* A permit appears only with the commit of a reservation.
LEMMA OnlyReservationsBook ==
  ASSUME SharedInv, NextShared, NEW e \in SharedAttempts, permits[e] = NoClaim, permits'[e] # NoClaim
  PROVE  \E told \in BOOLEAN : CommitReserve(e, told)
<1>1. DOMAIN permits = SharedAttempts
  BY DEF SharedInv
<1>2. permits' # permits
  OBVIOUS
<1>3. PICK f \in SharedAttempts : CommitTerminal(f) \/ \E told \in BOOLEAN : CommitReserve(f, told)
  BY <1>2 DEF NextShared, SharedTick, Edit, Arrive, BeginReserve, LockNext, RollbackReserve, Dispatch, BeginTerminal,
              RollbackTerminal
<1>4. f = e
  <2>1. PICK q : permits' = [permits EXCEPT ![f] = q]
    BY <1>3 DEF CommitTerminal, CommitReserve
  <2> QED
    BY <1>1, <2>1
<1>5. ~CommitTerminal(e)
  BY PermitAssumption DEF CommitTerminal, SharedInv, TxSound
<1> QED
  BY <1>3, <1>4, <1>5

LEMMA BookedOnCurrent ==
  ASSUME SharedInv, [NextShared]_sharedVars
  PROVE  AdmittedOnCurrent \/ UNCHANGED sharedVars
<1> SUFFICES ASSUME NextShared, NEW e \in SharedAttempts, permits[e] = NoClaim, permits'[e] # NoClaim
             PROVE  /\ attempt[e].saw = version
                    /\ \A c \in DOMAIN permits'[e].bookings :
                         permits'[e].bookings[c].window = SharedWindow(c, clock)
  BY DEF AdmittedOnCurrent
<1>1. PICK told \in BOOLEAN : CommitReserve(e, told)
  BY OnlyReservationsBook
<1>2. attempt[e].saw = version
  BY <1>1 DEF CommitReserve, SharedInv, TxSound
<1>3. \A c \in Active : SharedWindow(c, clock) = WindowOf(e, c)
  BY <1>1 DEF CommitReserve, Admissible, CheckClock
<1>4. permits'[e].bookings = [c \in Active |-> [window |-> WindowOf(e, c), amount |-> BoundOf(c), hard |-> defs[c].hard]]
  BY <1>1, PermitWritten
<1> QED
  BY <1>2, <1>3, <1>4

\* Transactions that share the rows of limits never wait for each other in a circle,
\* for any number of attempts and limits: lockAccounts and lockSharedCounters take
\* accounts before counters and both in the order of their keys, in a reservation and
\* in a settlement alike, so that whoever holds a row waits only for a later one.
THEOREM LocksNeverCycle == SharedSpec => []NoWaitCycle
<1>1. InitShared => SharedInv
  BY SharedInitially
<1>2. SharedInv /\ [NextShared]_sharedVars => SharedInv'
  BY SharedStep
<1>3. SharedInv => NoWaitCycle
  BY LocksStraight
<1> QED
  BY <1>1, <1>2, <1>3, PTL DEF SharedSpec

\* A call is booked only under the identity, key and policies that its gateway
\* decided with, and in the window that the database's clock is in at the booking:
\* ReserveShared compares the documents under SHARE locks, which hold off every edit
\* until the commit, and sharedCheckClock reads the clock again under the row locks.
THEOREM AdmissionsAreCurrent == SharedSpec => [][AdmittedOnCurrent]_sharedVars
<1>1. InitShared => SharedInv
  BY SharedInitially
<1>2. SharedInv /\ [NextShared]_sharedVars => SharedInv'
  BY SharedStep
<1>3. SharedInv /\ [NextShared]_sharedVars => [AdmittedOnCurrent]_sharedVars
  BY BookedOnCurrent DEF sharedVars
<1> QED
  BY <1>1, <1>2, <1>3, PTL DEF SharedSpec
==============================================================================
