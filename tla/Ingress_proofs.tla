--------------------------- MODULE Ingress_proofs ---------------------------
(***************************************************************************)
(* What comes in, at every port.  The gates, for any number of calls and   *)
(* bearers, any body sizes and limits: bodies fit the in-flight budget and *)
(* handlers serve the entitled only; the identity provider is asked once   *)
(* per window.  And one request through its ingress handler, for any set   *)
(* of chains of any length and streams of any length: what goes out is     *)
(* masked, every attempt is told as it ended, and the money follows it;    *)
(* and the chain it is given, for any models, fallbacks, rules and tiers,  *)
(* holds only targets that every rule in force allows.                     *)
(***************************************************************************)
EXTENDS ServerGates, AdminTokens, RequestServing, RequestRouting

-----------------------------------------------------------------------------
(* Admin tokens *)

Stages == {"idle", "discovering", "verifying", "missed", "waiting", "fetching", "accepted", "rejected"}

TokensState ==
  [now : 0..LastInstant, published : SUBSET KeyIds, ready : BOOLEAN, discovery : Nat, keys : SUBSET KeyIds,
   fetch : SUBSET Bearers, lastMiss : Nat, calls : [Bearers -> [stage : Stages, kid : KeyIds \cup {0}]],
   misses : Nat, failures : Nat]

\* Of n events, the last of them at "at", each a window after the one before.
Spaced(at, n) ==
  IF at = Never THEN n = 0 ELSE at <= jw.now /\ n <= 1 + at \div MissWindow

\* Who fetches is who the fetch belongs to, and while it runs the window of the
\* last miss is over, so that the miss it may end in is spaced as well.
TokensInv ==
  /\ jw \in TokensState
  /\ \A b \in Bearers : JStage(b) = "fetching" <=> b \in jw.fetch
  /\ \A b, c \in jw.fetch : b = c
  /\ Spaced(jw.lastMiss, jw.misses)
  /\ Spaced(jw.discovery, jw.failures)
  /\ jw.fetch # {} => ~Recently(jw.lastMiss)

LEMMA WindowsPass ==
  ASSUME NEW a \in Nat, NEW b \in Nat, NEW w \in Nat \ {0}
  PROVE  /\ a \div w \in Nat
         /\ a <= b => a \div w <= b \div w
         /\ a + w <= b => a \div w + 1 <= b \div w
<1>1. a \div w \in Nat /\ (a \div w) * w <= a
  OBVIOUS
<1>2. a <= b => a \div w <= b \div w
  BY <1>1
<1>3. a + w <= b => a \div w + 1 <= b \div w
  BY <1>1
<1> QED
  BY <1>1, <1>2, <1>3

\* One more event now, a window after the last.
LEMMA OneMoreIsSpaced ==
  ASSUME NEW at \in Nat, NEW n \in Nat, jw \in TokensState, Spaced(at, n), ~Recently(at)
  PROVE  jw.now # Never /\ n + 1 <= 1 + jw.now \div MissWindow
<1>1. jw.now \in Nat /\ jw.now <= LastInstant /\ MissWindow \in Nat \ {0} /\ LastInstant \in Nat
  BY TokensAssumption DEF TokensState
<1>2. CASE at = Never
  BY <1>1, <1>2, WindowsPass DEF Spaced, Never
<1>3. CASE at # Never
  <2>1. at + MissWindow <= jw.now /\ n <= 1 + at \div MissWindow
    BY <1>1, <1>3 DEF Spaced, Recently
  <2>2. at \div MissWindow + 1 <= jw.now \div MissWindow /\ at \div MissWindow \in Nat
    BY <1>1, <2>1, WindowsPass
  <2>3. jw.now \div MissWindow \in Nat
    BY <1>1, WindowsPass
  <2> QED
    BY <1>1, <2>1, <2>2, <2>3 DEF Never
<1> QED
  BY <1>2, <1>3

\* The invariant is about some fields only.
LEMMA TokensInitInv == InitTokens => TokensInv
<1> SUFFICES ASSUME InitTokens PROVE TokensInv
  OBVIOUS
<1>1. jw \in TokensState
  BY TokensAssumption DEF InitTokens, TokensState, Stages, Never
<1> QED
  BY <1>1 DEF InitTokens, TokensInv, JStage, Spaced

\* A step that only moves a call from one stage to another, neither of them
\* "fetching", keeps the invariant.
LEMMA StageOnly ==
  ASSUME TokensInv, NEW b \in Bearers, JStage(b) # "fetching",
         NEW c \in [stage : Stages \ {"fetching"}, kid : KeyIds \cup {0}],
         jw' = [jw EXCEPT !.calls[b] = c]
  PROVE  TokensInv'
<1>1. jw' \in TokensState
  BY DEF TokensInv, TokensState
<1>2. \A x \in Bearers : (JStage(x) = "fetching")' <=> x \in jw'.fetch
  BY DEF TokensInv, TokensState, JStage
<1>3. jw'.fetch = jw.fetch /\ jw'.lastMiss = jw.lastMiss /\ jw'.misses = jw.misses /\ jw'.now = jw.now
      /\ jw'.discovery = jw.discovery /\ jw'.failures = jw.failures
  BY DEF TokensInv, TokensState
<1> QED
  BY <1>1, <1>2, <1>3 DEF TokensInv, Spaced, Recently

LEMMA EndOnly ==
  ASSUME TokensInv, NEW b \in Bearers, JStage(b) # "fetching",
         NEW verdict \in Stages \ {"fetching"}, jw' = End(b, verdict)
  PROVE  TokensInv'
<1> DEFINE c == [stage |-> verdict, kid |-> jw.calls[b].kid]
<1>1. c \in [stage : Stages \ {"fetching"}, kid : KeyIds \cup {0}]
  BY DEF TokensInv, TokensState
<1>2. jw' = [jw EXCEPT !.calls[b] = c]
  BY DEF End, TokensInv, TokensState
<1> HIDE DEF c
<1> QED
  BY <1>1, <1>2, StageOnly

LEMMA EndTyped ==
  ASSUME jw \in TokensState, NEW b \in Bearers, NEW verdict \in Stages
  PROVE  End(b, verdict) \in TokensState
  BY DEF End, TokensState

\* The window of the last miss was over when the fetch began, and is since.
LEMMA SettledInv ==
  ASSUME TokensInv, NEW b \in Bearers, JStage(b) = "fetching",
         NEW fetched \in BOOLEAN, NEW ok \in BOOLEAN, jw' = Settled(b, fetched, ok)
  PROVE  TokensInv'
<1>1. /\ jw'.now = jw.now /\ jw'.published = jw.published /\ jw'.ready = jw.ready
      /\ jw'.discovery = jw.discovery /\ jw'.failures = jw.failures
      /\ jw'.fetch = {}
      /\ jw'.lastMiss = (IF ok THEN jw.lastMiss ELSE jw.now)
      /\ jw'.misses = (IF ok THEN jw.misses ELSE jw.misses + 1)
      /\ jw'.calls = [jw.calls EXCEPT ![b].stage = IF ok THEN "accepted" ELSE "rejected"]
  BY DEF Settled, End, Miss, TokensInv, TokensState
<1>2. jw' \in TokensState
  <2> DEFINE e == End(b, IF ok THEN "accepted" ELSE "rejected")
  <2>1. e \in TokensState
    BY EndTyped DEF TokensInv, Stages
  <2>2. ASSUME NEW keys \in SUBSET KeyIds, NEW miss \in Nat, NEW n \in Nat
        PROVE  [e EXCEPT !.keys = keys, !.fetch = {}, !.lastMiss = miss, !.misses = n] \in TokensState
    <3> HIDE DEF e
    <3> QED BY <2>1 DEF TokensState
  <2>3. /\ (IF fetched THEN jw.published ELSE jw.keys) \in SUBSET KeyIds
        /\ (IF Miss(fetched, ok) THEN jw.now ELSE jw.lastMiss) \in Nat
        /\ (IF ok THEN jw.misses ELSE jw.misses + 1) \in Nat
    BY DEF TokensInv, TokensState
  <2> QED
    BY <2>2, <2>3 DEF Settled
<1>3. \A c \in Bearers \ {b} : JStage(c) # "fetching"
  BY DEF TokensInv
<1>4. \A c \in Bearers : (JStage(c) = "fetching")' <=> c \in jw'.fetch
  BY <1>1, <1>3 DEF TokensInv, TokensState, JStage
<1>5. Spaced(jw.lastMiss, jw.misses)'
  <2>1. jw.fetch # {} /\ ~Recently(jw.lastMiss)
    BY DEF TokensInv
  <2>2. jw.now # Never /\ jw.misses + 1 <= 1 + jw.now \div MissWindow
    BY <2>1, OneMoreIsSpaced DEF TokensInv, TokensState
  <2> QED
    BY <1>1, <2>2, TokensAssumption DEF TokensInv, TokensState, Spaced
<1>6. Spaced(jw.discovery, jw.failures)'
  BY <1>1 DEF TokensInv, Spaced
<1> QED
  BY <1>1, <1>2, <1>4, <1>5, <1>6 DEF TokensInv

LEMMA DiscoverInv ==
  ASSUME TokensInv, NEW b \in Bearers, NEW reached \in BOOLEAN, Discover(b, reached)
  PROVE  TokensInv'
<1>1. JStage(b) = "discovering" /\ ~Recently(jw.discovery)
  BY DEF Discover
<1>2. /\ jw'.now = jw.now /\ jw'.lastMiss = jw.lastMiss /\ jw'.misses = jw.misses
      /\ jw'.fetch = jw.fetch
      /\ jw'.discovery = (IF reached THEN jw.discovery ELSE jw.now)
      /\ jw'.failures = (IF reached THEN jw.failures ELSE jw.failures + 1)
      /\ jw'.calls = [jw.calls EXCEPT ![b].stage = IF reached THEN "verifying" ELSE "rejected"]
  BY DEF Discover, End, TokensInv, TokensState
<1>3. jw' \in TokensState
  <2>1. \A v \in {"verifying", "rejected"} : End(b, v) \in TokensState
    BY EndTyped DEF TokensInv, Stages
  <2>2. ASSUME NEW s \in TokensState
        PROVE  /\ [s EXCEPT !.ready = TRUE] \in TokensState
               /\ [s EXCEPT !.discovery = jw.now, !.failures = @ + 1] \in TokensState
    <3>1. jw.now \in Nat
      BY DEF TokensInv, TokensState
    <3>2. [s EXCEPT !.ready = TRUE] \in TokensState
      BY DEF TokensState
    <3>3. [s EXCEPT !.discovery = jw.now, !.failures = @ + 1] \in TokensState
      <4>1. ASSUME NEW at \in Nat, NEW n \in Nat
            PROVE  [s EXCEPT !.discovery = at, !.failures = n] \in TokensState
        BY DEF TokensState
      <4>2. s.failures + 1 \in Nat
        BY DEF TokensState
      <4> QED
        BY <3>1, <4>1, <4>2
    <3> QED
      BY <3>2, <3>3
  <2> DEFINE e(v) == End(b, v)
  <2>3. jw' = IF reached THEN [e("verifying") EXCEPT !.ready = TRUE]
             ELSE [e("rejected") EXCEPT !.discovery = jw.now, !.failures = @ + 1]
    BY DEF Discover
  <2>4. \A v \in {"verifying", "rejected"} : e(v) \in TokensState
    BY <2>1
  <2> HIDE DEF e
  <2>5. CASE reached
    BY <2>2, <2>3, <2>4, <2>5, Zenon
  <2>6. CASE ~reached
    BY <2>2, <2>3, <2>4, <2>6, Zenon
  <2> QED
    BY <2>5, <2>6
<1>4. \A c \in Bearers : (JStage(c) = "fetching")' <=> c \in jw'.fetch
  BY <1>1, <1>2 DEF TokensInv, TokensState, JStage
<1>5. Spaced(jw.discovery, jw.failures)'
  <2>1. jw.now # Never /\ jw.failures + 1 <= 1 + jw.now \div MissWindow
    BY <1>1, OneMoreIsSpaced DEF TokensInv, TokensState
  <2> QED
    BY <1>2, <2>1, TokensAssumption DEF TokensInv, TokensState, Spaced
<1>6. Spaced(jw.lastMiss, jw.misses)' /\ (Recently(jw.lastMiss))' = Recently(jw.lastMiss)
  BY <1>2 DEF TokensInv, Spaced, Recently
<1> QED
  BY <1>2, <1>3, <1>4, <1>5, <1>6 DEF TokensInv

LEMMA StartFetchInv ==
  ASSUME TokensInv, NEW b \in Bearers, StartFetch(b)
  PROVE  TokensInv'
<1>1. JStage(b) = "missed" /\ jw.fetch = {} /\ ~Recently(jw.lastMiss)
  BY DEF StartFetch
<1>2. /\ jw'.now = jw.now /\ jw'.lastMiss = jw.lastMiss /\ jw'.misses = jw.misses
      /\ jw'.discovery = jw.discovery /\ jw'.failures = jw.failures
      /\ jw'.fetch = {b}
      /\ jw'.calls = [jw.calls EXCEPT ![b].stage = "fetching"]
  BY DEF StartFetch, End, TokensInv, TokensState
<1>3. jw' \in TokensState
  BY ZenonT(60) DEF StartFetch, End, TokensInv, TokensState, Stages
<1>4. \A c \in Bearers : (JStage(c) = "fetching")' <=> c \in jw'.fetch
  BY <1>1, <1>2 DEF TokensInv, TokensState, JStage
<1> QED
  BY <1>1, <1>2, <1>3, <1>4 DEF TokensInv, Spaced, Recently

\* Time and rotations leave the calls alone; what was over stays over.
LEMMA SurroundingsInv ==
  ASSUME TokensInv, TickTokens \/ \E k \in KeyIds : Rotate(k)
  PROVE  TokensInv'
<1>1. /\ jw'.now >= jw.now /\ jw'.lastMiss = jw.lastMiss /\ jw'.misses = jw.misses
      /\ jw'.discovery = jw.discovery /\ jw'.failures = jw.failures
      /\ jw'.fetch = jw.fetch /\ jw'.calls = jw.calls
  BY TokensAssumption DEF TickTokens, Rotate, TokensInv, TokensState
<1>2. jw' \in TokensState
  BY TokensAssumption DEF TickTokens, Rotate, TokensInv, TokensState
<1>3. jw.now \in Nat /\ jw'.now \in Nat /\ jw.lastMiss \in Nat /\ jw.discovery \in Nat
  BY <1>2 DEF TokensInv, TokensState
<1>4. Spaced(jw.lastMiss, jw.misses)' /\ Spaced(jw.discovery, jw.failures)'
  BY <1>1, <1>3 DEF TokensInv, Spaced
<1>5. jw.fetch # {} => ~Recently(jw.lastMiss)'
  BY <1>1, <1>3, TokensAssumption DEF TokensInv, Recently
<1> QED
  BY <1>1, <1>2, <1>4, <1>5 DEF TokensInv, JStage

LEMMA TokensStep ==
  ASSUME TokensInv, [NextTokens]_jw
  PROVE  TokensInv'
<1>1. ASSUME NEW b \in Bearers, NEW k \in KeyIds \cup {0}, Bring(b, k)
      PROVE  TokensInv'
  BY <1>1, StageOnly DEF Bring, Stages
<1>2. ASSUME NEW b \in Bearers,
             \/ Discovered(b) \/ NegativeCached(b) \/ VerifySignature(b) \/ JoinFetch(b)
             \/ RateLimited(b) \/ Wake(b) \/ Leave(b)
      PROVE  TokensInv'
  <2>1. \E verdict \in Stages \ {"fetching"} : jw' = End(b, verdict)
    BY <1>2 DEF Discovered, NegativeCached, VerifySignature, JoinFetch, RateLimited, Wake, Leave, Stages
  <2>2. JStage(b) # "fetching"
    BY <1>2 DEF Discovered, NegativeCached, VerifySignature, JoinFetch, RateLimited, Wake, Leave
  <2> QED
    BY <2>1, <2>2, EndOnly
<1>3. ASSUME NEW b \in Bearers, SettleFetch(b) \/ FetchFails(b) \/ FetchPanics(b)
      PROVE  TokensInv'
  <2>1. /\ JStage(b) = "fetching"
        /\ \E fetched, ok \in BOOLEAN : jw' = Settled(b, fetched, ok)
    <3>1. CASE SettleFetch(b)
      <4> DEFINE ok == jw.calls[b].kid \in jw.published
      <4>1. ok \in BOOLEAN /\ TRUE \in BOOLEAN
        OBVIOUS
      <4>2. JStage(b) = "fetching" /\ jw' = Settled(b, TRUE, ok)
        BY <3>1 DEF SettleFetch
      <4> HIDE DEF ok
      <4> QED
        BY <4>1, <4>2, Zenon
    <3>2. CASE FetchFails(b) \/ FetchPanics(b)
      BY <3>2, Zenon DEF FetchFails, FetchPanics
    <3> QED
      BY <1>3, <3>1, <3>2
  <2> QED
    BY <2>1, SettledInv
<1>4. ASSUME UNCHANGED jw
      PROVE  TokensInv'
  BY <1>4 DEF TokensInv, JStage, Spaced, Recently
<1> QED
  BY <1>1, <1>2, <1>3, <1>4, DiscoverInv, StartFetchInv, SurroundingsInv DEF NextTokens

LEMMA TokensPromise == TokensInv => FetchesAreOne
<1> SUFFICES ASSUME TokensInv PROVE FetchesAreOne
  OBVIOUS
<1>1. Cardinality(jw.fetch) <= 1
  <2>1. CASE jw.fetch = {}
    BY <2>1, FS_EmptySet
  <2>2. CASE jw.fetch # {}
    <3>1. \E b \in jw.fetch : jw.fetch = {b}
      BY <2>2 DEF TokensInv
    <3> QED
      BY <3>1, FS_Singleton
  <2> QED
    BY <2>1, <2>2
<1>2. TokensTypeOK
  BY <1>1 DEF TokensInv, TokensState, TokensTypeOK
<1>3. FetchIsRunning
  BY DEF TokensInv, TokensState, FetchIsRunning
<1>4. ASSUME NEW at \in Nat, NEW n \in Nat, Spaced(at, n)
      PROVE  n <= 1 + jw.now \div MissWindow
  <2>1. jw.now \in Nat /\ MissWindow \in Nat \ {0}
    BY TokensAssumption DEF TokensInv, TokensState
  <2>2. jw.now \div MissWindow \in Nat /\ at \div MissWindow \in Nat
    BY <2>1, WindowsPass
  <2>3. at <= jw.now => at \div MissWindow <= jw.now \div MissWindow
    BY <2>1, WindowsPass
  <2> QED
    BY <1>4, <2>2, <2>3 DEF Spaced
<1>5. ProviderSpared
  BY <1>4 DEF TokensInv, TokensState, ProviderSpared
<1> QED
  BY <1>2, <1>3, <1>5 DEF FetchesAreOne

\* At most one key fetch runs at a time, it is really running, and the identity
\* provider sees at most one fruitless fetch and one failed discovery per window
\* (jwks.go, oidc.go), however many bearers bring forged tokens together.
THEOREM ProviderIsSpared == TokensSpec => []FetchesAreOne
<1>1. InitTokens => TokensInv
  BY TokensInitInv
<1>2. TokensInv /\ [NextTokens]_jw => TokensInv'
  BY TokensStep
<1>3. TokensInv => FetchesAreOne
  BY TokensPromise
<1> QED
  BY <1>1, <1>2, <1>3, PTL DEF TokensSpec

-----------------------------------------------------------------------------
(* Server gates *)

Ready == {"store", "audit", "governance"}

CallStages == {"idle", "admin", "identified", "evaluating", "capped", "keyed", "reserving", "audited", "governed",
               "handling", "overread", "working", "answered"}

CallRecords ==
  [kind : DataKinds \cup {"none", "admin", "evaluation"}, declared : Nat \cup {Unknown}, size : Nat,
   key : {"none", "bad", "good"}, cred : Credentials, stage : CallStages, held : Nat, buffered : Nat,
   answer : Int, known : BOOLEAN, cost : Nat, charged : Nat]

Past(gate) ==
  CASE gate = "admin" -> {"evaluating"} \cup {"capped", "keyed", "reserving", "audited", "governed", "handling",
                                              "overread", "working"}
    [] gate = "key"   -> {"reserving", "audited", "governed", "handling", "overread", "working"}
    [] gate = "body"  -> {"audited", "governed", "handling", "overread", "working"}

\* A call's record at every stage: the gates it has passed let it pass; from the
\* in-flight gate to its answer it holds what it needs; its body is buffered
\* within that.
CallOK(c) ==
  /\ c \in CallRecords
  /\ c.declared = Unknown \/ c.size <= c.declared
  /\ c.kind = "admin" => c.stage \in {"admin", "identified", "handling", "answered"}
  /\ c.stage \in {"admin", "identified"} => c.kind \in {"admin", "evaluation"}
  /\ c.stage = "evaluating" => c.kind = "evaluation"
  /\ c.kind \in {"admin", "evaluation"} /\ c.stage \in Past("admin") => FullAdmin(c)
  /\ c.kind # "admin" /\ c.stage \in Past("key") => c.key = "good"
  /\ c.held = (IF c.kind # "admin" /\ c.stage \in Past("body") THEN Need(c) ELSE 0)
  /\ c.buffered <= c.held
  /\ c.stage \notin {"overread", "working"} => c.buffered = 0
  /\ c.stage = "answered" /\ c.kind = "count" /\ c.key = "good" => c.answer \in {200, Aborted}
  /\ c.known => c.cost = c.charged

Holdings == [i \in Calls |-> gt.calls[i].held]

GatesState == [calls : [Calls -> CallRecords], used : Nat, up : SUBSET Ready, flips : 0..Flips]

GatesInv ==
  /\ gt \in GatesState
  /\ \A i \in Calls : CallOK(gt.calls[i])
  /\ gt.used = Total(Holdings)
  /\ gt.used <= InflightLimit

LEMMA IdleCallOK == CallOK(IdleCall)
  BY DEF CallOK, IdleCall, CallRecords, CallStages, Credentials, Past

LEMMA GatesInitInv == InitGates => GatesInv
<1> SUFFICES ASSUME InitGates PROVE GatesInv
  OBVIOUS
<1>1. gt.calls = [i \in Calls |-> IdleCall] /\ gt.used = 0
  BY DEF InitGates
<1>2. IdleCall \in CallRecords /\ IdleCall.held = 0
  BY IdleCallOK DEF CallOK, IdleCall
<1>3. gt \in GatesState
  BY <1>2, GatesAssumption DEF InitGates, GatesState, Ready
<1>4. Total(Holdings) = 0
  <2>1. Holdings \in [Calls -> Nat] /\ \A i \in Calls : Holdings[i] = 0
    BY <1>1, <1>2 DEF Holdings
  <2> QED
    BY <2>1, TotalOfZero
<1> QED
  BY <1>1, <1>3, <1>4, IdleCallOK, GatesAssumption DEF GatesInv

\* A step of one call: its record changes and the budget with what it holds.
LEMMA OneCallStep ==
  ASSUME GatesInv, NEW i \in Calls, NEW c, CallOK(c),
         gt' = [gt EXCEPT !.calls[i] = c, !.used = gt.used - gt.calls[i].held + c.held],
         gt.used - gt.calls[i].held + c.held <= InflightLimit
  PROVE  GatesInv'
<1>1. c \in CallRecords /\ c.held \in Nat
  BY DEF CallOK, CallRecords
<1>2. gt'.calls = [gt.calls EXCEPT ![i] = c] /\ gt'.used = gt.used - gt.calls[i].held + c.held
  BY DEF GatesInv, GatesState
<1>3. Holdings \in [Calls -> Nat] /\ Holdings' \in [Calls -> Nat]
  BY <1>1, <1>2 DEF Holdings, GatesInv, GatesState, CallRecords
<1>4. Holdings'[i] = c.held /\ Holdings[i] = gt.calls[i].held /\ \A j \in Calls \ {i} : Holdings'[j] = Holdings[j]
  BY <1>2 DEF Holdings, GatesInv, GatesState
<1>5. Total(Holdings') = Total(Holdings) - Holdings[i] + Holdings'[i]
  BY <1>3, <1>4, TotalChangeOne, GatesAssumption
<1>6. Total(Holdings') \in Nat /\ gt'.used = Total(Holdings')
  BY <1>2, <1>3, <1>4, <1>5, UnitsFinite, GatesAssumption DEF GatesInv
<1>7. gt' \in GatesState
  BY <1>1, <1>2, <1>6 DEF GatesInv, GatesState
<1>8. \A j \in Calls : CallOK(gt'.calls[j])
  BY <1>2 DEF GatesInv, GatesState
<1> QED
  BY <1>2, <1>6, <1>7, <1>8 DEF GatesInv

LEMMA PutStep ==
  ASSUME GatesInv, NEW i \in Calls, NEW c, CallOK(c), c.held = gt.calls[i].held, Put(i, c)
  PROVE  GatesInv'
<1>1. gt.used \in Nat /\ gt.used <= InflightLimit /\ c.held \in Nat
  BY DEF GatesInv, GatesState, CallOK, CallRecords
<1>2. gt.used - gt.calls[i].held + c.held = gt.used
  BY <1>1
<1>3. gt' = [gt EXCEPT !.calls[i] = c, !.used = gt.used]
  BY DEF Put, GatesInv, GatesState
<1> QED
  BY <1>1, <1>2, <1>3, OneCallStep

\* The deferred release gives back what the call holds, and the answer is one
\* that a count may have.
LEMMA AnsweredOK ==
  ASSUME NEW c, CallOK(c), NEW status \in Int, Count(c) /\ c.key = "good" => status \in {200, Aborted}
  PROVE  CallOK(Answered(c, status)) /\ Answered(c, status).held = 0
<1>1. Answered(c, status) \in CallRecords
  BY ZenonT(60) DEF CallOK, CallRecords, Answered, CallStages, Credentials
<1> QED
  BY <1>1 DEF CallOK, Answered, Past, Count, CallRecords, FullAdmin

LEMMA ReplyStep ==
  ASSUME GatesInv, NEW i \in Calls, NEW status \in Int, Reply(i, status), gt.calls[i].held = 0,
         Count(gt.calls[i]) /\ gt.calls[i].key = "good" => status \in {200, Aborted}
  PROVE  GatesInv'
  BY AnsweredOK, PutStep DEF Reply, GatesInv

LEMMA ReleasedStep ==
  ASSUME GatesInv, NEW i \in Calls, NEW status \in Int, gt' = Released(i, status),
         Count(gt.calls[i]) /\ gt.calls[i].key = "good" => status \in {200, Aborted}
  PROVE  GatesInv'
<1> DEFINE c == Answered(gt.calls[i], status)
<1>1. CallOK(c) /\ c.held = 0
  BY AnsweredOK DEF GatesInv
<1>2. gt.used \in Nat /\ gt.used <= InflightLimit /\ gt.calls[i].held \in Nat
  BY DEF GatesInv, GatesState, CallRecords
<1>3. gt' = [gt EXCEPT !.calls[i] = c, !.used = gt.used - gt.calls[i].held]
  BY DEF Released, GatesInv, GatesState
<1>4. gt.used - gt.calls[i].held + c.held = gt.used - gt.calls[i].held
  BY <1>1, <1>2
<1>5. gt.used - gt.calls[i].held <= InflightLimit
  BY <1>2, GatesAssumption
<1> HIDE DEF c
<1>6. gt' = [gt EXCEPT !.calls[i] = c, !.used = gt.used - gt.calls[i].held + c.held]
  BY <1>3, <1>4, Zenon
<1>7. gt.used - gt.calls[i].held + c.held <= InflightLimit
  BY <1>4, <1>5, Zenon
<1> QED
  BY <1>1, <1>6, <1>7, OneCallStep, Zenon

\* A call moves on to a stage that its record allows.
LEMMA ToStep ==
  ASSUME GatesInv, NEW i \in Calls, NEW stage, To(i, stage), CallOK([gt.calls[i] EXCEPT !.stage = stage])
  PROVE  GatesInv'
<1>1. [gt.calls[i] EXCEPT !.stage = stage].held = gt.calls[i].held
  BY DEF GatesInv, GatesState, CallRecords
<1> QED
  BY <1>1, PutStep DEF To

LEMMA ArriveStep ==
  ASSUME GatesInv, NEW i \in Calls, NEW kind \in DataKinds \cup {"admin", "evaluation"},
         NEW declared \in Nat \cup {Unknown}, NEW size \in Nat, NEW key \in {"none", "bad", "good"},
         NEW cred \in Credentials, Arrive(i, kind, declared, size, key, cred)
  PROVE  GatesInv'
<1> DEFINE o == gt.calls[i]
           c == [o EXCEPT !.kind = kind, !.declared = declared, !.size = size, !.key = key, !.cred = cred,
                          !.stage = IF kind \in {"admin", "evaluation"} THEN "admin" ELSE "capped"]
<1>1. CallOK(o) /\ o.stage = "idle" /\ o \in CallRecords
  BY DEF GatesInv, GatesState, Arrive, At
<1>2. c \in CallRecords
  BY <1>1, ZenonT(60) DEF CallRecords, CallStages
<1>3. CallOK(c) /\ c.held = o.held
  BY <1>1, <1>2 DEF CallOK, CallRecords, Past, DataKinds, Arrive
<1>4. Put(i, c)
  BY DEF Arrive
<1> HIDE DEF c
<1> QED
  BY <1>3, <1>4, PutStep

LEMMA AdminAuthStep ==
  ASSUME GatesInv, NEW i \in Calls, AdminAuth(i)
  PROVE  GatesInv'
<1>1. CallOK(gt.calls[i]) /\ gt.calls[i].stage = "admin" /\ gt.calls[i] \in CallRecords
  BY DEF GatesInv, GatesState, AdminAuth, At
<1>2. gt.calls[i].held = 0 /\ ~Count(gt.calls[i])
  BY <1>1 DEF CallOK, Past, Count
<1>3. CallOK([gt.calls[i] EXCEPT !.stage = "identified"])
  BY <1>1 DEF CallOK, Past, CallRecords, CallStages, FullAdmin, Need
<1> QED
  BY <1>2, <1>3, ReplyStep, ToStep DEF AdminAuth

LEMMA RequireAdminStep ==
  ASSUME GatesInv, NEW i \in Calls, RequireAdmin(i)
  PROVE  GatesInv'
<1>1. CallOK(gt.calls[i]) /\ gt.calls[i].stage = "identified" /\ gt.calls[i] \in CallRecords
  BY DEF GatesInv, GatesState, RequireAdmin, At
<1>2. gt.calls[i].held = 0 /\ ~Count(gt.calls[i])
  BY <1>1 DEF CallOK, Past, Count
<1>3. ASSUME FullAdmin(gt.calls[i]), gt.calls[i].kind = "admin"
      PROVE  CallOK([gt.calls[i] EXCEPT !.stage = "handling"])
  BY <1>1, <1>3 DEF CallOK, Past, CallRecords, CallStages, FullAdmin, Need
<1>4. ASSUME FullAdmin(gt.calls[i]), gt.calls[i].kind # "admin"
      PROVE  CallOK([gt.calls[i] EXCEPT !.stage = "evaluating"])
  BY <1>1, <1>4 DEF CallOK, Past, CallRecords, CallStages, FullAdmin, Need
<1> QED
  <2>1. CASE ~FullAdmin(gt.calls[i])
    <3>1. Reply(i, 403)
      BY <2>1 DEF RequireAdmin, FullAdmin
    <3> QED
      BY <1>2, <3>1, ReplyStep
  <2>2. CASE FullAdmin(gt.calls[i]) /\ gt.calls[i].kind = "admin"
    <3>1. To(i, "handling")
      BY <2>2 DEF RequireAdmin
    <3> QED
      BY <1>3, <2>2, <3>1, ToStep
  <2>3. CASE FullAdmin(gt.calls[i]) /\ gt.calls[i].kind # "admin"
    <3>1. To(i, "evaluating")
      BY <2>3 DEF RequireAdmin
    <3> QED
      BY <1>4, <2>3, <3>1, ToStep
  <2> QED
    BY <2>1, <2>2, <2>3

LEMMA EnterEvaluationStep ==
  ASSUME GatesInv, NEW i \in Calls, EnterEvaluation(i)
  PROVE  GatesInv'
<1> DEFINE c == [gt.calls[i] EXCEPT !.stage = "capped", !.declared = gt.calls[i].size]
<1>1. CallOK(gt.calls[i]) /\ gt.calls[i].stage = "evaluating" /\ gt.calls[i] \in CallRecords
  BY DEF GatesInv, GatesState, EnterEvaluation, At
<1>2. gt.calls[i].held = 0 /\ ~Count(gt.calls[i])
  BY <1>1 DEF CallOK, Past, Count
<1>3. CallOK(c) /\ c.held = gt.calls[i].held
  <2>1. c \in CallRecords /\ c.held = gt.calls[i].held
    BY <1>1 DEF CallRecords, CallStages
  <2> QED
    BY <1>1, <2>1 DEF CallOK, Past, CallRecords, FullAdmin
<1>4. Reply(i, 400) \/ Put(i, c)
  BY DEF EnterEvaluation
<1> HIDE DEF c
<1> QED
  BY <1>2, <1>3, <1>4, ReplyStep, PutStep

LEMMA MaxBytesStep ==
  ASSUME GatesInv, NEW i \in Calls, MaxBytes(i)
  PROVE  GatesInv'
<1>1. CallOK(gt.calls[i]) /\ gt.calls[i].stage = "capped" /\ gt.calls[i] \in CallRecords
  BY DEF GatesInv, GatesState, MaxBytes, At
<1>2. gt.calls[i].held = 0
  BY <1>1 DEF CallOK, Past
<1>3. CallOK([gt.calls[i] EXCEPT !.stage = "keyed"])
  BY <1>1 DEF CallOK, Past, CallRecords, CallStages, FullAdmin, Need
<1> QED
  BY <1>2, <1>3, ReplyStep, ToStep DEF MaxBytes

LEMMA KeyAuthStep ==
  ASSUME GatesInv, NEW i \in Calls, KeyAuth(i)
  PROVE  GatesInv'
<1> DEFINE c == gt.calls[i]
<1>1. CallOK(c) /\ c.stage = "keyed" /\ c \in CallRecords
  BY DEF GatesInv, GatesState, KeyAuth, At
<1>2. c.held = 0 /\ c.kind # "admin"
  BY <1>1 DEF CallOK, Past
<1>3. ASSUME c.key = "good"
      PROVE  CallOK([c EXCEPT !.stage = "reserving"])
  BY <1>1, <1>3 DEF CallOK, Past, CallRecords, CallStages, FullAdmin, Need
<1>4. CASE c.key = "none"
  <2>1. Reply(i, 401)
    BY <1>4 DEF KeyAuth
  <2> QED
    BY <1>2, <1>4, <2>1, ReplyStep
<1>5. CASE c.key # "none" /\ "store" \notin gt.up
  <2>1. Reply(i, IF Count(c) THEN 200 ELSE 503)
    BY <1>5 DEF KeyAuth
  <2> QED
    BY <1>2, <2>1, ReplyStep
<1>6. CASE c.key = "bad" /\ "store" \in gt.up
  <2>1. Reply(i, 401)
    BY <1>6 DEF KeyAuth
  <2> QED
    BY <1>2, <1>6, <2>1, ReplyStep
<1>7. CASE c.key = "good" /\ "store" \in gt.up
  <2>1. To(i, "reserving")
    BY <1>7 DEF KeyAuth
  <2> QED
    BY <1>3, <1>7, <2>1, ToStep
<1> QED
  BY <1>1, <1>4, <1>5, <1>6, <1>7 DEF CallRecords

\* What a call needs is within the cap, and nothing only if there is no body.
LEMMA NeedType ==
  ASSUME NEW c, CallOK(c)
  PROVE  Need(c) \in 0..RequestLimit
  BY GatesAssumption DEF CallOK, CallRecords, Need, Unknown

LEMMA AcquireStep ==
  ASSUME GatesInv, NEW i \in Calls, Acquire(i)
  PROVE  GatesInv'
<1> DEFINE o == gt.calls[i]
           n == Need(o)
           c == [o EXCEPT !.held = n, !.stage = "audited"]
<1>1. CallOK(o) /\ o.stage = "reserving" /\ o \in CallRecords
  BY DEF GatesInv, GatesState, Acquire, At
<1>2. o.held = 0 /\ o.kind # "admin" /\ n \in Nat
  BY <1>1, NeedType DEF CallOK, Past
<1>3. CallOK(c) /\ c.held = n
  <2>1. c \in CallRecords /\ Need(c) = n
    BY <1>1, <1>2 DEF CallRecords, CallStages, Need
  <2> QED
    BY <1>1, <1>2, <2>1 DEF CallOK, Past, CallRecords, FullAdmin
<1>4. CASE n = 0
  <2>1. To(i, "audited")
    BY <1>4 DEF Acquire
  <2>2. c = [o EXCEPT !.stage = "audited"]
    BY <1>1, <1>2, <1>4 DEF CallRecords
  <2> QED
    BY <1>3, <2>1, <2>2, ToStep
<1>5. CASE n # 0 /\ Fits(n)
  <2>1. gt' = [gt EXCEPT !.used = @ + n, !.calls[i].held = n, !.calls[i].stage = "audited"]
    BY <1>5 DEF Acquire
  <2>2. gt' = [gt EXCEPT !.calls[i] = c, !.used = gt.used + n]
    BY <2>1 DEF GatesInv, GatesState
  <2>3. gt.used + n <= InflightLimit /\ gt.used - o.held + c.held = gt.used + n
    BY <1>2, <1>3, <1>5, GatesAssumption DEF Fits, GatesInv, GatesState
  <2> HIDE DEF c, n
  <2>4. gt' = [gt EXCEPT !.calls[i] = c, !.used = gt.used - o.held + c.held]
    BY <2>2, <2>3, Zenon
  <2>5. gt.used - o.held + c.held <= InflightLimit
    BY <2>3, Zenon
  <2> QED
    BY <1>3, <2>4, <2>5, OneCallStep, Zenon
<1>6. CASE n # 0 /\ ~Fits(n)
  <2>1. Reply(i, Refusal(o)) /\ Refusal(o) = IF Count(o) THEN 200 ELSE 503
    BY <1>6 DEF Acquire, Refusal
  <2> QED
    BY <1>2, <2>1, ReplyStep
<1> QED
  BY <1>4, <1>5, <1>6

LEMMA AuditGateStep ==
  ASSUME GatesInv, NEW i \in Calls, AuditGate(i)
  PROVE  GatesInv'
<1>1. CallOK(gt.calls[i]) /\ gt.calls[i].stage = "audited" /\ gt.calls[i] \in CallRecords
  BY DEF GatesInv, GatesState, AuditGate, At
<1>2. CallOK([gt.calls[i] EXCEPT !.stage = "governed"])
  BY <1>1 DEF CallOK, Past, CallRecords, CallStages, FullAdmin, Need
<1>3. Generation(gt.calls[i]) => ~Count(gt.calls[i])
  BY DEF Generation, Count
<1> QED
  BY <1>2, <1>3, ReleasedStep, ToStep DEF AuditGate

LEMMA GovernanceGateStep ==
  ASSUME GatesInv, NEW i \in Calls, GovernanceGate(i)
  PROVE  GatesInv'
<1>1. CallOK(gt.calls[i]) /\ gt.calls[i].stage = "governed" /\ gt.calls[i] \in CallRecords
  BY DEF GatesInv, GatesState, GovernanceGate, At
<1>2. CallOK([gt.calls[i] EXCEPT !.stage = "handling"])
  BY <1>1 DEF CallOK, Past, CallRecords, CallStages, FullAdmin, Need
<1> QED
  BY <1>2, ReleasedStep, ToStep DEF GovernanceGate, Count

\* A body is read up to the cap, and what is held covers that: the declared
\* length bounds the body, and an unknown or oversized one counts as the cap.
LEMMA ReadBodyStep ==
  ASSUME GatesInv, NEW i \in Calls, ReadBody(i)
  PROVE  GatesInv'
<1> DEFINE o == gt.calls[i]
           got == IF o.size > RequestLimit THEN RequestLimit ELSE o.size
           next == IF o.size > RequestLimit THEN "overread" ELSE "working"
           c == [o EXCEPT !.buffered = got, !.stage = next]
<1>1. CallOK(o) /\ o.stage = "handling" /\ o \in CallRecords /\ o.kind # "admin"
  BY DEF GatesInv, GatesState, ReadBody, At
<1>2. o.held = Need(o) /\ got <= Need(o) /\ got \in Nat /\ next \in {"overread", "working"}
  BY <1>1, GatesAssumption DEF CallOK, CallRecords, Past, Need, Unknown
<1>3. Put(i, c)
  BY DEF ReadBody, Put, GatesInv, GatesState
<1> HIDE DEF got, next
<1>4. c \in CallRecords /\ c.held = o.held /\ Need(c) = Need(o)
  BY <1>1, <1>2 DEF CallRecords, CallStages, Need
<1>5. CallOK(c)
  BY <1>1, <1>2, <1>4 DEF CallOK, Past, CallRecords, FullAdmin
<1> HIDE DEF c
<1> QED
  BY <1>3, <1>4, <1>5, PutStep

\* The accounting of an evaluation is called known for one settled attempt only.
LEMMA FinishEvaluationStep ==
  ASSUME GatesInv, NEW i \in Calls, NEW a \in 0..2, NEW s \in 0..2, FinishEvaluation(i, a, s)
  PROVE  GatesInv'
<1> DEFINE o == gt.calls[i]
           d == Answered(o, 200)
           cost == IF s > 0 THEN 1 ELSE 0
           c == [d EXCEPT !.known = Known(a, s), !.cost = cost, !.charged = a]
<1>1. CallOK(o) /\ o.stage = "working" /\ o.kind = "evaluation" /\ o.held \in Nat
  BY DEF GatesInv, GatesState, FinishEvaluation, At, CallOK, CallRecords
<1>2. CallOK(d) /\ d.held = 0 /\ d.stage = "answered" /\ d.kind = "evaluation"
  <2>1. CallOK(d) /\ d.held = 0
    BY <1>1, AnsweredOK
  <2>2. d.stage = "answered" /\ d.kind = "evaluation"
    BY <1>1 DEF Answered, CallOK, CallRecords
  <2> QED
    BY <2>1, <2>2
<1>3. cost \in Nat /\ Known(a, s) \in BOOLEAN /\ (Known(a, s) => cost = a)
  BY DEF Known
<1>4. gt' = [gt EXCEPT !.calls[i] = c, !.used = gt.used - o.held]
  <2> DEFINE e == [gt EXCEPT !.calls[i] = d, !.used = gt.used - o.held]
  <2>1. e = Released(i, 200)
    BY DEF Released, GatesInv, GatesState
  <2>2. gt' = [e EXCEPT !.calls[i].known = Known(a, s), !.calls[i].cost = cost, !.calls[i].charged = a]
    BY <2>1, Zenon DEF FinishEvaluation
  <2> HIDE DEF d, cost
  <2> QED
    BY <2>2, ZenonT(60) DEF GatesInv, GatesState
<1> HIDE DEF d, cost
<1>5. CallOK(c) /\ c.held = 0
  <2>1. /\ c \in CallRecords /\ c.held = 0 /\ c.stage = "answered" /\ c.kind = "evaluation"
        /\ c.declared = d.declared /\ c.size = d.size /\ c.buffered = d.buffered
        /\ c.known = Known(a, s) /\ c.cost = cost /\ c.charged = a
    <3>1. d \in CallRecords /\ a \in Nat
      BY <1>2 DEF CallOK
    <3> QED
      BY <1>2, <1>3, <3>1 DEF CallRecords
  <2> HIDE DEF c
  <2> QED
    BY <1>2, <1>3, <2>1 DEF CallOK, Past
<1>6. gt.used \in Nat /\ gt.used <= InflightLimit /\ InflightLimit \in Nat
  BY GatesAssumption DEF GatesInv, GatesState
<1>7. gt.used - o.held + c.held = gt.used - o.held /\ gt.used - o.held <= InflightLimit
  BY <1>1, <1>5, <1>6
<1> HIDE DEF c, o
<1>8. gt' = [gt EXCEPT !.calls[i] = c, !.used = gt.used - gt.calls[i].held + c.held]
  BY <1>4, <1>7, Zenon DEF o
<1>9. gt.used - gt.calls[i].held + c.held <= InflightLimit
  BY <1>7, Zenon DEF o
<1> QED
  BY <1>5, <1>8, <1>9, OneCallStep, Zenon

LEMMA EndStep ==
  ASSUME GatesInv, NEW i \in Calls, Overread(i) \/ Finish(i) \/ FinishAdmin(i) \/ Panic(i)
  PROVE  GatesInv'
<1>1. CASE Overread(i)
  <2>1. gt' = Released(i, IF Count(gt.calls[i]) THEN 200 ELSE 413)
    BY <1>1 DEF Overread
  <2> QED
    BY <2>1, ReleasedStep
<1>2. CASE Finish(i) \/ Panic(i)
  BY <1>2, ReleasedStep DEF Finish, Panic, Aborted
<1>3. CASE FinishAdmin(i)
  <2>1. gt.calls[i].held = 0
    BY <1>3 DEF FinishAdmin, GatesInv, CallOK
  <2> QED
    BY <1>3, <2>1, ReplyStep DEF FinishAdmin
<1> QED
  BY <1>1, <1>2, <1>3

LEMMA FlipStep ==
  ASSUME GatesInv, NEW x \in Ready, Flip(x)
  PROVE  GatesInv'
<1>1. gt'.calls = gt.calls /\ gt'.used = gt.used
  BY DEF Flip, GatesInv, GatesState
<1>2. gt' \in GatesState
  <2>1. gt.flips - 1 \in 0..Flips
    BY GatesAssumption DEF Flip, GatesInv, GatesState
  <2>2. (IF x \in gt.up THEN gt.up \ {x} ELSE gt.up \cup {x}) \in SUBSET Ready
    BY DEF GatesInv, GatesState
  <2>3. ASSUME NEW n \in 0..Flips, NEW up \in SUBSET Ready
        PROVE  [gt EXCEPT !.flips = n, !.up = up] \in GatesState
    BY DEF GatesInv, GatesState
  <2> QED
    BY <2>1, <2>2, <2>3 DEF Flip
<1>3. Holdings' = Holdings
  BY <1>1 DEF Holdings
<1> QED
  BY <1>1, <1>2, <1>3 DEF GatesInv

LEMMA GatesStep ==
  ASSUME GatesInv, [NextGates]_gt
  PROVE  GatesInv'
<1>1. ASSUME NEW i \in Calls, NEW k \in DataKinds, NEW n \in BodySizes, NEW key \in {"none", "bad", "good"},
             Arrive(i, k, n, n, key, "none") \/ Arrive(i, k, Unknown, n, key, "none")
      PROVE  GatesInv'
  <2>1. n \in Nat /\ "none" \in Credentials
    BY GatesAssumption DEF Credentials
  <2> QED
    BY <1>1, <2>1, ArriveStep
<1>2. ASSUME NEW i \in Calls, NEW k \in {"admin", "evaluation"}, NEW cred \in Credentials,
             NEW key \in {"none", "bad", "good"}, Arrive(i, k, Unknown, 1, key, cred)
      PROVE  GatesInv'
  BY <1>2, ArriveStep
<1>3. ASSUME NEW x \in {"store", "audit", "governance"}, Flip(x)
      PROVE  GatesInv'
  BY <1>3, FlipStep DEF Ready
<1>4. ASSUME UNCHANGED gt
      PROVE  GatesInv'
  BY <1>4 DEF GatesInv, Holdings
<1> QED
  BY <1>1, <1>2, <1>3, <1>4, AdminAuthStep, RequireAdminStep, EnterEvaluationStep, MaxBytesStep, KeyAuthStep,
     AcquireStep, AuditGateStep, GovernanceGateStep, ReadBodyStep, EndStep, FinishEvaluationStep DEF NextGates

LEMMA GatesPromise == GatesInv => GatesHold
<1> SUFFICES ASSUME GatesInv PROVE GatesHold
  OBVIOUS
<1>1. ASSUME NEW i \in Calls
      PROVE  /\ gt.calls[i].held \in 0..RequestLimit
             /\ gt.calls[i].buffered \in Nat /\ gt.calls[i].buffered <= gt.calls[i].held
  <2>1. CallOK(gt.calls[i])
    BY DEF GatesInv
  <2>2. Need(gt.calls[i]) \in 0..RequestLimit
    BY <2>1, NeedType
  <2> QED
    BY <2>1, <2>2, GatesAssumption DEF CallOK, CallRecords
<1>2. GatesTypeOK
  <2>1. gt.used \in 0..InflightLimit /\ gt.flips \in 0..Flips
    BY GatesAssumption DEF GatesInv, GatesState
  <2> QED
    BY <1>1, <2>1, GatesAssumption DEF GatesTypeOK
<1>3. BodiesFit
  <2> DEFINE buffers == [i \in Calls |-> gt.calls[i].buffered]
  <2>1. buffers \in [Calls -> Nat] /\ Holdings \in [Calls -> Nat] /\ \A i \in Calls : buffers[i] <= Holdings[i]
    BY <1>1 DEF Holdings
  <2>2. Total(buffers) <= Total(Holdings)
    <3> HIDE DEF buffers
    <3> QED BY <2>1, TotalMonotone, GatesAssumption
  <2>3. Total(buffers) \in Nat /\ Total(Holdings) \in Nat
    <3> HIDE DEF buffers
    <3> QED BY <2>1, UnitsFinite, GatesAssumption
  <2> QED
    BY <2>2, <2>3, GatesAssumption DEF BodiesFit, GatesInv, Holdings
<1>4. CountsNeverRefused
  BY DEF GatesInv, CallOK, CountsNeverRefused
<1>5. HandledIsEntitled
  BY DEF GatesInv, CallOK, HandledIsEntitled, Past, FullAdmin
<1>6. EvaluationCostIsWhole
  BY DEF GatesInv, CallOK, EvaluationCostIsWhole
<1> QED
  BY <1>2, <1>3, <1>4, <1>5, <1>6 DEF GatesHold

\* Behind the gates of both ports, the bodies in memory fit the in-flight limit,
\* nothing held is lost when a gate refuses or a handler panics, a count of a
\* valid key is answered, handlers serve the entitled only and an evaluation
\* tells its whole cost (server.go, inflight.go, evaluation.go), for any number of
\* calls, body sizes, limits and changes of readiness.
THEOREM GatesAreTight == GatesSpec => []GatesHold
<1>1. InitGates => GatesInv
  BY GatesInitInv
<1>2. GatesInv /\ [NextGates]_gt => GatesInv'
  BY GatesStep
<1>3. GatesInv => GatesHold
  BY GatesPromise
<1> QED
  BY <1>1, <1>2, <1>3, PTL DEF GatesSpec

-----------------------------------------------------------------------------
(* Serving a request *)

Phases == {"gates", "route", "mask", "admit", "target", "reserve", "call", "streaming", "done"}
Apis == {"messages", "chat", "invoke", "converse", "responses"}
Holds == {"none", "held", "exact", "retained"}
Admissions == {"none", "open", "closed"}
Failures == {"upstream_error", "timeout", "canceled", "model_not_found"}
Verdicts == {"ok", "failed"}
Events == {"started", "completed", "denied"}
Statuses == {"none", "ok", "validation", "missing", "busy", "broken", "gateway",
             "invalid", "unauthenticated", "forbidden", "payment"}
Records == [event : Events, status : Statuses, partial : BOOLEAN]
Streams == [usage : BOOLEAN, completed : BOOLEAN, failed : BOOLEAN,
            committed : BOOLEAN, unconverted : BOOLEAN, events : Nat]

\* Requests with n targets.
Requests(n) ==
  [api : Apis, stream : BOOLEAN, native : BOOLEAN, needs : SUBSET Masks,
   chain : {c \in Chains \cup {<< >>} : Len(c) = n}, phase : Phases, at : 0..n, gone : BOOLEAN,
   raw : SUBSET Masks, parsed : SUBSET Masks, est : SUBSET Masks, adm : Admissions,
   hold : [1..n -> Holds], booked : [1..n -> Nat], bookedOn : SUBSET Admissions,
   att : [1..n -> AttemptStatuses], verdicts : [1..n -> Seq(Verdicts)], pinned : SUBSET (1..n),
   lines : Seq(Statuses), from : SUBSET (0..n), trail : Seq(Records), s : Streams, panicked : BOOLEAN]

\* The attempts before the current one were given up, those after it not begun.
GivenUp(r, i) == r.att[i] \in Failures /\ r.hold[i] = "retained" /\ r.verdicts[i] = <<"failed">> /\ r.booked[i] <= 1
Untried(r, i) == r.att[i] = "none" /\ r.hold[i] = "none" /\ r.verdicts[i] = << >> /\ r.booked[i] = 0
Live(n, r) ==
  /\ r \in Requests(n)
  /\ r.bookedOn \subseteq {"open"} /\ ~r.panicked /\ r.pinned \subseteq {r.at}
  /\ \A i \in 1..n : (i < r.at => GivenUp(r, i)) /\ (i > r.at => Untried(r, i))

\* What no step of an attempt changes.
Kept(r, q) ==
  /\ q.api = r.api /\ q.stream = r.stream /\ q.native = r.native /\ q.needs = r.needs /\ q.chain = r.chain
  /\ q.at = r.at /\ q.gone = r.gone /\ q.raw = r.raw /\ q.parsed = r.parsed /\ q.est = r.est
\* The rest, piece by piece.
SameMoney(r, q) == q.hold[r.at] = r.hold[r.at] /\ q.booked[r.at] = r.booked[r.at] /\ q.adm = r.adm
SameAnswer(r, q) == q.lines = r.lines /\ q.from = r.from
SameEvidence(r, q) == q.att[r.at] = r.att[r.at] /\ q.trail = r.trail
SameVerdict(r, q) == q.verdicts[r.at] = r.verdicts[r.at] /\ q.pinned = r.pinned
SameStream(r, q) == q.s = r.s /\ q.phase = r.phase

\* The pieces are the same when the fields are.
SameTables(r, q) == q.hold = r.hold /\ q.booked = r.booked /\ q.att = r.att /\ q.verdicts = r.verdicts
SameFlags(r, q) == q.bookedOn = r.bookedOn /\ q.panicked = r.panicked /\ q.pinned = r.pinned

LEMMA Fields ==
  ASSUME NEW n \in Nat, NEW r, Live(n, r)
  PROVE  /\ r \in Requests(n) /\ r.at \in 0..n /\ (r.at > 0 => r.at \in 1..n)
         /\ r.hold \in [1..n -> Holds] /\ r.booked \in [1..n -> Nat] /\ r.att \in [1..n -> AttemptStatuses]
         /\ r.verdicts \in [1..n -> Seq(Verdicts)] /\ r.pinned \subseteq {r.at} /\ r.bookedOn \subseteq {"open"}
         /\ r.from \subseteq 0..n /\ r.lines \in Seq(Statuses) /\ r.trail \in Seq(Records) /\ r.s \in Streams
<1>1. r \in Requests(n) /\ r.pinned \subseteq {r.at} /\ r.bookedOn \subseteq {"open"}
  BY DEF Live
<1> QED
  BY <1>1 DEF Requests

LEMMA StillLive ==
  ASSUME NEW n \in Nat, NEW r, Live(n, r), NEW q \in Requests(n), q.at = r.at,
         q.bookedOn \subseteq {"open"}, q.panicked = r.panicked, q.pinned \subseteq {r.at},
         \A i \in 1..n : i # r.at => /\ q.att[i] = r.att[i] /\ q.hold[i] = r.hold[i]
                                     /\ q.booked[i] = r.booked[i] /\ q.verdicts[i] = r.verdicts[i]
  PROVE  Live(n, q)
<1>1. \A i \in 1..n : i < r.at \/ i > r.at => i # r.at
  BY DEF Live, Requests
<1> QED
  BY <1>1 DEF Live, GivenUp, Untried

LEMMA WriteHeaderKeeps ==
  ASSUME NEW n \in Nat, NEW r, Live(n, r), NEW status \in Statuses, NEW source \in 0..n
  PROVE  LET q == WriteHeader(r, status, source)
         IN /\ Live(n, q) /\ Kept(r, q) /\ SameMoney(r, q) /\ SameEvidence(r, q) /\ SameVerdict(r, q)
            /\ SameStream(r, q) /\ q.lines = Append(r.lines, status) /\ q.from = r.from \cup {source}
<1> DEFINE q == WriteHeader(r, status, source)
<1>1. r \in Requests(n)
  BY DEF Live
<1>2. q \in Requests(n)
  <2>1. Append(r.lines, status) \in Seq(Statuses) /\ r.from \cup {source} \in SUBSET (0..n)
    BY <1>1 DEF Requests
  <2>2. q = [[r EXCEPT !.lines = Append(r.lines, status)] EXCEPT !.from = r.from \cup {source}]
    BY <1>1 DEF Requests, WriteHeader
  <2> QED
    BY <1>1, <2>1, <2>2, ZenonT(60) DEF Requests
<1>3. /\ Kept(r, q) /\ SameStream(r, q) /\ SameTables(r, q) /\ SameFlags(r, q) /\ q.adm = r.adm /\ q.trail = r.trail
      /\ q.lines = Append(r.lines, status) /\ q.from = r.from \cup {source}
  BY <1>1 DEF WriteHeader, Requests, Kept, SameStream, SameTables, SameFlags
<1> HIDE DEF q
<1>4. Live(n, q)
  BY <1>2, <1>3, StillLive DEF Live, Kept, SameTables, SameFlags
<1> QED
  BY <1>3, <1>4 DEF SameMoney, SameEvidence, SameVerdict, SameTables, SameFlags, q

LEMMA EndOpenAttemptKeeps ==
  ASSUME NEW n \in Nat, NEW r, Live(n, r), NEW status \in AttemptStatuses
  PROVE  LET q == EndOpenAttempt(r, status)
         IN /\ Live(n, q) /\ Kept(r, q) /\ SameMoney(r, q) /\ SameAnswer(r, q) /\ SameVerdict(r, q)
            /\ SameStream(r, q) /\ q.trail = r.trail
            /\ r.at > 0 => q.att[r.at] = IF r.att[r.at] = "open" THEN status ELSE r.att[r.at]
<1> DEFINE q == EndOpenAttempt(r, status)
<1>1. r \in Requests(n)
  BY DEF Live
<1>2. /\ q = [r EXCEPT !.att = q.att]
      /\ q.att = [i \in 1..n |-> IF r.att[i] = "open" THEN status ELSE r.att[i]]
  BY <1>1 DEF EndOpenAttempt, Requests
<1> HIDE DEF q
<1>3. q.att \in [1..n -> AttemptStatuses]
  BY <1>1, <1>2 DEF Requests
<1>4. q \in Requests(n)
  BY <1>1, <1>2, <1>3, ZenonT(60) DEF Requests
<1>5. /\ Kept(r, q) /\ SameStream(r, q) /\ SameFlags(r, q) /\ SameMoney(r, q) /\ SameAnswer(r, q) /\ SameVerdict(r, q)
      /\ q.hold = r.hold /\ q.booked = r.booked /\ q.verdicts = r.verdicts /\ q.trail = r.trail
  BY <1>1, <1>2 DEF Requests, Kept, SameStream, SameFlags, SameMoney, SameAnswer, SameVerdict
<1>6. Live(n, q)
  <2>1. \A i \in 1..n : i # r.at => q.att[i] = r.att[i]
    <3>1. \A i \in 1..n : i # r.at => i < r.at \/ i > r.at
      BY <1>1 DEF Requests
    <3>2. \A i \in 1..n : i < r.at \/ i > r.at => q.att[i] = r.att[i]
      BY <1>2 DEF Live, GivenUp, Untried, Failures
    <3> QED
      BY <3>1, <3>2
  <2> QED
    BY <1>4, <1>5, <2>1, StillLive DEF Live, Kept, SameFlags
<1> QED
  BY <1>1, <1>2, <1>5, <1>6 DEF Requests, q

\* A record on the audit trail.
LEMMA TrailKeeps ==
  ASSUME NEW n \in Nat, NEW r, Live(n, r), NEW e \in Records
  PROVE  LET q == [r EXCEPT !.trail = Append(@, e)]
         IN /\ Live(n, q) /\ Kept(r, q) /\ SameMoney(r, q) /\ SameAnswer(r, q) /\ SameVerdict(r, q)
            /\ SameStream(r, q) /\ q.att[r.at] = r.att[r.at] /\ q.trail = Append(r.trail, e)
<1> DEFINE q == [r EXCEPT !.trail = Append(@, e)]
<1>1. r \in Requests(n)
  BY DEF Live
<1>2. /\ Kept(r, q) /\ SameStream(r, q) /\ SameTables(r, q) /\ SameFlags(r, q) /\ q.adm = r.adm /\ SameAnswer(r, q)
      /\ q.trail = Append(r.trail, e)
  BY <1>1 DEF Requests, Kept, SameStream, SameTables, SameFlags, SameAnswer
<1>3. Append(r.trail, e) \in Seq(Records) /\ q = [r EXCEPT !.trail = Append(r.trail, e)]
  BY <1>1 DEF Requests
<1> HIDE DEF q
<1>4. q \in Requests(n)
  BY <1>1, <1>3 DEF Requests
<1>5. Live(n, q)
  BY <1>2, <1>4, StillLive DEF Live, Kept, SameTables, SameFlags
<1> QED
  BY <1>2, <1>5 DEF SameMoney, SameVerdict, SameTables, SameFlags, q

\* A terminal record closes the attempt that is open.
LEMMA FinishedKeeps ==
  ASSUME NEW n \in Nat, NEW r, Live(n, r), NEW event \in Events, NEW status \in Statuses, NEW partial \in BOOLEAN
  PROVE  LET q == Finished(r, event, status, partial)
         IN /\ Live(n, q) /\ Kept(r, q) /\ SameMoney(r, q) /\ SameAnswer(r, q) /\ SameVerdict(r, q)
            /\ SameStream(r, q) /\ q.trail = Append(r.trail, [event |-> event, status |-> status, partial |-> partial])
            /\ r.at > 0 => q.att[r.at] # "open" /\ (r.att[r.at] # "open" => q.att[r.at] = r.att[r.at])
<1> DEFINE final == FinalAttemptStatus(r, status, partial)
           e == EndOpenAttempt(r, final)
           record == [event |-> event, status |-> status, partial |-> partial]
<1>1. final \in AttemptStatuses /\ final # "open"
  BY DEF FinalAttemptStatus, AttemptStatuses
<1>2. record \in Records
  BY DEF Records
<1> HIDE DEF final, record
<1>3. /\ Live(n, e) /\ Kept(r, e) /\ SameMoney(r, e) /\ SameAnswer(r, e) /\ SameVerdict(r, e)
      /\ SameStream(r, e) /\ e.trail = r.trail
      /\ r.at > 0 => e.att[r.at] = IF r.att[r.at] = "open" THEN final ELSE r.att[r.at]
  BY <1>1, EndOpenAttemptKeeps
<1> DEFINE q == [e EXCEPT !.trail = Append(@, record)]
<1>4. /\ Live(n, q) /\ Kept(e, q) /\ SameMoney(e, q) /\ SameAnswer(e, q) /\ SameVerdict(e, q)
      /\ SameStream(e, q) /\ q.att[e.at] = e.att[e.at] /\ q.trail = Append(e.trail, record)
  BY <1>2, <1>3, TrailKeeps
<1>5. Finished(r, event, status, partial) = q
  BY DEF Finished, final, record
<1> HIDE DEF e, q
<1> QED
  BY <1>1, <1>3, <1>4, <1>5 DEF Kept, SameMoney, SameAnswer, SameVerdict, SameStream, record

LEMMA StartedKeeps ==
  ASSUME NEW n \in Nat, NEW r, Live(n, r)
  PROVE  LET q == Started(r)
         IN /\ Live(n, q) /\ Kept(r, q) /\ SameMoney(r, q) /\ SameAnswer(r, q) /\ SameVerdict(r, q)
            /\ SameStream(r, q) /\ q.att[r.at] = r.att[r.at]
<1>1. [event |-> "started", status |-> "none", partial |-> FALSE] \in Records
  <2>1. "started" \in Events /\ "none" \in Statuses
    BY DEF Events, Statuses
  <2> QED
    BY <2>1 DEF Records
<1> QED
  BY <1>1, TrailKeeps DEF Started

LEMMA FinishOnceKeeps ==
  ASSUME NEW n \in Nat, NEW r, Live(n, r), r.at > 0, NEW complete \in BOOLEAN
  PROVE  LET q == FinishOnce(r, r.at, complete)
         IN /\ Live(n, q) /\ Kept(r, q) /\ SameAnswer(r, q) /\ SameVerdict(r, q) /\ SameEvidence(r, q)
            /\ SameStream(r, q) /\ q.booked[r.at] = r.booked[r.at] /\ q.adm = r.adm
            /\ q.hold[r.at] = IF r.hold[r.at] = "held" THEN IF complete THEN "exact" ELSE "retained"
                              ELSE r.hold[r.at]
<1> DEFINE q == FinishOnce(r, r.at, complete)
           h == IF r.hold[r.at] = "held" THEN IF complete THEN "exact" ELSE "retained" ELSE r.hold[r.at]
<1>1. r \in Requests(n) /\ r.at \in 1..n /\ r.hold \in [1..n -> Holds]
  BY Fields
<1>2. h \in Holds
  BY <1>1 DEF Holds
<1>3. q.hold = [r.hold EXCEPT ![r.at] = h] /\ q = [r EXCEPT !.hold = q.hold]
  BY <1>1 DEF FinishOnce, Requests
<1>4. /\ Kept(r, q) /\ SameStream(r, q) /\ SameFlags(r, q) /\ SameAnswer(r, q) /\ SameVerdict(r, q) /\ SameEvidence(r, q)
      /\ q.att = r.att /\ q.booked = r.booked /\ q.verdicts = r.verdicts /\ q.adm = r.adm
  BY <1>1 DEF FinishOnce, Requests, Kept, SameStream, SameFlags, SameAnswer, SameVerdict, SameEvidence
<1> HIDE DEF q, h
<1>5. q.hold \in [1..n -> Holds]
  BY <1>1, <1>2, <1>3
<1>6. q \in Requests(n)
  BY <1>1, <1>3, <1>5, ZenonT(60) DEF Requests
<1>7. q.hold[r.at] = h /\ \A i \in 1..n : i # r.at => q.hold[i] = r.hold[i]
  BY <1>1, <1>3
<1>8. Live(n, q)
  BY <1>4, <1>6, <1>7, StillLive DEF Live, Kept, SameFlags
<1> QED
  BY <1>4, <1>7, <1>8 DEF q, h

LEMMA RecordResultKeeps ==
  ASSUME NEW n \in Nat, NEW r, Live(n, r), r.at > 0, NEW verdict \in Verdicts
  PROVE  LET q == RecordResult(r, verdict)
         IN /\ Live(n, q) /\ Kept(r, q) /\ SameMoney(r, q) /\ SameAnswer(r, q) /\ SameEvidence(r, q)
            /\ SameStream(r, q) /\ q.pinned = r.pinned
            /\ q.verdicts[r.at] = Append(r.verdicts[r.at], verdict)
<1> DEFINE q == RecordResult(r, verdict)
           v == Append(r.verdicts[r.at], verdict)
<1>1. r \in Requests(n) /\ r.at \in 1..n /\ r.verdicts \in [1..n -> Seq(Verdicts)]
  BY Fields
<1>2. v \in Seq(Verdicts)
  BY <1>1
<1>3. q.verdicts = [r.verdicts EXCEPT ![r.at] = v] /\ q = [r EXCEPT !.verdicts = q.verdicts]
  BY <1>1 DEF RecordResult, Requests
<1>4. /\ Kept(r, q) /\ SameStream(r, q) /\ SameFlags(r, q) /\ SameMoney(r, q) /\ SameAnswer(r, q) /\ SameEvidence(r, q)
      /\ q.att = r.att /\ q.booked = r.booked /\ q.hold = r.hold
  BY <1>1 DEF RecordResult, Requests, Kept, SameStream, SameFlags, SameMoney, SameAnswer, SameEvidence
<1> HIDE DEF q, v
<1>5. q.verdicts \in [1..n -> Seq(Verdicts)]
  BY <1>1, <1>2, <1>3
<1>6. q \in Requests(n)
  BY <1>1, <1>3, <1>5, ZenonT(60) DEF Requests
<1>7. q.verdicts[r.at] = v /\ \A i \in 1..n : i # r.at => q.verdicts[i] = r.verdicts[i]
  BY <1>1, <1>3
<1>8. Live(n, q)
  BY <1>4, <1>6, <1>7, StillLive DEF Live, Kept, SameFlags
<1> QED
  BY <1>4, <1>7, <1>8 DEF q, v, SameFlags

LEMMA RecordSuccessKeeps ==
  ASSUME NEW n \in Nat, NEW r, Live(n, r), r.at > 0
  PROVE  LET q == RecordSuccess(r)
         IN /\ Live(n, q) /\ Kept(r, q) /\ SameMoney(r, q) /\ SameAnswer(r, q) /\ SameEvidence(r, q)
            /\ SameStream(r, q) /\ q.verdicts[r.at] = r.verdicts[r.at]
<1> DEFINE q == [r EXCEPT !.pinned = @ \cup {r.at}]
<1>1. r \in Requests(n) /\ r.at \in 1..n /\ r.pinned \subseteq {r.at}
  BY Fields
<1>2. q.pinned = r.pinned \cup {r.at} /\ q = [r EXCEPT !.pinned = r.pinned \cup {r.at}]
  BY <1>1 DEF Requests
<1>3. /\ Kept(r, q) /\ SameStream(r, q) /\ SameTables(r, q) /\ SameAnswer(r, q) /\ q.adm = r.adm /\ q.trail = r.trail
      /\ q.bookedOn = r.bookedOn /\ q.panicked = r.panicked
  BY <1>1 DEF Requests, Kept, SameStream, SameTables, SameAnswer
<1> HIDE DEF q
<1>4. q \in Requests(n)
  BY <1>1, <1>2, ZenonT(60) DEF Requests
<1>5. Live(n, q)
  BY <1>1, <1>2, <1>3, <1>4, StillLive DEF Live, Kept, SameTables
<1>6. RecordSuccess(r) = r \/ RecordSuccess(r) = q
  BY DEF RecordSuccess, q
<1> QED
  BY <1>3, <1>5, <1>6 DEF Kept, SameMoney, SameAnswer, SameEvidence, SameStream, SameTables

\* Usage is booked on the open admission, once more.
LEMMA SettleBudgetKeeps ==
  ASSUME NEW n \in Nat, NEW r, Live(n, r), r.at > 0, r.adm = "open", NEW usage \in BOOLEAN, NEW complete \in BOOLEAN
  PROVE  LET q == SettleBudget(r, usage, complete)
         IN /\ Live(n, q) /\ Kept(r, q) /\ SameAnswer(r, q) /\ SameVerdict(r, q) /\ SameEvidence(r, q)
            /\ SameStream(r, q) /\ q.booked[r.at] <= r.booked[r.at] + 1 /\ q.adm = "open"
            /\ q.hold[r.at] = IF r.hold[r.at] = "held" THEN IF usage /\ complete THEN "exact" ELSE "retained"
                              ELSE r.hold[r.at]
<1> DEFINE b == r.booked[r.at] + (IF usage THEN 1 ELSE 0)
           on == r.bookedOn \cup (IF usage THEN {r.adm} ELSE {})
           p == [r EXCEPT !.booked[r.at] = @ + (IF usage THEN 1 ELSE 0),
                          !.bookedOn = @ \cup (IF usage THEN {r.adm} ELSE {})]
<1>1. r \in Requests(n) /\ r.at \in 1..n /\ r.booked \in [1..n -> Nat] /\ r.bookedOn \subseteq {"open"}
  BY Fields
<1>2. b \in Nat /\ b <= r.booked[r.at] + 1 /\ on \subseteq {"open"}
  BY <1>1
<1>3. /\ p.booked = [r.booked EXCEPT ![r.at] = b] /\ p.bookedOn = on
      /\ p = [[r EXCEPT !.booked = p.booked] EXCEPT !.bookedOn = on]
  BY <1>1 DEF Requests
<1>4. /\ Kept(r, p) /\ SameStream(r, p) /\ SameAnswer(r, p) /\ SameVerdict(r, p) /\ SameEvidence(r, p)
      /\ p.att = r.att /\ p.verdicts = r.verdicts /\ p.hold = r.hold /\ p.adm = r.adm /\ p.pinned = r.pinned
      /\ p.panicked = r.panicked
  BY <1>1 DEF Requests, Kept, SameStream, SameVerdict, SameAnswer, SameEvidence
<1>5. SettleBudget(r, usage, complete) = FinishOnce(p, r.at, usage /\ complete)
  BY DEF SettleBudget
<1> HIDE DEF p, b, on
<1>6. p.booked \in [1..n -> Nat] /\ on \in SUBSET Admissions
  BY <1>1, <1>2, <1>3 DEF Admissions
<1>7. p \in Requests(n)
  <2> DEFINE booked == [r EXCEPT !.booked = p.booked]
  <2>1. booked \in Requests(n)
    BY <1>1, <1>6 DEF Requests
  <2>2. [booked EXCEPT !.bookedOn = on] \in Requests(n)
    <3> HIDE DEF booked
    <3> QED
      BY <1>6, <2>1 DEF Requests
  <2> QED
    BY <1>3, <2>2
<1>8. p.booked[r.at] = b /\ \A i \in 1..n : i # r.at => p.booked[i] = r.booked[i]
  BY <1>1, <1>3
<1>9. p.at = r.at
  BY <1>4 DEF Kept
<1>10. Live(n, p)
  <2>1. p.bookedOn \subseteq {"open"} /\ p.pinned \subseteq {r.at}
    BY <1>2, <1>3, <1>4 DEF Live
  <2>2. \A i \in 1..n : i # r.at => /\ p.att[i] = r.att[i] /\ p.hold[i] = r.hold[i]
                                    /\ p.booked[i] = r.booked[i] /\ p.verdicts[i] = r.verdicts[i]
    BY <1>4, <1>8
  <2> QED
    BY <1>4, <1>7, <1>9, <2>1, <2>2, StillLive
<1> DEFINE q == FinishOnce(p, p.at, usage /\ complete)
<1>11. /\ Live(n, q) /\ Kept(p, q) /\ SameAnswer(p, q) /\ SameVerdict(p, q) /\ SameEvidence(p, q)
       /\ SameStream(p, q) /\ q.booked[p.at] = p.booked[p.at] /\ q.adm = p.adm
       /\ q.hold[p.at] = IF p.hold[p.at] = "held" THEN IF usage /\ complete THEN "exact" ELSE "retained"
                         ELSE p.hold[p.at]
  BY <1>9, <1>10, FinishOnceKeeps
<1> HIDE DEF q
<1>12. SettleBudget(r, usage, complete) = q
  BY <1>5, <1>9 DEF q
<1> QED
  BY <1>2, <1>4, <1>8, <1>9, <1>11, <1>12 DEF Kept, SameAnswer, SameVerdict, SameEvidence, SameStream

-----------------------------------------------------------------------------
(* The end of a request. *)

\* An answer that was whole, and relayed.
Whole(r, i) == r.from \subseteq {i} /\ r.lines = <<"ok">> /\ r.att[i] = "ok" /\ (r.stream => StreamComplete(r.s) /\ r.s.usage)
\* The last record says what the client saw.
Told(r) == r.trail # << >> => /\ r.trail[Len(r.trail)].event # "started"
                              /\ r.lines = <<r.trail[Len(r.trail)].status>>

AtEnd(n, r) ==
  /\ r \in Requests(n) /\ r.phase = "done" /\ r.bookedOn \subseteq {"open"} /\ r.adm # "open" /\ Len(r.lines) <= 1
  /\ \A i \in 1..n : /\ r.hold[i] # "held" /\ r.booked[i] <= 1 /\ Len(r.verdicts[i]) <= 1
                     /\ i < r.at => GivenUp(r, i)
                     /\ r.hold[i] = "exact" \/ i \in r.pinned => Whole(r, i)
                     /\ ~r.panicked /\ r.trail # << >> => r.att[i] # "open"
  /\ ~r.panicked => Told(r)

\* What holds when the deferred calls run.
Ending(n, r) ==
  /\ Live(n, r) /\ Len(r.lines) <= 1
  /\ r.at > 0 => /\ r.booked[r.at] <= 1 /\ Len(r.verdicts[r.at]) <= 1
                 /\ r.hold[r.at] = "exact" \/ r.at \in r.pinned => Whole(r, r.at)

LEMMA ReturnFields ==
  ASSUME NEW n \in Nat, NEW r, Live(n, r)
  PROVE  LET q == Return(r)
         IN /\ q \in Requests(n) /\ Kept(r, q) /\ SameAnswer(r, q) /\ SameFlags(r, q)
            /\ q.booked = r.booked /\ q.att = r.att /\ q.verdicts = r.verdicts /\ q.trail = r.trail /\ q.s = r.s
            /\ q.phase = "done" /\ q.adm = (IF r.adm = "open" THEN "closed" ELSE r.adm)
            /\ q.hold = [i \in 1..n |-> IF r.hold[i] = "held" THEN "retained" ELSE r.hold[i]]
<1> DEFINE h == [i \in 1..n |-> IF r.hold[i] = "held" THEN "retained" ELSE r.hold[i]]
           a == IF r.adm = "open" THEN "closed" ELSE r.adm
           q == [[[r EXCEPT !.hold = h] EXCEPT !.adm = a] EXCEPT !.phase = "done"]
<1>1. r \in Requests(n) /\ r.hold \in [1..n -> Holds]
  BY Fields
<1>2. h \in [1..n -> Holds] /\ a \in Admissions /\ "done" \in Phases
  BY <1>1 DEF Holds, Admissions, Phases, Requests
<1>3. Return(r) = q
  BY <1>1 DEF Return, FinishAll, Requests
<1> HIDE DEF h, a
<1>4. q \in Requests(n)
  BY <1>1, <1>2 DEF Requests
<1>5. /\ Kept(r, q) /\ SameAnswer(r, q) /\ SameFlags(r, q)
      /\ q.booked = r.booked /\ q.att = r.att /\ q.verdicts = r.verdicts /\ q.trail = r.trail /\ q.s = r.s
      /\ q.phase = "done" /\ q.adm = a /\ q.hold = h
  BY <1>1 DEF Requests, Kept, SameAnswer, SameFlags
<1> QED
  BY <1>3, <1>4, <1>5 DEF h, a

LEMMA ReturnEnds ==
  ASSUME NEW n \in Nat, NEW r, Ending(n, r), Told(r), r.trail # << >> /\ r.at > 0 => r.att[r.at] # "open"
  PROVE  AtEnd(n, Return(r))
<1> DEFINE q == Return(r)
<1>1. Live(n, r) /\ Len(r.lines) <= 1
  BY DEF Ending
<1>2. /\ q \in Requests(n) /\ Kept(r, q) /\ SameAnswer(r, q) /\ SameFlags(r, q)
      /\ q.booked = r.booked /\ q.att = r.att /\ q.verdicts = r.verdicts /\ q.trail = r.trail /\ q.s = r.s
      /\ q.phase = "done" /\ q.adm = (IF r.adm = "open" THEN "closed" ELSE r.adm)
      /\ q.hold = [i \in 1..n |-> IF r.hold[i] = "held" THEN "retained" ELSE r.hold[i]]
  BY <1>1, ReturnFields
<1> HIDE DEF q
<1>3. q.adm # "open" /\ q.bookedOn \subseteq {"open"} /\ Len(q.lines) <= 1
  BY <1>1, <1>2 DEF SameAnswer, SameFlags, Live
<1>4. Told(q)
  BY <1>2 DEF Told, SameAnswer
<1>5. ASSUME NEW i \in 1..n
      PROVE  /\ q.hold[i] # "held" /\ q.booked[i] <= 1 /\ Len(q.verdicts[i]) <= 1
             /\ i < q.at => GivenUp(q, i)
             /\ q.hold[i] = "exact" \/ i \in q.pinned => Whole(q, i)
             /\ ~q.panicked /\ q.trail # << >> => q.att[i] # "open"
  <2>1. q.hold[i] = (IF r.hold[i] = "held" THEN "retained" ELSE r.hold[i]) /\ q.at = r.at /\ r.at \in 0..n
    BY <1>1, <1>2, Fields DEF Kept
  <2>2. CASE i < r.at
    <3>1. GivenUp(r, i) /\ i \notin r.pinned
      BY <1>1, <2>2, Fields DEF Live
    <3>2. GivenUp(q, i) /\ q.hold[i] = "retained"
      BY <1>2, <2>1, <3>1 DEF GivenUp
    <3>3. Len(q.verdicts[i]) <= 1 /\ q.booked[i] <= 1 /\ q.att[i] # "open" /\ i \notin q.pinned
      BY <1>2, <3>1, <3>2 DEF GivenUp, Failures, SameFlags
    <3> QED
      BY <3>2, <3>3
  <2>3. CASE i > r.at
    <3>1. Untried(r, i) /\ i \notin r.pinned
      BY <1>1, <2>1, <2>3, Fields DEF Live
    <3>2. q.hold[i] = "none" /\ q.booked[i] = 0 /\ q.verdicts[i] = << >> /\ q.att[i] = "none"
      BY <1>2, <2>1, <3>1 DEF Untried
    <3>3. i \notin q.pinned /\ ~(i < q.at)
      BY <1>2, <2>1, <2>3, <3>1 DEF SameFlags
    <3>4. Len(q.verdicts[i]) <= 1 /\ q.booked[i] <= 1 /\ q.hold[i] # "held" /\ q.hold[i] # "exact"
      BY <3>2
    <3>5. q.att[i] # "open"
      BY <3>2
    <3> QED
      BY <3>3, <3>4, <3>5
  <2>4. CASE i = r.at
    <3>1. r.at > 0
      BY <2>4
    <3>2. /\ r.booked[r.at] <= 1 /\ Len(r.verdicts[r.at]) <= 1
          /\ r.hold[r.at] = "exact" \/ r.at \in r.pinned => Whole(r, r.at)
      BY <3>1 DEF Ending
    <3>3. Whole(r, i) => Whole(q, i)
      BY <1>2 DEF Whole, SameAnswer, Kept
    <3>4. q.hold[i] = "exact" \/ i \in q.pinned => r.hold[i] = "exact" \/ i \in r.pinned
      BY <1>2, <2>1 DEF SameFlags
    <3>5. q.hold[i] # "held" /\ ~(i < q.at)
      BY <2>1, <2>4
    <3>6. q.trail # << >> => q.att[i] # "open"
      BY <1>2, <2>4, <3>1
    <3> QED
      BY <1>2, <2>4, <3>2, <3>3, <3>4, <3>5, <3>6
  <2> QED
    BY <2>1, <2>2, <2>3, <2>4
<1> QED
  BY <1>2, <1>3, <1>4, <1>5 DEF AtEnd, q

\* A terminal record is the last thing written, or the answer follows it.
LEMMA FinishEnds ==
  ASSUME NEW n \in Nat, NEW r, Ending(n, r), NEW event \in Events \ {"started"}, NEW status \in Statuses,
         NEW partial \in BOOLEAN, r.lines = <<status>>
  PROVE  AtEnd(n, Return(Finished(r, event, status, partial)))
<1> DEFINE q == Finished(r, event, status, partial)
           record == [event |-> event, status |-> status, partial |-> partial]
<1>1. /\ Live(n, q) /\ Kept(r, q) /\ SameMoney(r, q) /\ SameAnswer(r, q) /\ SameVerdict(r, q)
      /\ SameStream(r, q) /\ q.trail = Append(r.trail, record)
      /\ r.at > 0 => q.att[r.at] # "open" /\ (r.att[r.at] # "open" => q.att[r.at] = r.att[r.at])
  BY FinishedKeeps DEF Ending
<1> HIDE DEF q
<1>2. Told(q)
  <2>1. r.trail \in Seq(Records)
    BY Fields DEF Ending
  <2>2. q.trail[Len(q.trail)] = record
    BY <1>1, <2>1
  <2> QED
    BY <1>1, <2>2 DEF Told, SameAnswer
<1>3. Ending(n, q)
  <2>1. Len(q.lines) <= 1
    BY <1>1 DEF SameAnswer, Ending
  <2>2. r.at > 0 /\ Whole(r, r.at) => Whole(q, q.at)
    BY <1>1 DEF Whole, SameAnswer, SameStream, Kept
  <2> QED
    BY <1>1, <2>1, <2>2 DEF Ending, SameMoney, SameVerdict, Kept
<1>4. q.at > 0 => q.att[q.at] # "open"
  BY <1>1 DEF Kept
<1> QED
  BY <1>2, <1>3, <1>4, ReturnEnds DEF q

\* Nothing was exact and nothing pinned: the attempt came to nothing.
Spent(r) == r.at > 0 => r.hold[r.at] # "exact" /\ r.booked[r.at] <= 1 /\ Len(r.verdicts[r.at]) <= 1

LEMMA TellEnds ==
  ASSUME NEW n \in Nat, NEW r, Live(n, r), r.pinned = {}, Spent(r), r.lines = << >>,
         NEW status \in Statuses, NEW source \in 0..n,
         r.trail # << >> => /\ r.trail[Len(r.trail)].event # "started" /\ r.trail[Len(r.trail)].status = status
                            /\ r.at > 0 => r.att[r.at] # "open"
  PROVE  AtEnd(n, Return(WriteHeader(r, status, source)))
<1> DEFINE q == WriteHeader(r, status, source)
<1>1. /\ Live(n, q) /\ Kept(r, q) /\ SameMoney(r, q) /\ SameEvidence(r, q) /\ SameVerdict(r, q)
      /\ q.lines = Append(r.lines, status)
  BY WriteHeaderKeeps
<1> HIDE DEF q
<1>2. q.lines = <<status>>
  BY <1>1
<1>3. Told(q)
  BY <1>1, <1>2 DEF Told, SameEvidence
<1>4. Ending(n, q)
  <2>1. Len(q.lines) <= 1 /\ q.pinned = {} /\ q.at = r.at
    BY <1>1, <1>2 DEF SameVerdict, Kept
  <2>2. q.at > 0 => q.hold[q.at] # "exact" /\ q.booked[q.at] <= 1 /\ Len(q.verdicts[q.at]) <= 1
    BY <1>1, <2>1 DEF Spent, SameMoney, SameVerdict
  <2> QED
    BY <1>1, <2>1, <2>2 DEF Ending
<1>5. q.trail # << >> /\ q.at > 0 => q.att[q.at] # "open"
  BY <1>1 DEF SameEvidence, Kept
<1> QED
  BY <1>3, <1>4, <1>5, ReturnEnds DEF q

\* A gate refuses before an attempt has written anything.
LEMMA RefuseEnds ==
  ASSUME NEW n \in Nat, NEW r, Live(n, r), r.pinned = {}, Spent(r), r.lines = << >>,
         NEW status \in Statuses, NEW audited \in BOOLEAN, audited \/ r.trail = << >>
  PROVE  AtEnd(n, Refuse(r, status, audited))
<1>1. CASE audited
  <2>p. PICK no \in BOOLEAN : no = FALSE
    OBVIOUS
  <2> DEFINE q == Finished(r, "denied", status, no)
             record == [event |-> "denied", status |-> status, partial |-> no]
  <2>0. "denied" \in Events
    BY DEF Events
  <2>1. /\ Live(n, q) /\ Kept(r, q) /\ SameMoney(r, q) /\ SameAnswer(r, q) /\ SameVerdict(r, q)
        /\ q.trail = Append(r.trail, record)
        /\ r.at > 0 => q.att[r.at] # "open"
    BY <2>0, FinishedKeeps
  <2>2. r.trail \in Seq(Records)
    BY Fields
  <2> HIDE DEF q
  <2>3. q.trail[Len(q.trail)] = record
    BY <2>1, <2>2
  <2>4. q.pinned = {} /\ q.lines = << >> /\ q.at = r.at
    BY <2>1 DEF SameVerdict, SameAnswer, Kept
  <2>5. Spent(q)
    BY <2>1, <2>4 DEF Spent, SameMoney, SameVerdict
  <2>6. AtEnd(n, Return(WriteHeader(q, status, 0)))
    BY <2>1, <2>3, <2>4, <2>5, TellEnds
  <2> QED
    BY <1>1, <2>p, <2>6 DEF Denied, Refuse, q
<1>2. CASE ~audited
  <2>1. AtEnd(n, Return(WriteHeader(r, status, 0)))
    BY <1>2, TellEnds
  <2>2. Refuse(r, status, audited) = Return(WriteHeader(r, status, 0))
    BY <1>2 DEF Refuse
  <2> QED
    BY <2>1, <2>2
<1> QED
  BY <1>1, <1>2

LEMMA ResponsesFinishKeeps ==
  ASSUME NEW n \in Nat, NEW r, Live(n, r), r.at > 0, r.adm = "open", NEW status \in Statuses,
         NEW usage \in BOOLEAN, NEW partial \in BOOLEAN
  PROVE  LET q == ResponsesFinish(r, status, usage, partial)
         IN /\ Live(n, q) /\ Kept(r, q) /\ SameAnswer(r, q) /\ SameVerdict(r, q) /\ SameStream(r, q)
            /\ q.booked[r.at] <= r.booked[r.at] + 1
            /\ q.hold[r.at] = IF r.hold[r.at] = "held"
                              THEN IF usage /\ (status = "ok" /\ ~partial) THEN "exact" ELSE "retained"
                              ELSE r.hold[r.at]
            /\ q.trail # << >> /\ q.trail[Len(q.trail)].event = "completed" /\ q.trail[Len(q.trail)].status = status
            /\ q.att[r.at] # "open" /\ (r.att[r.at] # "open" => q.att[r.at] = r.att[r.at])
<1> DEFINE whole == status = "ok" /\ ~partial
           p == SettleBudget(r, usage, whole)
           f == Finished(p, "completed", status, partial)
           q == [f EXCEPT !.adm = "closed"]
           record == [event |-> "completed", status |-> status, partial |-> partial]
<1>1. /\ Live(n, p) /\ Kept(r, p) /\ SameAnswer(r, p) /\ SameVerdict(r, p) /\ SameEvidence(r, p)
      /\ SameStream(r, p) /\ p.booked[r.at] <= r.booked[r.at] + 1 /\ p.adm = "open"
      /\ p.hold[r.at] = IF r.hold[r.at] = "held" THEN IF usage /\ whole THEN "exact" ELSE "retained"
                        ELSE r.hold[r.at]
  BY SettleBudgetKeeps
<1>2. "completed" \in Events /\ p.at = r.at
  BY <1>1 DEF Events, Kept
<1>3. /\ Live(n, f) /\ Kept(p, f) /\ SameMoney(p, f) /\ SameAnswer(p, f) /\ SameVerdict(p, f)
      /\ SameStream(p, f) /\ f.trail = Append(p.trail, record)
      /\ f.att[p.at] # "open" /\ (p.att[p.at] # "open" => f.att[p.at] = p.att[p.at])
  BY <1>1, <1>2, FinishedKeeps
<1>4. ResponsesFinish(r, status, usage, partial) = q
  BY DEF ResponsesFinish
<1>5. f \in Requests(n) /\ p.trail \in Seq(Records)
  BY <1>1, <1>3, Fields
<1> HIDE DEF f
<1>6. q \in Requests(n)
  BY <1>5 DEF Requests, Admissions
<1>7. /\ Kept(f, q) /\ SameTables(f, q) /\ SameFlags(f, q) /\ SameAnswer(f, q) /\ SameStream(f, q) /\ q.trail = f.trail
  BY <1>5 DEF Requests, Kept, SameTables, SameFlags, SameAnswer, SameStream
<1> HIDE DEF q
<1>8. Live(n, q)
  BY <1>3, <1>6, <1>7, StillLive, ZenonT(60) DEF Live, Kept, SameTables, SameFlags
<1>9. q.trail # << >> /\ q.trail[Len(q.trail)] = record
  BY <1>3, <1>5, <1>7
<1> HIDE DEF p
<1>10. Kept(r, q) /\ SameAnswer(r, q) /\ SameVerdict(r, q) /\ SameStream(r, q)
  BY <1>1, <1>3, <1>7 DEF Kept, SameAnswer, SameVerdict, SameStream, SameTables, SameFlags
<1>11. /\ q.booked[r.at] = p.booked[r.at] /\ q.hold[r.at] = p.hold[r.at] /\ q.att[r.at] = f.att[r.at]
       /\ p.att[r.at] = r.att[r.at]
  BY <1>1, <1>2, <1>3, <1>7 DEF SameTables, SameMoney, SameEvidence
<1> QED
  BY <1>1, <1>2, <1>3, <1>4, <1>8, <1>9, <1>10, <1>11

LEMMA CompletedEnds ==
  ASSUME NEW n \in Nat, NEW r, Ending(n, r), NEW status \in Statuses, r.lines = <<status>>
  PROVE  AtEnd(n, Return(Completed(r, status))) /\ (status = "ok" => AtEnd(n, Return(CompletedPartial(r))))
<1>1. PICK no \in BOOLEAN, yes \in BOOLEAN : no = FALSE /\ yes = TRUE
  OBVIOUS
<1>2. "completed" \in Events \ {"started"}
  BY DEF Events
<1>3. /\ AtEnd(n, Return(Finished(r, "completed", status, no)))
      /\ AtEnd(n, Return(Finished(r, "completed", status, yes)))
  BY <1>2, FinishEnds
<1> QED
  BY <1>1, <1>3 DEF Completed, CompletedPartial

-----------------------------------------------------------------------------
(* The phases of a request. *)

Masked(r) == r.needs \subseteq r.raw /\ r.parsed = r.raw /\ r.est = r.raw
Silent(r) == r.lines = << >> /\ r.from = {} /\ r.pinned = {}
Fresh(n, r) == Live(n, r) /\ r.at = 0 /\ Silent(r) /\ r.trail = << >> /\ r.s = NoStream /\ r.adm = "none"
Waiting(n, r) == Live(n, r) /\ r.at > 0 /\ Masked(r) /\ Silent(r) /\ r.s = NoStream /\ Untried(r, r.at)
Calling(n, r) == /\ Live(n, r) /\ r.at > 0 /\ Masked(r) /\ r.pinned = {} /\ r.adm = "open"
                 /\ r.hold[r.at] = "held" /\ r.att[r.at] = "open" /\ r.booked[r.at] = 0

AtStart(n, r) == n = 0 /\ Fresh(n, r) /\ r.phase \in {"gates", "route"} /\ r.raw = {} /\ r.parsed = {}
AtMask(n, r) == /\ n > 0 /\ Fresh(n, r) /\ r.phase = "mask" /\ r.parsed = r.raw
                /\ "policy" \in r.needs => "policy" \in r.raw
                /\ "policy" \in r.raw => r.needs \subseteq r.raw
AtAdmit(n, r) == n > 0 /\ Fresh(n, r) /\ r.phase = "admit" /\ r.needs \subseteq r.raw /\ r.parsed = r.raw
AtTarget(n, r) == Waiting(n, r) /\ r.phase = "target" /\ (r.at = 1 \/ r.api # "responses" => r.adm = "open")
AtReserve(n, r) == Waiting(n, r) /\ r.phase = "reserve" /\ r.adm = "open"
AtCall(n, r) == Calling(n, r) /\ r.phase = "call" /\ Silent(r) /\ r.s = NoStream /\ r.verdicts[r.at] = << >>
\* Four ingresses have committed and praised; Responses commits later and praises at the end.
AtStream(n, r) ==
  /\ Calling(n, r) /\ r.phase = "streaming"
  /\ r.verdicts[r.at] = IF r.api = "responses" THEN << >> ELSE <<"ok">>
  /\ IF r.s.committed THEN r.lines = <<"ok">> /\ r.from = {r.at}
     ELSE r.lines = << >> /\ r.from = {} /\ r.api = "responses"

\* The attempt is left for the next one.
LEMMA NextTargetMoves ==
  ASSUME NEW n \in Nat, NEW r, Live(n, r), r.at > 0, r.at # n, Masked(r), Silent(r), r.verdicts[r.at] = << >>,
         r.booked[r.at] <= 1, r.hold[r.at] \in {"held", "retained"}, r.att[r.at] \in Failures,
         r.api # "responses" => r.adm = "open"
  PROVE  AtTarget(n, NextTarget(r))
<1>1. PICK no \in BOOLEAN : no = FALSE
  OBVIOUS
<1> DEFINE f == FinishOnce(r, r.at, no)
           v == RecordResult(f, "failed")
           q == [[[v EXCEPT !.at = v.at + 1] EXCEPT !.phase = "target"] EXCEPT !.s = NoStream]
<1>2. /\ Live(n, f) /\ Kept(r, f) /\ SameAnswer(r, f) /\ SameVerdict(r, f) /\ SameEvidence(r, f)
      /\ f.booked[r.at] = r.booked[r.at] /\ f.adm = r.adm /\ f.hold[r.at] = "retained"
  BY <1>1, FinishOnceKeeps
<1>3. f.at = r.at /\ "failed" \in Verdicts
  BY <1>2 DEF Kept, Verdicts
<1>4. /\ Live(n, v) /\ Kept(f, v) /\ SameMoney(f, v) /\ SameAnswer(f, v) /\ SameEvidence(f, v)
      /\ v.pinned = f.pinned /\ v.verdicts[f.at] = Append(f.verdicts[f.at], "failed")
  BY <1>2, <1>3, RecordResultKeeps
<1> HIDE DEF f
<1>5. v.at = r.at /\ v.api = r.api /\ Masked(v) /\ Silent(v) /\ v.adm = r.adm
  BY <1>2, <1>3, <1>4 DEF Kept, Masked, Silent, SameAnswer, SameVerdict, SameMoney
<1>6. GivenUp(v, r.at)
  <2>1. v.verdicts[r.at] = <<"failed">>
    BY <1>2, <1>3, <1>4 DEF SameVerdict
  <2> QED
    BY <1>2, <1>3, <1>4, <2>1 DEF GivenUp, SameMoney, SameEvidence
<1>7. v \in Requests(n) /\ v.at \in 1..n
  BY <1>4, <1>5, Fields
<1>8. NextTarget(r) = q
  <2>1. NextTarget(r) = [v EXCEPT !.at = @ + 1, !.phase = "target", !.s = NoStream]
    BY <1>1 DEF NextTarget, f
  <2> HIDE DEF v
  <2> QED
    BY <1>7, <2>1 DEF Requests
<1> HIDE DEF v
<1>9. v.at + 1 \in 0..n /\ "target" \in Phases /\ NoStream \in Streams
  BY <1>5, <1>7 DEF Phases, NoStream, Streams
<1>10. q \in Requests(n)
  BY <1>7, <1>9 DEF Requests
<1>11. /\ q.at = v.at + 1 /\ q.phase = "target" /\ q.s = NoStream /\ SameTables(v, q) /\ SameFlags(v, q)
       /\ q.adm = v.adm /\ q.api = v.api /\ SameAnswer(v, q) /\ q.needs = v.needs /\ q.raw = v.raw
       /\ q.parsed = v.parsed /\ q.est = v.est
  BY <1>7 DEF Requests, SameTables, SameFlags, SameAnswer
<1> HIDE DEF q
<1>12. ASSUME NEW i \in 1..n PROVE (i < q.at => GivenUp(q, i)) /\ (i > q.at => Untried(q, i))
  <2>1. i < q.at => i < v.at \/ i = v.at
    BY <1>7, <1>11
  <2>2. i > q.at => i > v.at
    BY <1>7, <1>11
  <2>3. (i < v.at => GivenUp(v, i)) /\ (i > v.at => Untried(v, i)) /\ (i = v.at => GivenUp(v, i))
    BY <1>4, <1>5, <1>6 DEF Live
  <2>4. (GivenUp(v, i) => GivenUp(q, i)) /\ (Untried(v, i) => Untried(q, i))
    BY <1>11 DEF GivenUp, Untried, SameTables
  <2> QED
    BY <2>1, <2>2, <2>3, <2>4
<1>13. Live(n, q)
  <2>1. q.pinned = {} /\ q.bookedOn \subseteq {"open"} /\ ~q.panicked
    BY <1>4, <1>5, <1>11 DEF Live, SameFlags, Silent
  <2> QED
    BY <1>10, <1>12, <2>1 DEF Live
<1>14. Untried(q, q.at)
  <2>1. q.at \in 1..n /\ q.at > v.at
    BY <1>5, <1>7, <1>9, <1>11
  <2>2. Untried(v, q.at)
    BY <1>4, <2>1 DEF Live
  <2> QED
    BY <1>11, <2>2 DEF Untried, SameTables
<1>15. Masked(q) /\ Silent(q)
  BY <1>5, <1>11 DEF Masked, Silent, SameAnswer, SameFlags
<1>16. q.at > 0 /\ (q.at = 1 \/ q.api # "responses" => q.adm = "open")
  BY <1>5, <1>7, <1>11
<1> QED
  BY <1>8, <1>11, <1>13, <1>14, <1>15, <1>16 DEF AtTarget, Waiting, q

-----------------------------------------------------------------------------
(* The call. *)

LEMMA StatusFacts ==
  ASSUME NEW r, NEW err \in Errors \cup Codes \cup {"recovery"}
  PROVE  /\ RetriedStatus(r, err) \in Failures /\ ErrorAttempt(r, err) \in Failures
         /\ RetriedStatus(r, err) \in AttemptStatuses /\ ErrorAttempt(r, err) \in AttemptStatuses
         /\ ErrorStatus(err) \in Statuses /\ (err # "ok" => ErrorStatus(err) # "ok")
         /\ StreamStatus(err) \in Statuses /\ (err # "ok" => StreamStatus(err) # "ok")
<1>1. RetriedStatus(r, err) \in Failures /\ ErrorAttempt(r, err) \in Failures
  BY DEF RetriedStatus, ErrorAttempt, Failures
<1>2. Failures \subseteq AttemptStatuses
  BY DEF Failures, AttemptStatuses
<1>3. ErrorStatus(err) \in Statuses /\ (err # "ok" => ErrorStatus(err) # "ok")
  BY DEF ErrorStatus, Codes, Statuses
<1>4. StreamStatus(err) \in Statuses /\ (err # "ok" => StreamStatus(err) # "ok")
  BY <1>3 DEF StreamStatus, Statuses
<1> QED
  BY <1>1, <1>2, <1>3, <1>4

\* Closing the evidence of the attempt under way.
LEMMA Closes ==
  ASSUME NEW n \in Nat, NEW r, Calling(n, r), NEW status \in AttemptStatuses
  PROVE  LET e == EndOpenAttempt(r, status)
         IN /\ Live(n, e) /\ Kept(r, e) /\ SameMoney(r, e) /\ SameAnswer(r, e) /\ SameVerdict(r, e)
            /\ SameStream(r, e) /\ e.att[r.at] = status /\ e.at = r.at /\ e.adm = "open"
            /\ e.pinned = {} /\ e.hold[r.at] = "held" /\ e.booked[r.at] = 0
  BY EndOpenAttemptKeeps DEF Calling, SameMoney, SameVerdict, Kept

\* Responses closes every attempt with a record of its own.  What did not end
\* well is retained.
LEMMA ResponsesCloses ==
  ASSUME NEW n \in Nat, NEW r, Calling(n, r), NEW att \in Failures \cup {"stream_failed"}, NEW status \in Statuses,
         NEW usage \in BOOLEAN, NEW partial \in BOOLEAN, status # "ok" \/ partial
  PROVE  LET e == EndOpenAttempt(r, att)
             q == ResponsesFinish(e, status, usage, partial)
         IN /\ Live(n, q) /\ Kept(r, q) /\ SameAnswer(r, q) /\ SameVerdict(r, q) /\ SameStream(r, q)
            /\ q.at = r.at /\ q.booked[r.at] <= 1 /\ q.hold[r.at] = "retained" /\ q.att[r.at] = att
            /\ q.trail # << >> /\ q.trail[Len(q.trail)].event = "completed" /\ q.trail[Len(q.trail)].status = status
<1> DEFINE e == EndOpenAttempt(r, att)
           q == ResponsesFinish(e, status, usage, partial)
<1>1. att \in AttemptStatuses /\ att # "open"
  BY DEF Failures, AttemptStatuses
<1>2. /\ Live(n, e) /\ Kept(r, e) /\ SameAnswer(r, e) /\ SameVerdict(r, e)
      /\ SameStream(r, e) /\ e.att[r.at] = att /\ e.at = r.at /\ e.adm = "open"
      /\ e.hold[r.at] = "held" /\ e.booked[r.at] = 0
  BY <1>1, Closes
<1>3. e.at > 0
  BY <1>2 DEF Calling
<1> HIDE DEF e
<1>4. /\ Live(n, q) /\ Kept(e, q) /\ SameAnswer(e, q) /\ SameVerdict(e, q) /\ SameStream(e, q)
      /\ q.booked[e.at] <= e.booked[e.at] + 1
      /\ q.hold[e.at] = IF e.hold[e.at] = "held"
                        THEN IF usage /\ (status = "ok" /\ ~partial) THEN "exact" ELSE "retained"
                        ELSE e.hold[e.at]
      /\ q.trail # << >> /\ q.trail[Len(q.trail)].event = "completed" /\ q.trail[Len(q.trail)].status = status
      /\ (e.att[e.at] # "open" => q.att[e.at] = e.att[e.at])
  BY <1>2, <1>3, ResponsesFinishKeeps
<1> HIDE DEF q
<1>5. Kept(r, q) /\ SameAnswer(r, q) /\ SameVerdict(r, q) /\ SameStream(r, q)
  BY <1>2, <1>4 DEF Kept, SameAnswer, SameVerdict, SameStream
<1>6. q.at = r.at /\ q.booked[r.at] <= 1 /\ q.hold[r.at] = "retained" /\ q.att[r.at] = att
  BY <1>1, <1>2, <1>4 DEF Kept
<1> QED
  BY <1>4, <1>5, <1>6 DEF q, e

\* The loop moves on, with or without a record of this attempt.
LEMMA MovesOn ==
  ASSUME NEW n \in Nat, NEW r, Calling(n, r), Silent(r), r.verdicts[r.at] = << >>, ~LastTarget(r),
         NEW att \in Failures, NEW status \in Statuses \ {"ok"}, NEW usage \in BOOLEAN, NEW partial \in BOOLEAN
  PROVE  LET e == EndOpenAttempt(r, att)
         IN /\ AtTarget(n, NextTarget(ResponsesFinish(e, status, usage, partial))) \/ r.api # "responses"
            /\ AtTarget(n, NextTarget(e)) \/ r.api = "responses"
<1> DEFINE e == EndOpenAttempt(r, att)
           q == ResponsesFinish(e, status, usage, partial)
<1>1. r.at > 0 /\ r.at # n /\ Masked(r)
  <2>1. Len(r.chain) = n
    BY Fields DEF Calling, Requests
  <2> QED
    BY <2>1 DEF Calling, LastTarget
<1>2. CASE r.api # "responses"
  <2>1. /\ Live(n, e) /\ Kept(r, e) /\ SameAnswer(r, e) /\ SameVerdict(r, e) /\ e.att[r.at] = att /\ e.at = r.at
        /\ e.adm = "open" /\ e.pinned = {} /\ e.hold[r.at] = "held" /\ e.booked[r.at] = 0
    BY Closes DEF Failures, AttemptStatuses
  <2> HIDE DEF e
  <2>2. Masked(e) /\ Silent(e) /\ e.verdicts[e.at] = << >>
    BY <1>1, <2>1 DEF Masked, Silent, Kept, SameAnswer, SameVerdict
  <2>3. AtTarget(n, NextTarget(e))
    BY <1>1, <2>1, <2>2, NextTargetMoves
  <2> QED
    BY <1>2, <2>3 DEF e
<1>3. CASE r.api = "responses"
  <2>1. /\ Live(n, q) /\ Kept(r, q) /\ SameAnswer(r, q) /\ SameVerdict(r, q)
        /\ q.at = r.at /\ q.booked[r.at] <= 1 /\ q.hold[r.at] = "retained" /\ q.att[r.at] = att
    BY ResponsesCloses
  <2> HIDE DEF q, e
  <2>2. Masked(q) /\ Silent(q) /\ q.verdicts[q.at] = << >> /\ q.api = "responses"
    BY <1>1, <1>3, <2>1 DEF Masked, Silent, Kept, SameAnswer, SameVerdict
  <2>3. AtTarget(n, NextTarget(q))
    BY <1>1, <2>1, <2>2, NextTargetMoves
  <2> QED
    BY <1>3, <2>3 DEF q, e
<1> QED
  BY <1>2, <1>3

\* Responses gives up: the record, then the status line.
LEMMA ResponsesTells ==
  ASSUME NEW n \in Nat, NEW r, Calling(n, r), Silent(r), r.verdicts[r.at] = << >>,
         NEW att \in Failures, NEW status \in Statuses \ {"ok"}, NEW usage \in BOOLEAN, NEW partial \in BOOLEAN,
         NEW source \in 0..n
  PROVE  AtEnd(n, Return(WriteHeader(ResponsesFinish(EndOpenAttempt(r, att), status, usage, partial), status, source)))
<1> DEFINE q == ResponsesFinish(EndOpenAttempt(r, att), status, usage, partial)
<1>1. /\ Live(n, q) /\ Kept(r, q) /\ SameAnswer(r, q) /\ SameVerdict(r, q)
      /\ q.at = r.at /\ q.booked[r.at] <= 1 /\ q.hold[r.at] = "retained" /\ q.att[r.at] = att
      /\ q.trail # << >> /\ q.trail[Len(q.trail)].event = "completed" /\ q.trail[Len(q.trail)].status = status
  BY ResponsesCloses
<1> HIDE DEF q
<1>2. q.pinned = {} /\ q.lines = << >> /\ q.verdicts[q.at] = << >> /\ q.att[q.at] # "open"
  BY <1>1 DEF Silent, SameAnswer, SameVerdict, Failures
<1>3. Spent(q)
  BY <1>1, <1>2 DEF Spent
<1> QED
  BY <1>1, <1>2, <1>3, TellEnds DEF q

LEMMA FailedCallStep ==
  ASSUME NEW n \in Nat, NEW r, AtCall(n, r), NEW err \in Errors
  PROVE  AtTarget(n, FailedCall(r, err)) \/ AtEnd(n, FailedCall(r, err))
<1>1. Calling(n, r) /\ Silent(r) /\ r.verdicts[r.at] = << >> /\ r.at \in 0..n
  BY Fields DEF AtCall, Calling
<1>2. /\ RetriedStatus(r, err) \in Failures /\ ErrorAttempt(r, err) \in Failures
      /\ ErrorAttempt(r, err) \in AttemptStatuses
      /\ ErrorStatus(err) \in Statuses \ {"ok"}
  BY StatusFacts DEF Errors
<1>3. PICK no \in BOOLEAN : no = FALSE
  OBVIOUS
<1>4. CASE RetriesError(r, err)
  <2>1. ~LastTarget(r)
    BY <1>4 DEF RetriesError
  <2>2. /\ AtTarget(n, NextTarget(ResponsesFinish(EndOpenAttempt(r, RetriedStatus(r, err)), ErrorStatus(err), no, no)))
           \/ r.api # "responses"
        /\ AtTarget(n, NextTarget(EndOpenAttempt(r, RetriedStatus(r, err)))) \/ r.api = "responses"
    BY <1>1, <1>2, <2>1, MovesOn
  <2> QED
    BY <1>3, <1>4, <2>2 DEF FailedCall
<1>5. CASE ~RetriesError(r, err) /\ r.api = "responses"
  <2>1. AtEnd(n, Return(WriteHeader(ResponsesFinish(EndOpenAttempt(r, ErrorAttempt(r, err)), ErrorStatus(err), no, no),
                                    ErrorStatus(err), r.at)))
    BY <1>1, <1>2, ResponsesTells
  <2> QED
    BY <1>3, <1>5, <2>1 DEF FailedCall
<1>6. CASE ~RetriesError(r, err) /\ r.api # "responses"
  <2> DEFINE e == EndOpenAttempt(r, ErrorAttempt(r, err))
             w == WriteHeader(e, ErrorStatus(err), r.at)
  <2>1. /\ Live(n, e) /\ Kept(r, e) /\ SameMoney(r, e) /\ SameAnswer(r, e) /\ SameVerdict(r, e) /\ e.at = r.at
        /\ e.hold[r.at] = "held" /\ e.booked[r.at] = 0
    BY <1>1, <1>2, Closes
  <2> HIDE DEF e
  <2>2. /\ Live(n, w) /\ Kept(e, w) /\ SameMoney(e, w) /\ SameVerdict(e, w)
        /\ w.lines = Append(e.lines, ErrorStatus(err))
    BY <1>1, <1>2, <2>1, WriteHeaderKeeps
  <2> HIDE DEF w
  <2>3. w.lines = <<ErrorStatus(err)>>
    BY <1>1, <2>1, <2>2 DEF SameAnswer, Silent
  <2>4. Ending(n, w)
    <3>1. w.at = r.at /\ w.hold[w.at] = "held" /\ w.booked[w.at] = 0
      BY <2>1, <2>2 DEF SameMoney, Kept
    <3>2. w.pinned = {} /\ w.verdicts[w.at] = << >>
      BY <1>1, <2>1, <2>2, <3>1 DEF SameVerdict, Silent
    <3> QED
      BY <2>2, <2>3, <3>1, <3>2 DEF Ending
  <2>5. AtEnd(n, Return(Completed(w, ErrorStatus(err))))
    BY <1>2, <2>3, <2>4, CompletedEnds
  <2> QED
    BY <1>6, <2>5 DEF FailedCall, w, e
<1> QED
  BY <1>4, <1>5, <1>6

Answers == [code : Codes, usage : BOOLEAN, fits : BOOLEAN, taken : BOOLEAN]

\* The breaker's verdict and the session's pin, for a good answer.
LEMMA PraisedKeeps ==
  ASSUME NEW n \in Nat, NEW r, Live(n, r), r.at > 0, NEW ans \in Answers, r.verdicts[r.at] = << >>, r.pinned = {}
  PROVE  /\ LET q == Praised(r, ans)
            IN /\ Live(n, q) /\ Kept(r, q) /\ SameMoney(r, q) /\ SameAnswer(r, q) /\ SameEvidence(r, q)
               /\ SameStream(r, q) /\ Len(q.verdicts[r.at]) <= 1 /\ q.pinned = {}
         /\ LET q == Pinned(Praised(r, ans), ans)
            IN /\ Live(n, q) /\ Kept(r, q) /\ SameMoney(r, q) /\ SameAnswer(r, q) /\ SameEvidence(r, q)
               /\ SameStream(r, q) /\ Len(q.verdicts[r.at]) <= 1 /\ (ans.code # "ok" => q.pinned = {})
<1> DEFINE p == Praised(r, ans)
           q == Pinned(p, ans)
<1>1. /\ Live(n, p) /\ Kept(r, p) /\ SameMoney(r, p) /\ SameAnswer(r, p) /\ SameEvidence(r, p)
      /\ SameStream(r, p) /\ Len(p.verdicts[r.at]) <= 1 /\ p.pinned = {}
  <2>1. CASE ans.code = "ok"
    <3> DEFINE v == RecordResult(r, "ok")
    <3>1. /\ Live(n, v) /\ Kept(r, v) /\ SameMoney(r, v) /\ SameAnswer(r, v) /\ SameEvidence(r, v)
          /\ SameStream(r, v) /\ v.pinned = r.pinned /\ v.verdicts[r.at] = Append(r.verdicts[r.at], "ok")
      BY RecordResultKeeps DEF Verdicts
    <3>2. p = v
      BY <2>1 DEF Praised
    <3> HIDE DEF v, p
    <3>3. v.verdicts[r.at] = <<"ok">> /\ Len(<<"ok">>) <= 1
      BY <3>1
    <3> QED
      BY <3>1, <3>2, <3>3
  <2>2. CASE ans.code # "ok"
    <3>1. p = r
      BY <2>2 DEF Praised
    <3>2. Len(r.verdicts[r.at]) <= 1
      OBVIOUS
    <3> HIDE DEF p
    <3> QED
      BY <3>1, <3>2 DEF Kept, SameMoney, SameAnswer, SameEvidence, SameStream
  <2> QED
    BY <2>1, <2>2
<1>2. p.at = r.at
  BY <1>1 DEF Kept
<1>3. /\ Live(n, q) /\ Kept(p, q) /\ SameMoney(p, q) /\ SameAnswer(p, q) /\ SameEvidence(p, q)
      /\ SameStream(p, q) /\ q.verdicts[r.at] = p.verdicts[r.at] /\ (ans.code # "ok" => q.pinned = {})
  <2> HIDE DEF p
  <2>1. CASE ans.code = "ok" /\ ans.usage
    <3>1. q = RecordSuccess(p)
      BY <2>1 DEF Pinned
    <3> HIDE DEF q
    <3> QED
      BY <1>1, <1>2, <2>1, <3>1, RecordSuccessKeeps
  <2>2. CASE ~(ans.code = "ok" /\ ans.usage)
    <3>1. q = p
      BY <2>2 DEF Pinned
    <3> HIDE DEF q
    <3> QED
      BY <1>1, <3>1 DEF Kept, SameMoney, SameAnswer, SameEvidence, SameStream
  <2> QED
    BY <2>1, <2>2
<1> HIDE DEF p, q
<1>4. Kept(r, q) /\ SameMoney(r, q) /\ SameAnswer(r, q) /\ SameEvidence(r, q) /\ SameStream(r, q)
  BY <1>1, <1>2, <1>3 DEF Kept, SameMoney, SameAnswer, SameEvidence, SameStream
<1> QED
  BY <1>1, <1>3, <1>4 DEF p, q

\* The state from which an answer of Messages, Chat, Invoke and Converse is written.
LEMMA AnswerEnds ==
  ASSUME NEW n \in Nat, NEW r, Live(n, r), r.at > 0, ~r.stream, NEW code \in Codes,
         r.lines = <<code>>, r.from = {r.at}, r.booked[r.at] <= 1, Len(r.verdicts[r.at]) <= 1,
         r.att[r.at] = AnswerAttempt(code), r.hold[r.at] = "exact" => code = "ok", code # "ok" => r.pinned = {}
  PROVE  AtEnd(n, Return(Completed(r, code)))
<1>1. code \in Statuses
  BY DEF Codes, Statuses
<1>2. r.hold[r.at] = "exact" \/ r.at \in r.pinned => Whole(r, r.at)
  BY DEF Whole, AnswerAttempt
<1>3. Len(r.lines) <= 1
  OBVIOUS
<1>4. Ending(n, r)
  BY <1>2, <1>3 DEF Ending
<1> QED
  BY <1>1, <1>4, CompletedEnds

\* Messages and Chat: verdict, pin, answer, money.
LEMMA MessagesCompletes ==
  ASSUME NEW n \in Nat, NEW r, Live(n, r), r.at > 0, ~r.stream, NEW ans \in Answers, r.adm = "open",
         Silent(r), r.verdicts[r.at] = << >>, r.booked[r.at] = 0, r.hold[r.at] = "held",
         r.att[r.at] = AnswerAttempt(ans.code)
  PROVE  AtEnd(n, Return(MessagesComplete(r, ans)))
<1>0. PICK good \in BOOLEAN : good = (ans.code = "ok")
  OBVIOUS
<1> DEFINE p == Pinned(Praised(r, ans), ans)
           w == WriteHeader(p, ans.code, r.at)
           q == SettleBudget(w, ans.usage, good)
<1>1. /\ ans.code \in Codes /\ ans.code \in Statuses /\ ans.usage \in BOOLEAN /\ r.at \in 0..n
  BY Fields DEF Answers, Codes, Statuses
<1>2. /\ Live(n, p) /\ Kept(r, p) /\ SameMoney(r, p) /\ SameAnswer(r, p) /\ SameEvidence(r, p)
      /\ SameStream(r, p) /\ Len(p.verdicts[r.at]) <= 1 /\ (ans.code # "ok" => p.pinned = {})
  BY PraisedKeeps DEF Silent
<1> HIDE DEF p
<1>3. /\ Live(n, w) /\ Kept(p, w) /\ SameMoney(p, w) /\ SameEvidence(p, w) /\ SameVerdict(p, w)
      /\ w.lines = Append(p.lines, ans.code) /\ w.from = p.from \cup {r.at}
  BY <1>1, <1>2, WriteHeaderKeeps, SMTT(30)
<1> HIDE DEF w
<1>4. /\ p.at = r.at /\ w.at = r.at /\ w.adm = "open" /\ w.hold[w.at] = "held" /\ w.booked[w.at] = 0
      /\ w.att[w.at] = AnswerAttempt(ans.code) /\ w.stream = r.stream
  BY <1>2, <1>3 DEF Kept, SameMoney, SameEvidence
<1>5. w.lines = <<ans.code>> /\ w.from = {r.at}
  BY <1>2, <1>3 DEF SameAnswer, Silent
<1>6. /\ Live(n, q) /\ Kept(w, q) /\ SameAnswer(w, q) /\ SameVerdict(w, q) /\ SameEvidence(w, q)
      /\ q.booked[w.at] <= w.booked[w.at] + 1
      /\ q.hold[w.at] = IF w.hold[w.at] = "held" THEN IF ans.usage /\ good THEN "exact" ELSE "retained"
                        ELSE w.hold[w.at]
  BY <1>1, <1>3, <1>4, SettleBudgetKeeps
<1> HIDE DEF q
<1>7. /\ q.at = r.at /\ ~q.stream /\ q.lines = <<ans.code>> /\ q.from = {q.at} /\ q.booked[q.at] <= 1
      /\ q.att[q.at] = AnswerAttempt(ans.code) /\ (q.hold[q.at] = "exact" => ans.code = "ok")
  <2>1. q.at = r.at /\ ~q.stream /\ q.lines = <<ans.code>> /\ q.from = {q.at}
    BY <1>4, <1>5, <1>6 DEF Kept, SameAnswer
  <2>2. q.booked[q.at] <= 1 /\ q.att[q.at] = AnswerAttempt(ans.code)
    BY <1>4, <1>6, <2>1 DEF SameEvidence
  <2>3. q.hold[q.at] = "exact" => ans.code = "ok"
    BY <1>0, <1>4, <1>6, <2>1
  <2> QED
    BY <2>1, <2>2, <2>3
<1>8. Len(q.verdicts[q.at]) <= 1 /\ (ans.code # "ok" => q.pinned = {})
  BY <1>2, <1>3, <1>4, <1>6, <1>7 DEF SameVerdict
<1>9. AtEnd(n, Return(Completed(q, ans.code)))
  BY <1>1, <1>4, <1>6, <1>7, <1>8, AnswerEnds
<1> QED
  BY <1>0, <1>9 DEF MessagesComplete, p, w, q

\* Invoke and Converse settle first.
LEMMA InvokeCompletes ==
  ASSUME NEW n \in Nat, NEW r, Live(n, r), r.at > 0, ~r.stream, NEW ans \in Answers, r.adm = "open",
         Silent(r), r.verdicts[r.at] = << >>, r.booked[r.at] = 0, r.hold[r.at] = "held",
         r.att[r.at] = AnswerAttempt(ans.code)
  PROVE  AtEnd(n, Return(InvokeComplete(r, ans)))
<1>1. /\ ans.code \in Codes /\ ans.code \in Statuses /\ ans.usage \in BOOLEAN /\ r.at \in 0..n
  BY Fields DEF Answers, Codes, Statuses
<1>2. CASE ans.code # "ok"
  <2> DEFINE w == WriteHeader(r, ans.code, r.at)
  <2>1. /\ Live(n, w) /\ Kept(r, w) /\ SameMoney(r, w) /\ SameEvidence(r, w) /\ SameVerdict(r, w)
        /\ w.lines = Append(r.lines, ans.code) /\ w.from = r.from \cup {r.at}
    BY <1>1, WriteHeaderKeeps, SMTT(30)
  <2> HIDE DEF w
  <2>2. w.lines = <<ans.code>> /\ w.from = {r.at} /\ w.pinned = {}
    BY <2>1 DEF Silent, SameVerdict
  <2>3. /\ w.at = r.at /\ ~w.stream /\ w.booked[w.at] <= 1 /\ w.verdicts[w.at] = << >> /\ w.hold[w.at] # "exact"
        /\ w.att[w.at] = AnswerAttempt(ans.code)
    BY <2>1 DEF Kept, SameMoney, SameEvidence, SameVerdict
  <2>4. AtEnd(n, Return(Completed(w, ans.code)))
    BY <1>1, <2>1, <2>2, <2>3, AnswerEnds
  <2> QED
    BY <1>2, <2>4 DEF InvokeComplete, w
<1>3. CASE ans.code = "ok"
  <2>1. PICK yes \in BOOLEAN : yes = TRUE
    OBVIOUS
  <2> DEFINE s == SettleBudget(r, ans.usage, yes)
             w == WriteHeader(s, "ok", r.at)
             q == Pinned(Praised(w, ans), ans)
  <2>2. /\ Live(n, s) /\ Kept(r, s) /\ SameAnswer(r, s) /\ SameVerdict(r, s) /\ SameEvidence(r, s)
        /\ s.booked[r.at] <= r.booked[r.at] + 1
    BY <1>1, SettleBudgetKeeps
  <2> HIDE DEF s
  <2>3. /\ Live(n, w) /\ Kept(s, w) /\ SameMoney(s, w) /\ SameEvidence(s, w) /\ SameVerdict(s, w)
        /\ w.lines = Append(s.lines, "ok") /\ w.from = s.from \cup {r.at}
    BY <1>1, <1>3, <2>2, WriteHeaderKeeps, SMTT(30)
  <2> HIDE DEF w
  <2>4. w.at = r.at /\ w.lines = <<"ok">> /\ w.from = {r.at} /\ w.pinned = {} /\ w.verdicts[w.at] = << >>
    BY <2>2, <2>3 DEF Kept, SameAnswer, SameVerdict, Silent
  <2>5. w.booked[w.at] <= 1 /\ w.att[w.at] = AnswerAttempt("ok") /\ ~w.stream
    BY <1>3, <2>2, <2>3, <2>4 DEF Kept, SameMoney, SameEvidence
  <2>6. /\ Live(n, q) /\ Kept(w, q) /\ SameMoney(w, q) /\ SameAnswer(w, q) /\ SameEvidence(w, q)
        /\ Len(q.verdicts[w.at]) <= 1
    BY <2>3, <2>4, PraisedKeeps
  <2> HIDE DEF q
  <2>7. /\ q.at = w.at /\ ~q.stream /\ q.lines = <<"ok">> /\ q.from = {q.at} /\ q.booked[q.at] <= 1
        /\ Len(q.verdicts[q.at]) <= 1 /\ q.att[q.at] = AnswerAttempt("ok")
    BY <2>4, <2>5, <2>6 DEF Kept, SameAnswer, SameMoney, SameEvidence
  <2>8. AtEnd(n, Return(Completed(q, "ok")))
    BY <1>1, <1>3, <2>4, <2>6, <2>7, AnswerEnds
  <2> QED
    BY <1>3, <2>1, <2>8 DEF InvokeComplete, s, w, q
<1> QED
  BY <1>2, <1>3

\* Responses has relayed an answer, whole or broken off.
LEMMA ResponsesEnds ==
  ASSUME NEW n \in Nat, NEW r, Live(n, r), r.at > 0, r.adm = "open", r.lines = <<"ok">>, r.from = {r.at},
         r.booked[r.at] = 0, Len(r.verdicts[r.at]) <= 1, r.att[r.at] # "open", r.hold[r.at] = "held",
         NEW usage \in BOOLEAN, NEW partial \in BOOLEAN,
         (usage /\ ~partial) \/ r.at \in r.pinned =>
           r.att[r.at] = "ok" /\ (r.stream => StreamComplete(r.s) /\ r.s.usage)
  PROVE  AtEnd(n, Return(ResponsesFinish(r, "ok", usage, partial)))
<1> DEFINE q == ResponsesFinish(r, "ok", usage, partial)
<1>1. "ok" \in Statuses
  BY DEF Statuses
<1>2. /\ Live(n, q) /\ Kept(r, q) /\ SameAnswer(r, q) /\ SameVerdict(r, q) /\ SameStream(r, q)
      /\ q.booked[r.at] <= r.booked[r.at] + 1
      /\ q.hold[r.at] = IF r.hold[r.at] = "held"
                        THEN IF usage /\ ("ok" = "ok" /\ ~partial) THEN "exact" ELSE "retained"
                        ELSE r.hold[r.at]
      /\ q.trail # << >> /\ q.trail[Len(q.trail)].event = "completed" /\ q.trail[Len(q.trail)].status = "ok"
      /\ q.att[r.at] # "open" /\ (r.att[r.at] # "open" => q.att[r.at] = r.att[r.at])
  BY <1>1, ResponsesFinishKeeps
<1> HIDE DEF q
<1>3. q.at = r.at /\ q.lines = <<"ok">> /\ q.from = {r.at} /\ q.stream = r.stream /\ q.s = r.s
  BY <1>2 DEF Kept, SameAnswer, SameStream
<1>4. Told(q)
  BY <1>2, <1>3 DEF Told
<1>5. q.hold[q.at] = "exact" \/ q.at \in q.pinned => (usage /\ ~partial) \/ r.at \in r.pinned
  BY <1>2, <1>3 DEF SameVerdict
<1>6. q.hold[q.at] = "exact" \/ q.at \in q.pinned => Whole(q, q.at)
  BY <1>2, <1>3, <1>5 DEF Whole
<1>7. q.booked[q.at] <= 1 /\ Len(q.verdicts[q.at]) <= 1 /\ Len(q.lines) <= 1
  BY <1>2, <1>3 DEF SameVerdict
<1>8. Ending(n, q)
  BY <1>2, <1>6, <1>7 DEF Ending
<1>9. q.att[q.at] # "open"
  BY <1>2, <1>3
<1> QED
  BY <1>4, <1>8, <1>9, ReturnEnds DEF q

LEMMA ResponsesAnswers ==
  ASSUME NEW n \in Nat, NEW r, AtCall(n, r), ~r.stream, r.api = "responses", NEW ans \in Answers, ans.code = "ok",
         ans.usage, ans.fits
  PROVE  AtEnd(n, Return(ResponsesComplete(EndOpenAttempt(r, "ok"), ans)))
<1>1. PICK yes \in BOOLEAN, cut \in BOOLEAN : yes = TRUE /\ cut = ~ans.taken
  BY DEF Answers
<1> DEFINE e == EndOpenAttempt(r, "ok")
           w == WriteHeader(e, "ok", e.at)
           p == Praised(w, ans)
           z == IF ans.taken THEN Pinned(p, ans) ELSE p
<1>2. Calling(n, r) /\ Silent(r) /\ r.verdicts[r.at] = << >> /\ r.at \in 0..n /\ r.at > 0
  BY Fields DEF AtCall, Calling
<1>3. /\ Live(n, e) /\ Kept(r, e) /\ SameAnswer(r, e) /\ SameVerdict(r, e) /\ e.att[r.at] = "ok" /\ e.at = r.at
      /\ e.adm = "open" /\ e.pinned = {} /\ e.hold[r.at] = "held" /\ e.booked[r.at] = 0
  BY <1>2, Closes DEF AttemptStatuses
<1> HIDE DEF e
<1>4. /\ Live(n, w) /\ Kept(e, w) /\ SameMoney(e, w) /\ SameEvidence(e, w) /\ SameVerdict(e, w)
      /\ w.lines = Append(e.lines, "ok") /\ w.from = e.from \cup {e.at}
  <2>1. "ok" \in Statuses /\ e.at \in 0..n
    BY <1>2, <1>3 DEF Statuses
  <2> QED
    BY <1>3, <2>1, WriteHeaderKeeps
<1> HIDE DEF w
<1>5. /\ w.at = r.at /\ w.adm = "open" /\ w.hold[r.at] = "held" /\ w.booked[r.at] = 0 /\ w.att[r.at] = "ok"
      /\ w.pinned = {} /\ w.verdicts[w.at] = << >> /\ ~w.stream
  BY <1>2, <1>3, <1>4 DEF Kept, SameMoney, SameEvidence, SameVerdict
<1>6. w.lines = <<"ok">> /\ w.from = {r.at}
  BY <1>2, <1>3, <1>4 DEF SameAnswer, Silent
<1>7. /\ Live(n, z) /\ Kept(w, z) /\ SameMoney(w, z) /\ SameAnswer(w, z) /\ SameEvidence(w, z)
      /\ Len(z.verdicts[w.at]) <= 1
  <2>1. w.at > 0
    BY <1>2, <1>5
  <2>2. CASE ans.taken
    BY <1>4, <1>5, <2>1, <2>2, PraisedKeeps
  <2>3. CASE ~ans.taken
    BY <1>4, <1>5, <2>1, <2>3, PraisedKeeps
  <2> QED
    BY <2>2, <2>3
<1> HIDE DEF z
<1>8. /\ z.at = r.at /\ z.adm = "open" /\ z.lines = <<"ok">> /\ z.from = {z.at} /\ ~z.stream
      /\ z.booked[z.at] = 0 /\ Len(z.verdicts[z.at]) <= 1 /\ z.att[z.at] = "ok" /\ z.hold[z.at] = "held"
  BY <1>5, <1>6, <1>7 DEF Kept, SameMoney, SameAnswer, SameEvidence
<1>9. AtEnd(n, Return(ResponsesFinish(z, "ok", yes, cut)))
  BY <1>2, <1>7, <1>8, ResponsesEnds
<1>10. ResponsesComplete(e, ans) = ResponsesFinish(z, "ok", yes, cut)
  <2>1. ResponsesComplete(e, ans) = ResponsesFinish(z, "ok", TRUE, ~ans.taken)
    BY DEF ResponsesComplete, z, p, w
  <2> QED
    BY <1>1, <2>1
<1> QED
  BY <1>9, <1>10 DEF e

LEMMA AnsweredStep ==
  ASSUME NEW n \in Nat, NEW r, AtCall(n, r), ~r.stream, NEW ans \in Answers
  PROVE  AtTarget(n, AnsweredCall(r, ans)) \/ AtEnd(n, AnsweredCall(r, ans))
<1>1. Calling(n, r) /\ Silent(r) /\ r.verdicts[r.at] = << >> /\ r.at \in 0..n /\ r.at > 0 /\ r.api \in Apis
  BY Fields DEF AtCall, Calling, Requests
<1>2. PICK no \in BOOLEAN : no = FALSE
  OBVIOUS
<1>3. ans.code \in Codes /\ ans.code \in Statuses /\ ans.usage \in BOOLEAN
  BY DEF Answers, Codes, Statuses
<1>4. CASE RetriesAnswer(r, ans.code)
  <2>1. ~LastTarget(r) /\ ans.code # "ok"
    BY <1>4 DEF RetriesAnswer, Retriable, IsModelNotFound
  <2>2. RetriedStatus(r, ans.code) \in Failures
    BY <1>3, StatusFacts
  <2>3. /\ AtTarget(n, NextTarget(ResponsesFinish(EndOpenAttempt(r, RetriedStatus(r, ans.code)), ans.code, ans.usage, no)))
           \/ r.api # "responses"
        /\ AtTarget(n, NextTarget(EndOpenAttempt(r, RetriedStatus(r, ans.code)))) \/ r.api = "responses"
    BY <1>1, <1>3, <2>1, <2>2, MovesOn
  <2> QED
    BY <1>2, <1>4, <2>3 DEF AnsweredCall
<1>5. CASE ~RetriesAnswer(r, ans.code) /\ r.api = "responses"
  <2>1. CASE ans.code # "ok"
    <3>1. AtEnd(n, Return(WriteHeader(ResponsesFinish(EndOpenAttempt(r, "upstream_error"), ans.code, ans.usage, no),
                                      ans.code, r.at)))
      BY <1>1, <1>3, <2>1, ResponsesTells DEF Failures
    <3> DEFINE e == EndOpenAttempt(r, "upstream_error")
    <3>2. e.at = r.at /\ e.api = r.api
      BY <1>1, Closes DEF AttemptStatuses, Kept
    <3>3. AnsweredCall(r, ans) = Return(AnswerOf(e, ans))
      BY <1>5, <2>1 DEF AnsweredCall, AnswerAttempt
    <3> HIDE DEF e
    <3>4. AnswerOf(e, ans) = ResponsesComplete(e, ans)
      BY <1>5, <3>2 DEF AnswerOf
    <3>5. ResponsesComplete(e, ans) = WriteHeader(ResponsesFinish(e, ans.code, ans.usage, no), ans.code, r.at)
      BY <1>2, <2>1, <3>2 DEF ResponsesComplete
    <3> QED
      BY <3>1, <3>3, <3>4, <3>5 DEF e
  <2>2. CASE ans.code = "ok" /\ ~(ans.usage /\ ans.fits)
    <3>1. AtEnd(n, Return(WriteHeader(ResponsesFinish(EndOpenAttempt(r, "upstream_error"), "gateway", ans.usage, no),
                                      "gateway", r.at)))
      BY <1>1, <1>3, ResponsesTells DEF Failures, Statuses
    <3> QED
      BY <1>2, <1>5, <2>2, <3>1 DEF AnsweredCall, AnswerOf, ResponsesComplete
  <2>3. CASE ans.code = "ok" /\ ans.usage /\ ans.fits
    <3>1. AtEnd(n, Return(ResponsesComplete(EndOpenAttempt(r, "ok"), ans)))
      BY <1>5, <2>3, ResponsesAnswers
    <3>2. EndOpenAttempt(r, "ok").api = r.api
      BY <1>1, Closes DEF AttemptStatuses, Kept
    <3> QED
      BY <1>5, <2>3, <3>1, <3>2 DEF AnsweredCall, AnswerAttempt, AnswerOf
  <2> QED
    BY <2>1, <2>2, <2>3
<1>6. CASE ~RetriesAnswer(r, ans.code) /\ r.api # "responses"
  <2> DEFINE e == EndOpenAttempt(r, AnswerAttempt(ans.code))
  <2>1. AnswerAttempt(ans.code) \in AttemptStatuses
    BY DEF AnswerAttempt, AttemptStatuses
  <2>2. /\ Live(n, e) /\ Kept(r, e) /\ SameAnswer(r, e) /\ SameVerdict(r, e)
        /\ e.att[r.at] = AnswerAttempt(ans.code) /\ e.at = r.at
        /\ e.adm = "open" /\ e.pinned = {} /\ e.hold[r.at] = "held" /\ e.booked[r.at] = 0
    BY <1>1, <2>1, Closes
  <2> HIDE DEF e
  <2>3. Silent(e) /\ e.verdicts[e.at] = << >> /\ ~e.stream /\ e.api = r.api
    BY <1>1, <2>2 DEF Kept, SameAnswer, SameVerdict, Silent
  <2>4. AtEnd(n, Return(MessagesComplete(e, ans))) /\ AtEnd(n, Return(InvokeComplete(e, ans)))
    BY <1>1, <2>2, <2>3, MessagesCompletes, InvokeCompletes
  <2>5. ChatComplete(e, ans) = MessagesComplete(e, ans)
    BY DEF ChatComplete, MessagesComplete
  <2>6. AnsweredCall(r, ans) = Return(AnswerOf(e, ans))
    BY <1>6 DEF AnsweredCall, e
  <2>7. AnswerOf(e, ans) = MessagesComplete(e, ans) \/ AnswerOf(e, ans) = InvokeComplete(e, ans)
    BY <1>1, <1>6, <2>3, <2>5 DEF AnswerOf, Apis
  <2> QED
    BY <2>4, <2>6, <2>7
<1> QED
  BY <1>4, <1>5, <1>6

-----------------------------------------------------------------------------
(* The stream. *)

\* A stream that is being read goes on with another state of the handler.
LEMMA StreamStateKeeps ==
  ASSUME NEW n \in Nat, NEW r, AtStream(n, r), NEW t \in Streams, t.committed = r.s.committed
  PROVE  AtStream(n, [r EXCEPT !.s = t]) /\ [r EXCEPT !.s = t].api = r.api /\ [r EXCEPT !.s = t].s = t
         /\ [r EXCEPT !.s = t].at = r.at
<1> DEFINE q == [r EXCEPT !.s = t]
<1>1. r \in Requests(n) /\ Calling(n, r) /\ Live(n, r)
  BY Fields DEF AtStream, Calling
<1>2. q \in Requests(n)
  BY <1>1 DEF Requests
<1>3. /\ Kept(r, q) /\ SameTables(r, q) /\ SameFlags(r, q) /\ SameAnswer(r, q) /\ q.adm = r.adm /\ q.phase = r.phase
      /\ q.s = t
  BY <1>1 DEF Requests, Kept, SameTables, SameFlags, SameAnswer
<1> HIDE DEF q
<1>4. Live(n, q)
  BY <1>1, <1>2, <1>3, StillLive DEF Live, Kept, SameTables, SameFlags
<1>5. Calling(n, q)
  BY <1>1, <1>3, <1>4 DEF Calling, Masked, Kept, SameTables, SameFlags
<1>6. AtStream(n, q)
  BY <1>3, <1>5 DEF AtStream, Kept, SameTables, SameAnswer
<1> QED
  BY <1>3, <1>6 DEF q, Kept

LEMMA ObservedIsAStream ==
  ASSUME NEW t \in Streams, NEW ev
  PROVE  Observed(t, ev) \in Streams /\ Observed(t, ev).committed = t.committed
<1> DEFINE u == t.usage \/ ev = "usage"
           c == t.completed \/ ev = "stop"
           f == t.failed \/ ev = "error"
           k == t.events + 1
<1>1. Observed(t, ev) = [[[[t EXCEPT !.usage = u] EXCEPT !.completed = c] EXCEPT !.failed = f] EXCEPT !.events = k]
  BY DEF Observed, Streams
<1>2. u \in BOOLEAN /\ c \in BOOLEAN /\ f \in BOOLEAN /\ k \in Nat
  BY DEF Streams
<1> HIDE DEF u, c, f, k
<1> QED
  BY <1>1, <1>2 DEF Streams

\* The status line goes out with the stream.
LEMMA CommitKeeps ==
  ASSUME NEW n \in Nat, NEW r, Live(n, r), r.at > 0
  PROVE  LET q == Commit(r)
         IN /\ Live(n, q) /\ Kept(r, q) /\ SameMoney(r, q) /\ SameEvidence(r, q) /\ SameVerdict(r, q)
            /\ q.lines = Append(r.lines, "ok") /\ q.from = r.from \cup {r.at}
            /\ q.phase = "streaming" /\ q.s.committed
<1>1. PICK yes \in BOOLEAN : yes = TRUE
  OBVIOUS
<1> DEFINE w == WriteHeader(r, "ok", r.at)
           t == [w.s EXCEPT !.committed = yes]
           q == [[w EXCEPT !.phase = "streaming"] EXCEPT !.s = t]
<1>2. "ok" \in Statuses /\ r.at \in 0..n /\ "streaming" \in Phases
  BY Fields DEF Statuses, Phases
<1>3. /\ Live(n, w) /\ Kept(r, w) /\ SameMoney(r, w) /\ SameEvidence(r, w) /\ SameVerdict(r, w)
      /\ w.lines = Append(r.lines, "ok") /\ w.from = r.from \cup {r.at}
  BY <1>2, WriteHeaderKeeps, SMTT(30)
<1>4. w \in Requests(n) /\ w.s \in Streams
  BY <1>3, Fields
<1>5. Commit(r) = q
  <2>1. Commit(r) = [w EXCEPT !.phase = "streaming", !.s.committed = TRUE]
    BY DEF Commit
  <2> HIDE DEF w
  <2> QED
    BY <1>1, <1>4, <2>1 DEF Requests
<1> HIDE DEF w
<1>6. t \in Streams /\ t.committed
  BY <1>1, <1>4 DEF Streams
<1> HIDE DEF t
<1>7. q \in Requests(n)
  BY <1>2, <1>4, <1>6 DEF Requests
<1>8. /\ Kept(w, q) /\ SameTables(w, q) /\ SameFlags(w, q) /\ SameAnswer(w, q) /\ q.adm = w.adm /\ q.trail = w.trail
      /\ q.phase = "streaming" /\ q.s = t
  BY <1>4 DEF Requests, Kept, SameTables, SameFlags, SameAnswer
<1> HIDE DEF q
<1>9. Live(n, q)
  BY <1>3, <1>7, <1>8, StillLive, SMTT(30) DEF Live, Kept, SameTables, SameFlags
<1>10. /\ Kept(r, q) /\ SameMoney(r, q) /\ SameEvidence(r, q) /\ SameVerdict(r, q)
       /\ q.lines = Append(r.lines, "ok") /\ q.from = r.from \cup {r.at}
  BY <1>3, <1>8 DEF Kept, SameMoney, SameEvidence, SameVerdict, SameTables, SameFlags, SameAnswer
<1> QED
  BY <1>5, <1>6, <1>8, <1>9, <1>10

LEMMA OpenStreamStep ==
  ASSUME NEW n \in Nat, NEW r, AtCall(n, r)
  PROVE  AtStream(n, OpenStream(r))
<1>1. Calling(n, r) /\ Live(n, r) /\ Silent(r) /\ r.verdicts[r.at] = << >> /\ r.at > 0 /\ r.api \in Apis
  BY Fields DEF AtCall, Calling, Requests
<1>2. CASE r.api # "responses"
  <2> DEFINE v == RecordResult(r, "ok")
             q == Commit(v)
  <2>1. OpenStream(r) = q
    BY <1>1, <1>2 DEF OpenStream, MessagesOpens, ChatOpens, InvokeOpens, Apis
  <2>2. /\ Live(n, v) /\ Kept(r, v) /\ SameMoney(r, v) /\ SameAnswer(r, v) /\ SameEvidence(r, v)
        /\ v.pinned = r.pinned /\ v.verdicts[r.at] = Append(r.verdicts[r.at], "ok")
    BY <1>1, RecordResultKeeps DEF Verdicts
  <2>3. v.at = r.at
    BY <2>2 DEF Kept
  <2> HIDE DEF v
  <2>4. /\ Live(n, q) /\ Kept(v, q) /\ SameMoney(v, q) /\ SameEvidence(v, q) /\ SameVerdict(v, q)
        /\ q.lines = Append(v.lines, "ok") /\ q.from = v.from \cup {v.at} /\ q.phase = "streaming" /\ q.s.committed
    BY <1>1, <2>2, <2>3, CommitKeeps
  <2> HIDE DEF q
  <2>5. q.at = r.at /\ q.api = r.api /\ Masked(q) /\ q.pinned = {}
    BY <1>1, <2>2, <2>4 DEF Kept, Masked, Calling, Silent, SameVerdict
  <2>6. q.adm = "open" /\ q.hold[q.at] = "held" /\ q.att[q.at] = "open" /\ q.booked[q.at] = 0
    BY <1>1, <2>2, <2>3, <2>4, <2>5 DEF Calling, SameMoney, SameEvidence
  <2>7. q.verdicts[q.at] = <<"ok">>
    BY <1>1, <2>2, <2>3, <2>4, <2>5 DEF SameVerdict
  <2>8. q.lines = <<"ok">> /\ q.from = {q.at}
    BY <1>1, <2>2, <2>3, <2>4, <2>5 DEF SameAnswer, Silent
  <2>9. Calling(n, q)
    BY <1>1, <2>4, <2>5, <2>6 DEF Calling
  <2> QED
    BY <1>2, <2>1, <2>4, <2>5, <2>7, <2>8, <2>9 DEF AtStream
<1>3. CASE r.api = "responses"
  <2> DEFINE q == [r EXCEPT !.phase = "streaming"]
  <2>1. OpenStream(r) = q
    BY <1>3 DEF OpenStream, ResponsesOpens
  <2>2. r \in Requests(n) /\ "streaming" \in Phases
    BY <1>1, Fields DEF Phases
  <2>3. q \in Requests(n)
    BY <2>2 DEF Requests
  <2>4. /\ Kept(r, q) /\ SameTables(r, q) /\ SameFlags(r, q) /\ SameAnswer(r, q) /\ q.adm = r.adm
        /\ q.phase = "streaming" /\ q.s = r.s
    BY <2>2 DEF Requests, Kept, SameTables, SameFlags, SameAnswer
  <2> HIDE DEF q
  <2>5. Live(n, q)
    BY <1>1, <2>3, <2>4, StillLive DEF Live, Kept, SameTables, SameFlags
  <2>6. Calling(n, q)
    BY <1>1, <2>4, <2>5 DEF Calling, Masked, Kept, SameTables, SameFlags
  <2>7. ~q.s.committed
    BY <2>4 DEF AtCall, NoStream
  <2> QED
    BY <1>1, <1>3, <2>1, <2>4, <2>6, <2>7 DEF AtStream, Kept, SameTables, SameAnswer, Silent
<1> QED
  BY <1>2, <1>3

\* The connection cannot stream.
LEMMA NoFlusherStep ==
  ASSUME NEW n \in Nat, NEW r, AtCall(n, r)
  PROVE  AtEnd(n, NoFlusher(r))
<1>1. /\ Calling(n, r) /\ Live(n, r) /\ Silent(r) /\ r.verdicts[r.at] = << >> /\ r.at > 0 /\ r.pinned = {}
      /\ 0 \in 0..n /\ "broken" \in Statuses
  BY DEF AtCall, Calling, Silent, Statuses
<1>2. PICK no \in BOOLEAN : no = FALSE
  OBVIOUS
<1>3. CASE r.api # "responses"
  <2> DEFINE e == EndOpenAttempt(r, "upstream_error")
             w == WriteHeader(e, "broken", 0)
  <2>1. /\ Live(n, e) /\ Kept(r, e) /\ SameAnswer(r, e) /\ SameVerdict(r, e) /\ e.at = r.at
        /\ e.hold[r.at] = "held" /\ e.booked[r.at] = 0
    BY <1>1, Closes DEF AttemptStatuses
  <2> HIDE DEF e
  <2>2. /\ Live(n, w) /\ Kept(e, w) /\ SameMoney(e, w) /\ SameVerdict(e, w) /\ w.lines = Append(e.lines, "broken")
    BY <1>1, <2>1, WriteHeaderKeeps
  <2> HIDE DEF w
  <2>3. w.lines = <<"broken">>
    BY <1>1, <2>1, <2>2 DEF SameAnswer, Silent
  <2>4. w.at = r.at /\ w.hold[w.at] = "held" /\ w.booked[w.at] = 0
    BY <2>1, <2>2 DEF SameMoney, Kept
  <2>5. w.pinned = {} /\ w.verdicts[w.at] = << >>
    BY <1>1, <2>1, <2>2, <2>4 DEF SameVerdict
  <2>6. Ending(n, w)
    BY <2>2, <2>3, <2>4, <2>5 DEF Ending
  <2>7. AtEnd(n, Return(Completed(w, "broken")))
    BY <1>1, <2>3, <2>6, CompletedEnds
  <2> QED
    BY <1>3, <2>7 DEF NoFlusher, w, e
<1>4. CASE r.api = "responses"
  <2> DEFINE w == WriteHeader(r, "broken", 0)
             a == [w.att EXCEPT ![r.at] = "none"]
             p == [w EXCEPT !.att = a]
             q == ResponsesFinish(p, "broken", no, no)
  <2>1. /\ Live(n, w) /\ Kept(r, w) /\ SameMoney(r, w) /\ SameVerdict(r, w) /\ w.lines = Append(r.lines, "broken")
    BY <1>1, WriteHeaderKeeps
  <2>2. w \in Requests(n) /\ w.att \in [1..n -> AttemptStatuses] /\ r.at \in 1..n
    BY <1>1, <2>1, Fields
  <2>3. [w EXCEPT !.att[r.at] = "none"] = p
    <3> HIDE DEF w
    <3> QED
      BY <2>2 DEF Requests
  <2> HIDE DEF w
  <2>4. a \in [1..n -> AttemptStatuses] /\ a[r.at] = "none" /\ \A i \in 1..n : i # r.at => a[i] = w.att[i]
    BY <2>2 DEF AttemptStatuses
  <2> HIDE DEF a
  <2>5. p \in Requests(n)
    BY <2>2, <2>4 DEF Requests
  <2>6. /\ Kept(w, p) /\ SameFlags(w, p) /\ SameAnswer(w, p) /\ SameMoney(w, p) /\ SameVerdict(w, p)
        /\ p.hold = w.hold /\ p.booked = w.booked /\ p.verdicts = w.verdicts /\ p.att = a
    BY <2>2 DEF Requests, Kept, SameFlags, SameAnswer, SameMoney, SameVerdict
  <2> HIDE DEF p
  <2>7. Live(n, p)
    <3>1. w.at = r.at /\ p.at = w.at /\ p.panicked = w.panicked
      BY <2>1, <2>6 DEF Kept, SameFlags
    <3>2. p.bookedOn \subseteq {"open"} /\ p.pinned \subseteq {w.at}
      BY <2>1, <2>6, Fields DEF SameFlags
    <3>3. \A i \in 1..n : i # w.at => /\ p.att[i] = w.att[i] /\ p.hold[i] = w.hold[i]
                                      /\ p.booked[i] = w.booked[i] /\ p.verdicts[i] = w.verdicts[i]
      BY <2>4, <2>6, <3>1
    <3> QED
      BY <2>1, <2>5, <3>1, <3>2, <3>3, StillLive
  <2>8. /\ p.at = r.at /\ p.adm = "open" /\ p.hold[p.at] = "held" /\ p.booked[p.at] = 0 /\ p.att[p.at] = "none"
        /\ p.verdicts[p.at] = << >> /\ p.pinned = {}
    BY <1>1, <2>1, <2>4, <2>6 DEF Kept, SameMoney, SameVerdict, Calling
  <2>9. p.lines = <<"broken">>
    BY <1>1, <2>1, <2>6 DEF SameAnswer, Silent
  <2>10. /\ Live(n, q) /\ Kept(p, q) /\ SameAnswer(p, q) /\ SameVerdict(p, q)
         /\ q.booked[p.at] <= p.booked[p.at] + 1
         /\ q.hold[p.at] = IF p.hold[p.at] = "held"
                           THEN IF no /\ ("broken" = "ok" /\ ~no) THEN "exact" ELSE "retained"
                           ELSE p.hold[p.at]
         /\ q.trail # << >> /\ q.trail[Len(q.trail)].event = "completed" /\ q.trail[Len(q.trail)].status = "broken"
         /\ q.att[p.at] # "open"
    BY <1>1, <2>7, <2>8, ResponsesFinishKeeps
  <2> HIDE DEF q
  <2>11. q.at = p.at /\ q.lines = <<"broken">> /\ q.pinned = {} /\ q.verdicts[q.at] = << >>
    BY <2>8, <2>9, <2>10 DEF Kept, SameAnswer, SameVerdict
  <2>12. q.hold[q.at] # "exact" /\ q.booked[q.at] <= 1 /\ Len(q.lines) <= 1 /\ q.att[q.at] # "open"
    BY <1>2, <2>8, <2>10, <2>11
  <2>13. Ending(n, q) /\ Told(q)
    BY <2>10, <2>11, <2>12 DEF Ending, Told
  <2>14. AtEnd(n, Return(q))
    BY <2>12, <2>13, ReturnEnds
  <2> QED
    BY <1>2, <1>4, <2>3, <2>14 DEF NoFlusher, q, w
<1> QED
  BY <1>3, <1>4

LEMMA StreamAttemptFacts ==
  ASSUME NEW r
  PROVE  /\ StreamAttempt(r, FALSE) \in {"canceled", "stream_failed"} /\ StreamAttempt(r, TRUE) = "ok"
         /\ StreamAttempt(r, FALSE) \in AttemptStatuses
  BY DEF StreamAttempt, AttemptStatuses

\* Responses: the stream broke off after its first event.
LEMMA FailPartialEnds ==
  ASSUME NEW n \in Nat, NEW r, Calling(n, r), r.lines = <<"ok">>, r.from = {r.at}, Len(r.verdicts[r.at]) <= 1,
         r.s \in Streams
  PROVE  AtEnd(n, FailPartial(r))
<1>1. PICK yes \in BOOLEAN : yes = TRUE
  OBVIOUS
<1> DEFINE att == StreamAttempt(r, FALSE)
           e == EndOpenAttempt(r, att)
<1>2. att \in AttemptStatuses /\ att # "open" /\ r.s.usage \in BOOLEAN /\ r.at > 0
  BY StreamAttemptFacts DEF Streams, Calling
<1> HIDE DEF att
<1>3. /\ Live(n, e) /\ Kept(r, e) /\ SameAnswer(r, e) /\ SameVerdict(r, e) /\ e.att[r.at] = att
      /\ e.at = r.at /\ e.adm = "open" /\ e.pinned = {} /\ e.hold[r.at] = "held" /\ e.booked[r.at] = 0
  BY <1>2, Closes
<1> HIDE DEF e
<1>4. e.lines = <<"ok">> /\ e.from = {e.at} /\ Len(e.verdicts[e.at]) <= 1 /\ e.att[e.at] # "open"
  BY <1>2, <1>3 DEF SameAnswer, SameVerdict
<1>5. AtEnd(n, Return(ResponsesFinish(e, "ok", r.s.usage, yes)))
  BY <1>1, <1>2, <1>3, <1>4, ResponsesEnds
<1> QED
  BY <1>1, <1>5 DEF FailPartial, e, att

LEMMA ResponsesFailStep ==
  ASSUME NEW n \in Nat, NEW r, AtStream(n, r), r.api = "responses", NEW cause \in Errors \cup {"recovery"}
  PROVE  AtTarget(n, ResponsesFail(r, cause)) \/ AtEnd(n, ResponsesFail(r, cause))
<1>1. Calling(n, r) /\ Live(n, r) /\ r.verdicts[r.at] = << >> /\ r.pinned = {} /\ r.at > 0 /\ r.at \in 0..n /\ r.s \in Streams
  BY Fields DEF AtStream, Calling
<1>2. Len(r.verdicts[r.at]) <= 1
  BY <1>1
<1>3. CASE r.s.committed
  <2>1. r.lines = <<"ok">> /\ r.from = {r.at}
    BY <1>3 DEF AtStream
  <2>2. AtEnd(n, FailPartial(r))
    BY <1>1, <1>2, <2>1, FailPartialEnds
  <2> QED
    BY <1>3, <2>2 DEF ResponsesFail
<1>4. CASE ~r.s.committed
  <2>1. Silent(r)
    BY <1>1, <1>4 DEF AtStream, Silent
  <2>2. CASE r.native /\ cause = "recovery"
    <3> DEFINE q == Commit(r)
    <3>1. /\ Live(n, q) /\ Kept(r, q) /\ SameMoney(r, q) /\ SameEvidence(r, q) /\ SameVerdict(r, q)
          /\ q.lines = Append(r.lines, "ok") /\ q.from = r.from \cup {r.at}
      BY <1>1, CommitKeeps
    <3> HIDE DEF q
    <3>2. q.lines = <<"ok">> /\ q.from = {q.at} /\ Len(q.verdicts[q.at]) <= 1
      BY <1>2, <2>1, <3>1 DEF Silent, Kept, SameVerdict
    <3>3. Calling(n, q) /\ q.s \in Streams
      BY <1>1, <3>1, Fields DEF Calling, Masked, Kept, SameMoney, SameEvidence, SameVerdict
    <3>4. AtEnd(n, FailPartial(q))
      BY <3>2, <3>3, FailPartialEnds
    <3> QED
      BY <1>4, <2>2, <3>4 DEF ResponsesFail, q
  <2>3. CASE ~(r.native /\ cause = "recovery")
    <3>1. PICK no \in BOOLEAN : no = FALSE
      OBVIOUS
    <3>2. /\ RetriedStatus(r, cause) \in Failures /\ ErrorAttempt(r, cause) \in Failures
          /\ StreamStatus(cause) \in Statuses \ {"ok"} /\ r.s.usage \in BOOLEAN
      BY <1>1, StatusFacts DEF Errors, Streams
    <3>3. ResponsesFail(r, cause) = IF RetriesStream(r, cause) THEN FailAndMove(r, cause) ELSE FailAndTell(r, cause)
      BY <1>4, <2>3 DEF ResponsesFail
    <3>4. CASE RetriesStream(r, cause)
      <4>1. ~LastTarget(r)
        BY <3>4 DEF RetriesStream
      <4>2. AtTarget(n, NextTarget(ResponsesFinish(EndOpenAttempt(r, RetriedStatus(r, cause)), StreamStatus(cause), r.s.usage, no)))
        BY <1>1, <2>1, <3>2, <4>1, MovesOn
      <4> QED
        BY <3>1, <3>3, <3>4, <4>2 DEF FailAndMove
    <3>5. CASE ~RetriesStream(r, cause)
      <4>1. AtEnd(n, Return(WriteHeader(ResponsesFinish(EndOpenAttempt(r, ErrorAttempt(r, cause)), StreamStatus(cause), r.s.usage, no),
                                        StreamStatus(cause), r.at)))
        BY <1>1, <2>1, <3>2, ResponsesTells
      <4> QED
        BY <3>1, <3>3, <3>5, <4>1 DEF FailAndTell
    <3> QED
      BY <3>4, <3>5
  <2> QED
    BY <2>2, <2>3
<1> QED
  BY <1>3, <1>4

LEMMA PartialFinishEnds ==
  ASSUME NEW n \in Nat, NEW r, AtStream(n, r), r.api # "responses"
  PROVE  AtEnd(n, PartialFinish(r))
<1>1. PICK no \in BOOLEAN : no = FALSE
  OBVIOUS
<1> DEFINE att == StreamAttempt(r, FALSE)
           e == EndOpenAttempt(r, att)
           q == SettleBudget(e, r.s.usage, no)
<1>2. Calling(n, r) /\ r.s \in Streams /\ r.lines = <<"ok">> /\ r.verdicts[r.at] = <<"ok">> /\ r.at > 0
  BY Fields DEF AtStream, Calling
<1>3. att \in AttemptStatuses /\ r.s.usage \in BOOLEAN /\ Len(<<"ok">>) <= 1
  <2>1. att \in AttemptStatuses
    BY StreamAttemptFacts
  <2>2. r.s.usage \in BOOLEAN
    BY <1>2 DEF Streams
  <2>3. Len(<<"ok">>) <= 1
    OBVIOUS
  <2> QED
    BY <2>1, <2>2, <2>3
<1> HIDE DEF att
<1>4. /\ Live(n, e) /\ Kept(r, e) /\ SameAnswer(r, e) /\ SameVerdict(r, e)
      /\ e.at = r.at /\ e.adm = "open" /\ e.pinned = {} /\ e.hold[r.at] = "held" /\ e.booked[r.at] = 0
  BY <1>2, <1>3, Closes
<1> HIDE DEF e
<1>5. /\ Live(n, q) /\ Kept(e, q) /\ SameAnswer(e, q) /\ SameVerdict(e, q)
      /\ q.booked[e.at] <= e.booked[e.at] + 1
      /\ q.hold[e.at] = IF e.hold[e.at] = "held" THEN IF r.s.usage /\ no THEN "exact" ELSE "retained"
                        ELSE e.hold[e.at]
  BY <1>2, <1>3, <1>4, SettleBudgetKeeps
<1> HIDE DEF q
<1>6. q.at = r.at /\ q.lines = <<"ok">> /\ q.pinned = {} /\ q.verdicts[q.at] = <<"ok">>
  BY <1>2, <1>4, <1>5 DEF Kept, SameAnswer, SameVerdict
<1>7. q.booked[q.at] <= 1 /\ q.hold[q.at] = "retained"
  BY <1>1, <1>4, <1>5, <1>6
<1>8. Ending(n, q)
  BY <1>3, <1>5, <1>6, <1>7 DEF Ending
<1>9. AtEnd(n, Return(CompletedPartial(q)))
  BY <1>6, <1>8, CompletedEnds DEF Statuses
<1> QED
  BY <1>1, <1>9 DEF PartialFinish, q, e, att

LEMMA StreamDoneEnds ==
  ASSUME NEW n \in Nat, NEW r, AtStream(n, r), r.api # "responses"
  PROVE  AtEnd(n, StreamDone(r))
<1>1. PICK complete \in BOOLEAN : complete = StreamComplete(r.s)
  <2> DEFINE c == r.s.completed /\ ~r.s.failed
  <2>1. c \in BOOLEAN /\ StreamComplete(r.s) = c
    BY DEF StreamComplete
  <2> HIDE DEF c
  <2> QED
    BY <2>1
<1> DEFINE att == StreamAttempt(r, complete)
           e == EndOpenAttempt(r, att)
           p == SettleBudget(e, r.s.usage, complete)
           q == IF complete /\ r.s.usage THEN RecordSuccess(p) ELSE p
<1>2. /\ Calling(n, r) /\ r.s \in Streams /\ r.lines = <<"ok">> /\ r.from = {r.at} /\ r.verdicts[r.at] = <<"ok">>
      /\ r.at > 0
  BY Fields DEF AtStream, Calling
<1>3. att \in AttemptStatuses /\ (complete => att = "ok") /\ r.s.usage \in BOOLEAN /\ Len(<<"ok">>) <= 1
  <2>1. att \in AttemptStatuses /\ (complete => att = "ok")
    BY DEF StreamAttempt, AttemptStatuses
  <2>2. r.s.usage \in BOOLEAN
    BY <1>2 DEF Streams
  <2>3. Len(<<"ok">>) <= 1
    OBVIOUS
  <2> QED
    BY <2>1, <2>2, <2>3
<1> HIDE DEF att
<1>4. /\ Live(n, e) /\ Kept(r, e) /\ SameAnswer(r, e) /\ SameVerdict(r, e) /\ SameStream(r, e) /\ e.att[r.at] = att
      /\ e.at = r.at /\ e.adm = "open" /\ e.pinned = {} /\ e.hold[r.at] = "held" /\ e.booked[r.at] = 0
  BY <1>2, <1>3, Closes
<1> HIDE DEF e
<1>5. /\ Live(n, p) /\ Kept(e, p) /\ SameAnswer(e, p) /\ SameVerdict(e, p) /\ SameEvidence(e, p) /\ SameStream(e, p)
      /\ p.booked[e.at] <= e.booked[e.at] + 1
      /\ p.hold[e.at] = IF e.hold[e.at] = "held" THEN IF r.s.usage /\ complete THEN "exact" ELSE "retained"
                        ELSE e.hold[e.at]
  BY <1>2, <1>3, <1>4, SettleBudgetKeeps
<1> HIDE DEF p
<1>6. /\ p.at = r.at /\ p.lines = <<"ok">> /\ p.from = {r.at} /\ p.pinned = {} /\ p.verdicts[r.at] = <<"ok">>
      /\ p.att[r.at] = att /\ p.s = r.s /\ p.booked[r.at] <= 1
      /\ p.hold[r.at] = IF r.s.usage /\ complete THEN "exact" ELSE "retained"
  BY <1>2, <1>4, <1>5 DEF Kept, SameAnswer, SameVerdict, SameEvidence, SameStream
<1>7. /\ Live(n, q) /\ Kept(p, q) /\ SameMoney(p, q) /\ SameAnswer(p, q) /\ SameEvidence(p, q) /\ SameStream(p, q)
      /\ q.verdicts[p.at] = p.verdicts[p.at] /\ (~(complete /\ r.s.usage) => q.pinned = {})
  <2>1. CASE complete /\ r.s.usage
    BY <1>2, <1>5, <1>6, <2>1, RecordSuccessKeeps
  <2>2. CASE ~(complete /\ r.s.usage)
    BY <1>5, <1>6, <2>2 DEF Kept, SameMoney, SameAnswer, SameEvidence, SameStream
  <2> QED
    BY <2>1, <2>2
<1> HIDE DEF q
<1>8. /\ q.at = r.at /\ q.lines = <<"ok">> /\ q.from = {q.at} /\ q.verdicts[q.at] = <<"ok">> /\ q.att[q.at] = att
      /\ q.s = r.s /\ q.booked[q.at] <= 1 /\ (q.hold[q.at] = "exact" => complete /\ r.s.usage)
  BY <1>6, <1>7 DEF Kept, SameMoney, SameAnswer, SameEvidence, SameStream
<1>9. q.hold[q.at] = "exact" \/ q.at \in q.pinned => Whole(q, q.at)
  <2>1. q.hold[q.at] = "exact" \/ q.at \in q.pinned => complete /\ r.s.usage
    BY <1>7, <1>8
  <2> QED
    BY <1>1, <1>3, <1>8, <2>1 DEF Whole
<1>10. Ending(n, q)
  BY <1>3, <1>7, <1>8, <1>9 DEF Ending
<1>11. AtEnd(n, Return(Completed(q, "ok")))
  BY <1>8, <1>10, CompletedEnds DEF Statuses
<1> QED
  BY <1>1, <1>11 DEF StreamDone, q, p, e, att

LEMMA ResponsesDoneStep ==
  ASSUME NEW n \in Nat, NEW r, AtStream(n, r), r.api = "responses"
  PROVE  AtTarget(n, ResponsesDone(r)) \/ AtEnd(n, ResponsesDone(r))
<1>1. CASE r.s.unconverted \/ ~r.s.committed \/ ~StreamComplete(r.s) \/ ~r.s.usage
  BY <1>1, ResponsesFailStep DEF ResponsesDone, Errors
<1>2. CASE r.s.committed /\ StreamComplete(r.s) /\ r.s.usage /\ ~r.s.unconverted
  <2>1. PICK no \in BOOLEAN, yes \in BOOLEAN : no = FALSE /\ yes = TRUE
    OBVIOUS
  <2> DEFINE v == RecordResult(r, "ok")
             p == RecordSuccess(v)
             q == EndOpenAttempt(p, "ok")
  <2>2. /\ Calling(n, r) /\ Live(n, r) /\ r.lines = <<"ok">> /\ r.from = {r.at} /\ r.verdicts[r.at] = << >>
        /\ r.at > 0 /\ r.att[r.at] = "open" /\ r.adm = "open" /\ r.hold[r.at] = "held" /\ r.booked[r.at] = 0
    BY <1>2 DEF AtStream, Calling
  <2>3. /\ Live(n, v) /\ Kept(r, v) /\ SameMoney(r, v) /\ SameAnswer(r, v) /\ SameEvidence(r, v)
        /\ SameStream(r, v) /\ v.verdicts[r.at] = Append(r.verdicts[r.at], "ok")
    BY <2>2, RecordResultKeeps DEF Verdicts
  <2>4. v.at = r.at
    BY <2>3 DEF Kept
  <2> HIDE DEF v
  <2>5. /\ Live(n, p) /\ Kept(v, p) /\ SameMoney(v, p) /\ SameAnswer(v, p) /\ SameEvidence(v, p)
        /\ SameStream(v, p) /\ p.verdicts[v.at] = v.verdicts[v.at]
    BY <2>2, <2>3, <2>4, RecordSuccessKeeps
  <2>6. p.at = r.at
    BY <2>4, <2>5 DEF Kept
  <2> HIDE DEF p
  <2>7. /\ Live(n, q) /\ Kept(p, q) /\ SameMoney(p, q) /\ SameAnswer(p, q) /\ SameVerdict(p, q) /\ SameStream(p, q)
        /\ p.at > 0 => q.att[p.at] = IF p.att[p.at] = "open" THEN "ok" ELSE p.att[p.at]
    BY <2>5, EndOpenAttemptKeeps DEF AttemptStatuses
  <2> HIDE DEF q
  <2>8. q.at = r.at /\ q.adm = "open" /\ q.lines = <<"ok">> /\ q.from = {q.at} /\ q.s = r.s
    BY <2>2, <2>3, <2>5, <2>7 DEF Kept, SameMoney, SameAnswer, SameStream
  <2>9. q.booked[q.at] = 0 /\ q.hold[q.at] = "held"
    BY <2>2, <2>3, <2>4, <2>5, <2>6, <2>7, <2>8 DEF SameMoney
  <2>10. q.att[q.at] = "ok"
    BY <2>2, <2>3, <2>4, <2>5, <2>6, <2>7, <2>8 DEF SameEvidence
  <2>11. q.verdicts[q.at] = <<"ok">>
    BY <2>2, <2>3, <2>4, <2>5, <2>6, <2>7, <2>8 DEF SameVerdict
  <2>12. Len(q.verdicts[q.at]) <= 1
    BY <2>11
  <2>13. AtEnd(n, Return(ResponsesFinish(q, "ok", yes, no)))
    BY <1>2, <2>2, <2>7, <2>8, <2>9, <2>10, <2>12, ResponsesEnds
  <2> QED
    BY <1>2, <2>1, <2>13 DEF ResponsesDone, q, p, v
<1> QED
  BY <1>1, <1>2

LEMMA StreamEndStepKeeps ==
  ASSUME NEW n \in Nat, NEW r, AtStream(n, r),
         NEW cause \in {"transport", "deadline", "validation", "broken", "recovery"}
  PROVE  /\ AtTarget(n, StreamEndOf(r)) \/ AtEnd(n, StreamEndOf(r))
         /\ AtTarget(n, StreamBroken(r, cause)) \/ AtEnd(n, StreamBroken(r, cause))
<1>1. r.api \in Apis /\ cause \in Errors \cup {"recovery"}
  BY Fields DEF AtStream, Calling, Requests, Errors, Codes
<1>2. CASE r.api = "responses"
  BY <1>1, <1>2, ResponsesDoneStep, ResponsesFailStep DEF StreamEndOf, StreamBroken
<1>3. CASE r.api # "responses"
  <2>1. AtEnd(n, PartialFinish(r)) /\ AtEnd(n, StreamDone(r))
    BY <1>3, PartialFinishEnds, StreamDoneEnds
  <2>2. StreamBroken(r, cause) = PartialFinish(r)
    BY <1>3 DEF StreamBroken
  <2>3. StreamEndOf(r) = PartialFinish(r) \/ StreamEndOf(r) = StreamDone(r)
    BY <1>1, <1>3 DEF StreamEndOf, ConverseDone, ChatDone, Apis
  <2> QED
    BY <2>1, <2>2, <2>3
<1> QED
  BY <1>2, <1>3

\* An event of a stream that Messages, Chat, Invoke and Converse have committed.
LEMMA RelayedKeeps ==
  ASSUME NEW n \in Nat, NEW r, AtStream(n, r), r.api # "responses", NEW ev
  PROVE  AtStream(n, [r EXCEPT !.s = Observed(@, ev), !.from = @ \cup {r.at}])
<1> DEFINE t == Observed(r.s, ev)
<1>1. r \in Requests(n) /\ r.s \in Streams
  BY Fields DEF AtStream, Calling
<1>2. t \in Streams /\ t.committed = r.s.committed
  BY <1>1, ObservedIsAStream
<1>3. r.from = {r.at}
  BY DEF AtStream
<1> HIDE DEF t
<1>4. [r EXCEPT !.s = t, !.from = @ \cup {r.at}] = [r EXCEPT !.s = t]
  BY <1>1, <1>3 DEF Requests
<1>5. AtStream(n, [r EXCEPT !.s = t])
  BY <1>2, StreamStateKeeps
<1>6. [r EXCEPT !.s = Observed(@, ev), !.from = @ \cup {r.at}] = [r EXCEPT !.s = t, !.from = @ \cup {r.at}]
  BY <1>1 DEF Requests, t
<1> QED
  BY <1>4, <1>5, <1>6

\* Responses commits with the first event it can relay.
LEMMA OpenedKeeps ==
  ASSUME NEW n \in Nat, NEW r, AtStream(n, r), r.api = "responses", ~r.s.committed
  PROVE  AtStream(n, [WriteHeader(r, "ok", r.at) EXCEPT !.s.committed = TRUE])
         /\ [WriteHeader(r, "ok", r.at) EXCEPT !.s.committed = TRUE].api = "responses"
<1> DEFINE w == WriteHeader(r, "ok", r.at)
           q == Commit(r)
<1>1. Calling(n, r) /\ Live(n, r) /\ r.at > 0 /\ r.at \in 0..n /\ r.phase = "streaming" /\ r.lines = << >> /\ r.from = {}
      /\ r.verdicts[r.at] = << >>
  BY Fields DEF AtStream, Calling
<1>2. Live(n, w) /\ w.phase = "streaming"
  <2>1. "ok" \in Statuses
    BY DEF Statuses
  <2>2. Live(n, w) /\ SameStream(r, w)
    BY <1>1, <2>1, WriteHeaderKeeps
  <2> QED
    BY <1>1, <2>2 DEF SameStream
<1>3. [w EXCEPT !.s.committed = TRUE] = q
  <2>1. w \in Requests(n)
    BY <1>2, Fields
  <2>2. q = [w EXCEPT !.phase = "streaming", !.s.committed = TRUE]
    BY DEF Commit
  <2> HIDE DEF w, q
  <2> QED
    BY <1>2, <2>1, <2>2 DEF Requests
<1>4. /\ Live(n, q) /\ Kept(r, q) /\ SameMoney(r, q) /\ SameEvidence(r, q) /\ SameVerdict(r, q)
      /\ q.lines = Append(r.lines, "ok") /\ q.from = r.from \cup {r.at}
      /\ q.phase = "streaming" /\ q.s.committed
  BY <1>1, CommitKeeps
<1> HIDE DEF q
<1>5. q.lines = <<"ok">> /\ q.from = {q.at} /\ q.api = "responses" /\ q.verdicts[q.at] = << >>
  BY <1>1, <1>4 DEF Kept, SameVerdict
<1>6. Calling(n, q)
  BY <1>1, <1>4 DEF Calling, Masked, Kept, SameMoney, SameEvidence, SameVerdict
<1> QED
  BY <1>3, <1>4, <1>5, <1>6 DEF AtStream

LEMMA ResponsesEventStep ==
  ASSUME NEW n \in Nat, NEW r, AtStream(n, r), r.api = "responses", NEW ev, NEW fits, NEW taken
  PROVE  LET q == ResponsesEvent(r, ev, fits, taken) IN AtStream(n, q) \/ AtTarget(n, q) \/ AtEnd(n, q)
<1> DEFINE t == Observed(r.s, ev)
           seen == [r EXCEPT !.s = t]
           open == IF seen.s.committed THEN seen ELSE [WriteHeader(seen, "ok", r.at) EXCEPT !.s.committed = TRUE]
<1>1. r \in Requests(n) /\ r.s \in Streams
  BY Fields DEF AtStream, Calling
<1>2. t \in Streams /\ t.committed = r.s.committed
  BY <1>1, ObservedIsAStream
<1>3. [r EXCEPT !.s = Observed(@, ev)] = seen
  BY <1>1 DEF Requests
<1> HIDE DEF t
<1>4. AtStream(n, seen) /\ seen.api = "responses" /\ seen.s = t /\ seen.at = r.at
  BY <1>2, StreamStateKeeps
<1> HIDE DEF seen
<1>5. AtStream(n, open) /\ open.api = "responses"
  BY <1>4, OpenedKeeps
<1> HIDE DEF open
<1>6. AtStream(n, [seen EXCEPT !.s.unconverted = TRUE])
  <2>1. PICK yes \in BOOLEAN : yes = TRUE
    OBVIOUS
  <2> DEFINE u == [t EXCEPT !.unconverted = yes]
  <2>2. u \in Streams /\ u.committed = t.committed
    BY <1>2 DEF Streams
  <2>3. [seen EXCEPT !.s.unconverted = TRUE] = [seen EXCEPT !.s = u]
    <3>1. seen \in Requests(n)
      BY <1>4, Fields DEF AtStream, Calling
    <3> QED
      BY <1>4, <2>1, <3>1 DEF Requests
  <2> HIDE DEF u
  <2> QED
    BY <1>4, <2>2, <2>3, StreamStateKeeps
<1>7. AtTarget(n, ResponsesFail(open, "transport")) \/ AtEnd(n, ResponsesFail(open, "transport"))
  BY <1>5, ResponsesFailStep DEF Errors
<1>8. LET q == ResponsesEvent(r, ev, fits, taken)
      IN q \in {seen, [seen EXCEPT !.s.unconverted = TRUE], open, ResponsesFail(open, "transport")}
  BY <1>3 DEF ResponsesEvent, open
<1> QED
  BY <1>4, <1>5, <1>6, <1>7, <1>8

LEMMA StreamStepKeeps ==
  ASSUME NEW n \in Nat, NEW r, AtStream(n, r), NEW ev, NEW fits, NEW taken
  PROVE  LET q == StreamEventOf(r, ev, fits, taken) IN AtStream(n, q) \/ AtTarget(n, q) \/ AtEnd(n, q)
<1>1. r.api \in Apis
  BY Fields DEF AtStream, Calling, Requests
<1>2. CASE r.api = "responses"
  <2>1. StreamEventOf(r, ev, fits, taken) = ResponsesEvent(r, ev, fits, taken)
    BY <1>2 DEF StreamEventOf
  <2> QED
    BY <1>2, <2>1, ResponsesEventStep
<1>3. CASE r.api # "responses"
  <2>1. AtEnd(n, PartialFinish(r)) /\ AtStream(n, [r EXCEPT !.s = Observed(@, ev), !.from = @ \cup {r.at}])
    BY <1>3, PartialFinishEnds, RelayedKeeps
  <2>2. StreamEventOf(r, ev, fits, taken) \in {PartialFinish(r), [r EXCEPT !.s = Observed(@, ev), !.from = @ \cup {r.at}]}
    BY <1>1, <1>3 DEF StreamEventOf, MessagesEvent, ChatEvent, InvokeEvent, Apis
  <2> QED
    BY <2>1, <2>2
<1> QED
  BY <1>2, <1>3

-----------------------------------------------------------------------------
(* The steps before the first attempt. *)

LEMMA PhaseKeeps ==
  ASSUME NEW n \in Nat, NEW r, Live(n, r), NEW phase \in Phases
  PROVE  LET q == [r EXCEPT !.phase = phase]
         IN /\ Live(n, q) /\ Kept(r, q) /\ SameMoney(r, q) /\ SameAnswer(r, q) /\ SameEvidence(r, q)
            /\ SameTables(r, q) /\ SameVerdict(r, q) /\ q.s = r.s /\ q.phase = phase
<1> DEFINE q == [r EXCEPT !.phase = phase]
<1>1. r \in Requests(n)
  BY DEF Live
<1>2. q \in Requests(n)
  BY <1>1 DEF Requests
<1>3. /\ Kept(r, q) /\ SameTables(r, q) /\ SameFlags(r, q) /\ SameAnswer(r, q) /\ q.adm = r.adm /\ q.trail = r.trail
      /\ q.s = r.s /\ q.phase = phase
  BY <1>1 DEF Requests, Kept, SameTables, SameFlags, SameAnswer
<1> HIDE DEF q
<1>4. Live(n, q)
  BY <1>2, <1>3, StillLive DEF Live, Kept, SameTables, SameFlags
<1> QED
  BY <1>3, <1>4 DEF SameMoney, SameEvidence, SameVerdict, SameTables, SameFlags, q

\* A refusal before any attempt was made, or between two of them.
LEMMA QuietRefusal ==
  ASSUME NEW n \in Nat, NEW r, Fresh(n, r) \/ Waiting(n, r), NEW status \in Statuses
  PROVE  AtEnd(n, Refuse(r, status, TRUE)) /\ Refuse(r, status, TRUE).phase = "done"
<1>1. PICK yes \in BOOLEAN : yes = TRUE
  OBVIOUS
<1>2. Live(n, r) /\ r.pinned = {} /\ r.lines = << >>
  BY DEF Fresh, Waiting, Silent
<1>3. Spent(r)
  <2>1. CASE Fresh(n, r)
    BY <2>1 DEF Fresh, Spent
  <2>2. CASE Waiting(n, r)
    <3>1. r.hold[r.at] = "none" /\ r.booked[r.at] = 0 /\ r.verdicts[r.at] = << >>
      BY <2>2 DEF Waiting, Untried
    <3> QED
      BY <3>1 DEF Spent
  <2> QED
    BY <2>1, <2>2
<1>4. AtEnd(n, Refuse(r, status, yes))
  BY <1>1, <1>2, <1>3, RefuseEnds
<1> QED
  BY <1>1, <1>4 DEF AtEnd

LEMMA GateRefusals ==
  ASSUME NEW api \in Apis, NEW g \in GatesOf(api)
  PROVE  g[1] \in Statuses /\ g[2] \in BOOLEAN
<1>1. GatesOf(api) \subseteq ResponsesGates
  <2>1. MessagesGates \subseteq ResponsesGates /\ ChatGates = MessagesGates /\ InvokeGates = MessagesGates
    BY DEF MessagesGates, ChatGates, InvokeGates, ResponsesGates
  <2>2. GatesOf(api) \in {MessagesGates, ChatGates, InvokeGates, ResponsesGates}
    BY DEF Apis, GatesOf
  <2> QED
    BY <2>1, <2>2
<1>2. /\ "unauthenticated" \in Statuses /\ "invalid" \in Statuses
      /\ "forbidden" \in Statuses /\ "missing" \in Statuses
  BY DEF Statuses
<1>3. /\ <<"unauthenticated", FALSE>>[1] = "unauthenticated" /\ <<"unauthenticated", FALSE>>[2] = FALSE
      /\ <<"invalid", FALSE>>[1] = "invalid" /\ <<"invalid", FALSE>>[2] = FALSE
      /\ <<"invalid", TRUE>>[1] = "invalid" /\ <<"invalid", TRUE>>[2] = TRUE
      /\ <<"forbidden", TRUE>>[1] = "forbidden" /\ <<"forbidden", TRUE>>[2] = TRUE
      /\ <<"missing", TRUE>>[1] = "missing" /\ <<"missing", TRUE>>[2] = TRUE
  OBVIOUS
<1> QED
  BY <1>1, <1>2, <1>3 DEF ResponsesGates

LEMMA GateMoves ==
  ASSUME NEW n \in Nat, AtStart(n, rq), PassGates
  PROVE  AtStart(n, rq') \/ AtEnd(n, rq')
<1>1. Fresh(n, rq) /\ Live(n, rq) /\ rq.at = 0 /\ rq.pinned = {} /\ rq.lines = << >> /\ rq.trail = << >>
  BY DEF AtStart, Fresh, Silent
<1>2. rq.api \in Apis
  BY <1>1, Fields DEF Requests
<1>3. Spent(rq)
  BY <1>1 DEF Spent
<1>4. ASSUME NEW g \in GatesOf(rq.api), rq' = Refuse(rq, g[1], g[2])
      PROVE  AtEnd(n, rq')
  <2>1. g[1] \in Statuses /\ g[2] \in BOOLEAN
    BY <1>2, GateRefusals
  <2> QED
    BY <1>1, <1>3, <1>4, <2>1, RefuseEnds
<1>5. CASE rq' = [rq EXCEPT !.phase = "route"]
  <2>1. "route" \in Phases
    BY DEF Phases
  <2>2. LET q == [rq EXCEPT !.phase = "route"]
        IN /\ Live(n, q) /\ Kept(rq, q) /\ SameMoney(rq, q) /\ SameAnswer(rq, q) /\ SameEvidence(rq, q)
           /\ SameVerdict(rq, q) /\ q.s = rq.s /\ q.phase = "route"
    BY <1>1, <2>1, PhaseKeeps
  <2> QED
    BY <1>5, <2>2 DEF AtStart, Fresh, Silent, Kept, SameMoney, SameAnswer, SameEvidence, SameVerdict
<1> QED
  BY <1>4, <1>5 DEF PassGates

\* Routing turns a request without targets into one with the targets of its chain.
LEMMA RoutedIsFresh ==
  ASSUME NEW r, AtStart(0, r), NEW c \in Chains
  PROVE  LET q == [r EXCEPT !.chain = c,
                            !.hold = [i \in 1..Len(c) |-> "none"],
                            !.booked = [i \in 1..Len(c) |-> 0],
                            !.att = [i \in 1..Len(c) |-> "none"],
                            !.verdicts = [i \in 1..Len(c) |-> << >>]]
         IN /\ Len(c) \in Nat /\ Len(c) > 0 /\ Fresh(Len(c), q)
            /\ q.needs = r.needs /\ q.raw = {} /\ q.parsed = {}
<1> DEFINE m == Len(c)
           h == [i \in 1..m |-> "none"]
           b == [i \in 1..m |-> 0]
           v == [i \in 1..m |-> << >>]
           q == [r EXCEPT !.chain = c, !.hold = h, !.booked = b, !.att = h, !.verdicts = v]
           p == [[[[[r EXCEPT !.chain = c] EXCEPT !.hold = h] EXCEPT !.booked = b] EXCEPT !.att = h] EXCEPT !.verdicts = v]
<1>1. m \in Nat /\ m > 0
  <2>1. c \in Seq({c[i] : i \in DOMAIN c}) /\ c # << >>
    BY ServingAssumption
  <2> QED
    BY <2>1
<1>2. /\ h \in [1..m -> Holds] /\ h \in [1..m -> AttemptStatuses] /\ b \in [1..m -> Nat]
  BY DEF Holds, AttemptStatuses
<1>3. v \in [1..m -> Seq(Verdicts)]
  <2>1. << >> \in Seq(Verdicts)
    OBVIOUS
  <2> QED
    BY <2>1
<1>4. \A i \in 1..m : h[i] = "none" /\ b[i] = 0 /\ v[i] = << >>
  OBVIOUS
<1>5. c \in {d \in Chains \cup {<< >>} : Len(d) = m}
  OBVIOUS
<1>6. /\ r \in Requests(0) /\ r.at = 0 /\ r.pinned = {} /\ r.from = {} /\ r.lines = << >> /\ r.trail = << >>
      /\ r.s = NoStream /\ r.adm = "none" /\ r.bookedOn \subseteq {"open"} /\ ~r.panicked
      /\ r.raw = {} /\ r.parsed = {}
  BY DEF AtStart, Fresh, Silent, Live
<1>7. q = p
  BY <1>6 DEF Requests
<1> HIDE DEF h, b, v, m
<1>8. p \in Requests(m)
  <2>1. 0 \in 0..m /\ {} \subseteq 1..m /\ {} \subseteq 0..m
    BY <1>1
  <2>2. /\ r.api \in Apis /\ r.stream \in BOOLEAN /\ r.native \in BOOLEAN /\ r.needs \in SUBSET Masks
        /\ r.phase \in Phases /\ r.gone \in BOOLEAN /\ r.raw \in SUBSET Masks /\ r.parsed \in SUBSET Masks
        /\ r.est \in SUBSET Masks /\ r.adm \in Admissions /\ r.bookedOn \in SUBSET Admissions
        /\ r.lines \in Seq(Statuses) /\ r.trail \in Seq(Records) /\ r.s \in Streams /\ r.panicked \in BOOLEAN
    BY <1>6 DEF Requests
  <2>4. r.at \in 0..m /\ r.pinned \in SUBSET (1..m) /\ r.from \in SUBSET (0..m)
    BY <1>6, <2>1
  <2> DEFINE Shape(C, H, B, A, V) ==
               [api : Apis, stream : BOOLEAN, native : BOOLEAN, needs : SUBSET Masks,
                chain : C, phase : Phases, at : 0..m, gone : BOOLEAN,
                raw : SUBSET Masks, parsed : SUBSET Masks, est : SUBSET Masks, adm : Admissions,
                hold : H, booked : B, bookedOn : SUBSET Admissions,
                att : A, verdicts : V, pinned : SUBSET (1..m),
                lines : Seq(Statuses), from : SUBSET (0..m), trail : Seq(Records), s : Streams, panicked : BOOLEAN]
             one == [r EXCEPT !.chain = c]
             two == [one EXCEPT !.hold = h]
             three == [two EXCEPT !.booked = b]
             four == [three EXCEPT !.att = h]
  <2>5. r \in Shape({r.chain}, {r.hold}, {r.booked}, {r.att}, {r.verdicts})
    BY <1>6, <2>2, <2>4 DEF Requests
  <2>6. one \in Shape({c}, {r.hold}, {r.booked}, {r.att}, {r.verdicts})
    BY <2>5
  <2> HIDE DEF one
  <2>7. two \in Shape({c}, {h}, {r.booked}, {r.att}, {r.verdicts})
    BY <2>6
  <2> HIDE DEF two
  <2>8. three \in Shape({c}, {h}, {b}, {r.att}, {r.verdicts})
    BY <2>7
  <2> HIDE DEF three
  <2>9. four \in Shape({c}, {h}, {b}, {h}, {r.verdicts})
    BY <2>8
  <2>10. p = [four EXCEPT !.verdicts = v]
    BY DEF one, two, three
  <2> HIDE DEF four, p
  <2>11. p \in Shape({c}, {h}, {b}, {h}, {v})
    BY <2>9, <2>10
  <2> QED
    BY <1>2, <1>3, <1>5, <2>11 DEF Requests
<1>9. /\ p.at = 0 /\ p.pinned = {} /\ p.from = {} /\ p.lines = << >> /\ p.trail = << >>
      /\ p.s = NoStream /\ p.adm = "none" /\ p.bookedOn \subseteq {"open"} /\ ~p.panicked
      /\ p.raw = {} /\ p.parsed = {} /\ p.needs = r.needs
      /\ p.hold = h /\ p.booked = b /\ p.att = h /\ p.verdicts = v
  BY <1>6 DEF Requests
<1> HIDE DEF p
<1>10. \A i \in 1..m : ~(i < p.at) /\ Untried(p, i)
  BY <1>1, <1>4, <1>9 DEF Untried
<1>11. Live(m, p)
  BY <1>8, <1>9, <1>10 DEF Live
<1>12. Fresh(m, p)
  BY <1>9, <1>11 DEF Fresh, Silent
<1> QED
  BY <1>1, <1>7, <1>9, <1>12 DEF m, h, b, v

\* Masking and estimating touch the body only.
BodyOnly(r, q) ==
  /\ SameTables(r, q) /\ SameFlags(r, q) /\ SameAnswer(r, q) /\ q.adm = r.adm /\ q.trail = r.trail
  /\ q.s = r.s /\ q.phase = r.phase /\ q.needs = r.needs /\ q.api = r.api /\ q.at = r.at

LEMMA BodyKeeps ==
  ASSUME NEW n \in Nat, NEW r, Fresh(n, r), NEW q \in Requests(n), BodyOnly(r, q)
  PROVE  Fresh(n, q)
<1>1. Live(n, r)
  BY DEF Fresh
<1>2. Live(n, q)
  BY <1>1, StillLive DEF Live, BodyOnly, SameTables, SameFlags
<1> QED
  BY <1>2 DEF Fresh, Silent, BodyOnly, SameAnswer, SameFlags

\* Fresh requests stay fresh when their phase changes.
LEMMA FreshPhase ==
  ASSUME NEW n \in Nat, NEW r, Fresh(n, r), NEW phase \in Phases
  PROVE  LET q == [r EXCEPT !.phase = phase]
         IN Fresh(n, q) /\ q.phase = phase /\ q.needs = r.needs /\ q.raw = r.raw /\ q.parsed = r.parsed /\ q.est = r.est
<1> DEFINE q == [r EXCEPT !.phase = phase]
<1>1. Live(n, r)
  BY DEF Fresh
<1>2. /\ Live(n, q) /\ Kept(r, q) /\ SameMoney(r, q) /\ SameAnswer(r, q) /\ SameEvidence(r, q)
      /\ SameVerdict(r, q) /\ q.s = r.s /\ q.phase = phase
  BY <1>1, PhaseKeeps
<1> HIDE DEF q
<1> QED
  BY <1>2 DEF Fresh, Silent, Kept, SameMoney, SameAnswer, SameEvidence, SameVerdict, q

LEMMA ApplyRouteFresh ==
  ASSUME NEW n \in Nat, n > 0, NEW r, Fresh(n, r), r.raw = {}, r.parsed = {}
  PROVE  AtMask(n, ApplyRoute(r))
<1>1. "mask" \in Phases
  BY DEF Phases
<1>2. r \in Requests(n) /\ r.needs \subseteq Masks /\ r.est \in SUBSET Masks
  BY DEF Fresh, Live, Requests
<1>3. CASE "policy" \in r.needs
  <2> DEFINE masks == {"policy"} \cup (IF "team" \in r.needs THEN {"team"} ELSE {})
  <2>1. masks \in SUBSET Masks /\ r.needs \subseteq masks /\ "policy" \in masks
    BY <1>2 DEF Masks
  <2> DEFINE p == [r EXCEPT !.raw = masks, !.parsed = masks]
             q == [p EXCEPT !.phase = "mask"]
  <2>2. Sanitized(r) = p
    BY DEF Sanitized
  <2> HIDE DEF masks
  <2>3. p \in Requests(n) /\ BodyOnly(r, p) /\ p.raw = masks /\ p.parsed = masks
    BY <1>2, <2>1 DEF Requests, BodyOnly, SameTables, SameFlags, SameAnswer
  <2> HIDE DEF p
  <2>4. Fresh(n, p) /\ p.raw = masks /\ p.parsed = masks /\ p.needs = r.needs
    BY <2>3, BodyKeeps DEF BodyOnly
  <2>5. Fresh(n, q) /\ q.phase = "mask" /\ q.needs = p.needs /\ q.raw = p.raw /\ q.parsed = p.parsed
    BY <1>1, <2>4, FreshPhase
  <2>6. ApplyRoute(r) = q
    BY <1>3, <2>2 DEF ApplyRoute
  <2> HIDE DEF q
  <2> QED
    BY <2>1, <2>4, <2>5, <2>6 DEF AtMask
<1>4. CASE "policy" \notin r.needs
  <2> DEFINE q == [r EXCEPT !.phase = "mask"]
  <2>1. Fresh(n, q) /\ q.phase = "mask" /\ q.needs = r.needs /\ q.raw = r.raw /\ q.parsed = r.parsed
    BY <1>1, FreshPhase
  <2>2. ApplyRoute(r) = q
    BY <1>4 DEF ApplyRoute
  <2> HIDE DEF q
  <2> QED
    BY <1>4, <2>1, <2>2 DEF AtMask
<1> QED
  BY <1>3, <1>4

LEMMA RouteMoves ==
  ASSUME NEW n \in Nat, AtStart(n, rq), RouteStep
  PROVE  \E m \in Nat : AtMask(m, rq') \/ AtEnd(m, rq')
<1>1. n = 0 /\ Fresh(n, rq) /\ rq \in Requests(n)
  BY DEF AtStart, Fresh, Live
<1>2. ASSUME NEW status \in RouteRefusals(rq.api), rq' = Refuse(rq, status, TRUE)
      PROVE  AtEnd(n, rq')
  <2>1. rq.api \in Apis
    BY <1>1 DEF Requests
  <2>2. status \in Statuses
    BY <2>1 DEF Apis, RouteRefusals, MessagesRouteRefusals, ChatRouteRefusals, InvokeRouteRefusals,
                ResponsesRouteRefusals, Statuses
  <2> QED
    BY <1>1, <1>2, <2>2, QuietRefusal
<1>3. ASSUME NEW c \in Chains,
             rq' = ApplyRoute([rq EXCEPT !.chain = c,
                                 !.hold = [i \in 1..Len(c) |-> "none"],
                                 !.booked = [i \in 1..Len(c) |-> 0],
                                 !.att = [i \in 1..Len(c) |-> "none"],
                                 !.verdicts = [i \in 1..Len(c) |-> << >>]])
      PROVE  Len(c) \in Nat /\ AtMask(Len(c), rq')
  <2> DEFINE q == [rq EXCEPT !.chain = c,
                             !.hold = [i \in 1..Len(c) |-> "none"],
                             !.booked = [i \in 1..Len(c) |-> 0],
                             !.att = [i \in 1..Len(c) |-> "none"],
                             !.verdicts = [i \in 1..Len(c) |-> << >>]]
  <2>1. /\ Len(c) \in Nat /\ Len(c) > 0 /\ Fresh(Len(c), q) /\ q.raw = {} /\ q.parsed = {}
    BY <1>1, RoutedIsFresh
  <2>2. rq' = ApplyRoute(q)
    BY <1>3
  <2> HIDE DEF q
  <2> QED
    BY <2>1, <2>2, ApplyRouteFresh
<1> QED
  BY <1>2, <1>3 DEF RouteStep

LEMMA TeamMaskedStep ==
  ASSUME NEW n \in Nat, AtMask(n, rq), NEW r \in TeamMasked(rq)
  PROVE  \/ AtEnd(n, r) /\ r.phase = "done"
         \/ /\ Fresh(n, r) /\ r.phase = "mask" /\ r.needs \subseteq r.raw /\ r.parsed = r.raw
<1>1. /\ n > 0 /\ Fresh(n, rq) /\ rq \in Requests(n) /\ rq.api \in Apis /\ rq.phase = "mask" /\ rq.parsed = rq.raw
      /\ rq.raw \subseteq Masks /\ rq.needs \subseteq Masks
      /\ ("policy" \in rq.needs => "policy" \in rq.raw) /\ ("policy" \in rq.raw => rq.needs \subseteq rq.raw)
  BY DEF AtMask, Fresh, Live, Requests
<1>2. CASE "team" \notin rq.needs
  <2>1. r = rq
    BY <1>2 DEF TeamMasked
  <2>2. rq.needs \subseteq rq.raw
    BY <1>1, <1>2 DEF Masks
  <2> QED
    BY <1>1, <2>1, <2>2
<1>3. CASE "team" \in rq.needs
  <2>1. /\ AtEnd(n, Refuse(rq, "invalid", TRUE)) /\ Refuse(rq, "invalid", TRUE).phase = "done"
        /\ AtEnd(n, Refuse(rq, "forbidden", TRUE)) /\ Refuse(rq, "forbidden", TRUE).phase = "done"
    <3>1. "invalid" \in Statuses /\ "forbidden" \in Statuses
      BY DEF Statuses
    <3> QED
      BY <1>1, <3>1, QuietRefusal
  <2> DEFINE m == MaskBoth(rq)
  <2>2. Fresh(n, m) /\ m.phase = "mask" /\ m.needs \subseteq m.raw /\ m.parsed = m.raw
    <3>1. rq.raw \cup {"team"} \in SUBSET Masks
      BY <1>1 DEF Masks
    <3>2. m \in Requests(n) /\ BodyOnly(rq, m) /\ m.raw = rq.raw \cup {"team"} /\ m.parsed = rq.raw \cup {"team"}
      BY <1>1, <3>1 DEF MaskBoth, Requests, BodyOnly, SameTables, SameFlags, SameAnswer
    <3> HIDE DEF m
    <3>3. Fresh(n, m) /\ m.phase = "mask" /\ m.needs = rq.needs
      BY <1>1, <3>2, BodyKeeps DEF BodyOnly
    <3>4. rq.needs \subseteq rq.raw \cup {"team"}
      BY <1>1 DEF Masks
    <3> QED
      BY <3>2, <3>3, <3>4
  <2> HIDE DEF m
  <2>3. \/ r \in {m, Refuse(rq, "invalid", TRUE), Refuse(rq, "forbidden", TRUE)}
        \/ r = rq /\ "policy" \in rq.raw
    BY <1>1, <1>3 DEF TeamMasked, MaskOf, MessagesMask, ChatMask, InvokeMask, ResponsesMask, Apis, m
  <2> QED
    BY <1>1, <2>1, <2>2, <2>3
<1> QED
  BY <1>2, <1>3

LEMMA MaskMoves ==
  ASSUME NEW n \in Nat, AtMask(n, rq), MaskStep
  PROVE  AtAdmit(n, rq') \/ AtEnd(n, rq')
<1>1. PICK r \in TeamMasked(rq) : rq' = IF r.phase = "done" THEN r ELSE [r EXCEPT !.phase = "admit"]
  BY DEF MaskStep
<1>2. CASE AtEnd(n, r) /\ r.phase = "done"
  BY <1>1, <1>2
<1>3. CASE Fresh(n, r) /\ r.phase = "mask" /\ r.needs \subseteq r.raw /\ r.parsed = r.raw
  <2> DEFINE q == [r EXCEPT !.phase = "admit"]
  <2>1. "admit" \in Phases
    BY DEF Phases
  <2>2. Fresh(n, q) /\ q.phase = "admit" /\ q.needs = r.needs /\ q.raw = r.raw /\ q.parsed = r.parsed
    BY <1>3, <2>1, FreshPhase
  <2>3. rq' = q
    BY <1>1, <1>3
  <2> HIDE DEF q
  <2> QED
    BY <1>3, <2>2, <2>3 DEF AtAdmit, AtMask
<1> QED
  BY <1>2, <1>3, TeamMaskedStep

\* Admission opens the budget's side and points at the first target.
LEMMA AdmitOpens ==
  ASSUME NEW n \in Nat, n > 0, NEW r, Fresh(n, r), Masked(r)
  PROVE  AtTarget(n, Admit(r)) /\ Admit(r).api = r.api /\ Admit(r).at = 1
<1> DEFINE p == [r EXCEPT !.adm = "open"]
           a == [p EXCEPT !.at = 1]
           q == [a EXCEPT !.phase = "target"]
<1>1. /\ Live(n, r) /\ r \in Requests(n) /\ r.at = 0 /\ r.pinned = {} /\ r.lines = << >> /\ r.from = {} /\ r.s = NoStream
      /\ r.bookedOn \subseteq {"open"} /\ ~r.panicked
  BY DEF Fresh, Live, Silent
<1>2. "open" \in Admissions /\ 1 \in 0..n /\ "target" \in Phases
  BY DEF Admissions, Phases
<1>3. \A i \in 1..n : Untried(r, i)
  BY <1>1 DEF Live
<1>4. Admit(r) = q
  BY <1>1 DEF Admit, Requests
<1>5. /\ p \in Requests(n) /\ SameTables(r, p) /\ SameFlags(r, p) /\ SameAnswer(r, p) /\ p.adm = "open" /\ p.s = r.s
      /\ p.api = r.api /\ p.needs = r.needs /\ p.raw = r.raw /\ p.parsed = r.parsed /\ p.est = r.est
  <2>1. r \in Requests(n)
    BY <1>1
  <2>2. p \in Requests(n)
    BY <1>2, <2>1 DEF Requests
  <2> QED
    BY <2>1, <2>2 DEF Requests, SameTables, SameFlags, SameAnswer
<1> HIDE DEF p
<1>6. /\ a \in Requests(n) /\ SameTables(p, a) /\ SameFlags(p, a) /\ SameAnswer(p, a) /\ a.adm = p.adm /\ a.s = p.s
      /\ a.api = p.api /\ a.needs = p.needs /\ a.raw = p.raw /\ a.parsed = p.parsed /\ a.est = p.est /\ a.at = 1
  BY <1>2, <1>5 DEF Requests, SameTables, SameFlags, SameAnswer
<1> HIDE DEF a
<1>7. /\ q \in Requests(n) /\ SameTables(a, q) /\ SameFlags(a, q) /\ SameAnswer(a, q) /\ q.adm = a.adm /\ q.s = a.s
      /\ q.api = a.api /\ q.needs = a.needs /\ q.raw = a.raw /\ q.parsed = a.parsed /\ q.est = a.est /\ q.at = a.at
      /\ q.phase = "target"
  BY <1>2, <1>6 DEF Requests, SameTables, SameFlags, SameAnswer
<1> HIDE DEF q
<1>8. SameTables(r, q) /\ SameFlags(r, q) /\ SameAnswer(r, q) /\ q.at = 1 /\ q.adm = "open" /\ q.api = r.api
  BY <1>5, <1>6, <1>7 DEF SameTables, SameFlags, SameAnswer
<1>9. \A i \in 1..n : Untried(q, i)
  BY <1>3, <1>8 DEF Untried, SameTables
<1>10. Live(n, q)
  <2>1. \A i \in 1..n : ~(i < q.at)
    BY <1>8
  <2>2. q.bookedOn \subseteq {"open"} /\ ~q.panicked /\ q.pinned \subseteq {q.at}
    BY <1>1, <1>8 DEF SameFlags
  <2> QED
    BY <1>7, <1>9, <2>1, <2>2 DEF Live
<1>11. Untried(q, q.at) /\ q.at > 0
  <2>1. 1 \in 1..n
    OBVIOUS
  <2> QED
    BY <1>8, <1>9, <2>1
<1>12. Silent(q) /\ q.s = NoStream /\ Masked(q)
  BY <1>1, <1>5, <1>6, <1>7, <1>8 DEF Silent, Masked, SameAnswer, SameFlags
<1> QED
  BY <1>4, <1>7, <1>8, <1>10, <1>11, <1>12 DEF AtTarget, Waiting

LEMMA StartedWaits ==
  ASSUME NEW n \in Nat, NEW r, AtTarget(n, r)
  PROVE  AtTarget(n, Started(r))
<1> DEFINE q == Started(r)
           e == [event |-> "started", status |-> "none", partial |-> FALSE]
<1>1. /\ Waiting(n, r) /\ Live(n, r) /\ r \in Requests(n) /\ r.at > 0 /\ r.trail \in Seq(Records)
  BY Fields DEF AtTarget, Waiting
<1>2. /\ Live(n, q) /\ Kept(r, q) /\ SameMoney(r, q) /\ SameAnswer(r, q) /\ SameVerdict(r, q)
      /\ SameStream(r, q) /\ q.att[r.at] = r.att[r.at]
  BY <1>1, StartedKeeps
<1> HIDE DEF q
<1>3. Untried(q, q.at) /\ Silent(q) /\ Masked(q) /\ q.at > 0 /\ q.s = NoStream
  BY <1>1, <1>2 DEF Waiting, Untried, Silent, Masked, Kept, SameMoney, SameAnswer, SameVerdict, SameStream
<1> QED
  BY <1>2, <1>3 DEF AtTarget, Waiting, Kept, SameMoney, SameStream, q

LEMMA AdmitMoves ==
  ASSUME NEW n \in Nat, AtAdmit(n, rq), AdmitStep
  PROVE  AtTarget(n, rq') \/ AtEnd(n, rq')
<1> DEFINE e == Estimated(rq)
<1>1. /\ n > 0 /\ Fresh(n, rq) /\ rq \in Requests(n) /\ rq.api \in Apis /\ rq.parsed = rq.raw
      /\ rq.raw \subseteq Masks /\ rq.needs \subseteq rq.raw
  BY DEF AtAdmit, Fresh, Live, Requests
<1>2. e \in Requests(n) /\ BodyOnly(rq, e) /\ e.raw = rq.raw /\ e.parsed = rq.parsed /\ e.est = rq.raw
  BY <1>1 DEF Estimated, Requests, BodyOnly, SameTables, SameFlags, SameAnswer
<1> HIDE DEF e
<1>3. Fresh(n, e) /\ e.needs = rq.needs /\ Masked(e)
  <2>1. Fresh(n, e)
    BY <1>1, <1>2, BodyKeeps
  <2> QED
    BY <1>1, <1>2, <2>1 DEF BodyOnly, Masked
<1>4. AtTarget(n, Admit(e)) /\ AtTarget(n, Started(Admit(e)))
  BY <1>1, <1>3, AdmitOpens, StartedWaits
<1>5. ASSUME NEW q \in AdmitRefusals(e) PROVE AtEnd(n, q)
  <2>1. PICK status \in {"invalid", "payment", "busy"} : q = Refuse(e, status, TRUE)
    BY DEF AdmitRefusals
  <2>2. status \in Statuses
    BY DEF Statuses
  <2> QED
    BY <1>3, <2>1, <2>2, QuietRefusal
<1>6. rq' = Admit(e) \/ rq' = Started(Admit(e)) \/ rq' \in AdmitRefusals(e)
  BY <1>1 DEF AdmitStep, AdmitsOf, MessagesAdmits, ChatAdmits, InvokeAdmits, ResponsesAdmits, Apis, e
<1> QED
  BY <1>4, <1>5, <1>6

-----------------------------------------------------------------------------
(* The steps around an attempt. *)

LEMMA TargetOfStep ==
  ASSUME NEW n \in Nat, AtTarget(n, rq), NEW r \in TargetOf(rq)
  PROVE  \/ AtEnd(n, r) /\ r.phase = "done"
         \/ Waiting(n, r) /\ r.phase = "target" /\ r.adm = "open"
<1>1. /\ Waiting(n, rq) /\ Live(n, rq) /\ rq \in Requests(n) /\ rq.api \in Apis /\ rq.phase = "target"
      /\ (rq.at = 1 \/ rq.api # "responses" => rq.adm = "open")
  BY DEF AtTarget, Waiting, Live, Requests
<1>2. \A status \in {"invalid", "payment", "busy"} :
        AtEnd(n, Refuse(rq, status, TRUE)) /\ Refuse(rq, status, TRUE).phase = "done"
  <2>1. "invalid" \in Statuses /\ "payment" \in Statuses /\ "busy" \in Statuses
    BY DEF Statuses
  <2> QED
    BY <1>1, <2>1, QuietRefusal
<1> DEFINE o == [rq EXCEPT !.adm = "open"]
<1>3. Waiting(n, o) /\ o.phase = "target" /\ o.adm = "open"
  <2>1. /\ o \in Requests(n) /\ Kept(rq, o) /\ SameTables(rq, o) /\ SameFlags(rq, o) /\ SameAnswer(rq, o)
        /\ o.s = rq.s /\ o.phase = rq.phase /\ o.adm = "open"
    BY <1>1 DEF Requests, Admissions, Kept, SameTables, SameFlags, SameAnswer
  <2> HIDE DEF o
  <2>2. Live(n, o)
    BY <1>1, <2>1, StillLive DEF Live, Kept, SameTables, SameFlags
  <2>3. Untried(o, o.at) /\ Silent(o) /\ Masked(o) /\ o.at > 0 /\ o.s = NoStream
    BY <1>1, <2>1 DEF Waiting, Untried, Silent, Masked, Kept, SameTables, SameFlags, SameAnswer
  <2> QED
    BY <1>1, <2>1, <2>2, <2>3 DEF Waiting
<1> HIDE DEF o
<1>4. CASE rq.api = "responses"
  <2>1. \/ r \in {Refuse(rq, "payment", TRUE), Refuse(rq, "invalid", TRUE), Refuse(rq, "busy", TRUE), o}
        \/ r = rq /\ rq.at = 1
    BY <1>4 DEF TargetOf, ResponsesTarget, o
  <2> QED
    BY <1>1, <1>2, <1>3, <2>1
<1>5. CASE rq.api # "responses"
  <2>1. r = rq \/ r = Refuse(rq, "invalid", TRUE)
    BY <1>1, <1>5 DEF TargetOf, MessagesTarget, ChatTarget, InvokeTarget, Apis
  <2> QED
    BY <1>1, <1>2, <1>5, <2>1
<1> QED
  BY <1>4, <1>5

LEMMA TargetMoves ==
  ASSUME NEW n \in Nat, AtTarget(n, rq), TargetStep
  PROVE  AtReserve(n, rq') \/ AtEnd(n, rq')
<1>1. PICK r \in TargetOf(rq) : rq' = IF r.phase = "done" THEN r ELSE [r EXCEPT !.phase = "reserve"]
  BY DEF TargetStep
<1>2. CASE AtEnd(n, r) /\ r.phase = "done"
  BY <1>1, <1>2
<1>3. CASE Waiting(n, r) /\ r.phase = "target" /\ r.adm = "open"
  <2> DEFINE q == [r EXCEPT !.phase = "reserve"]
  <2>1. "reserve" \in Phases /\ Live(n, r)
    BY <1>3 DEF Phases, Waiting
  <2>2. /\ Live(n, q) /\ Kept(r, q) /\ SameMoney(r, q) /\ SameAnswer(r, q) /\ SameEvidence(r, q)
        /\ SameVerdict(r, q) /\ q.s = r.s /\ q.phase = "reserve"
    BY <2>1, PhaseKeeps
  <2>3. rq' = q
    BY <1>1, <1>3
  <2> HIDE DEF q
  <2>4. Untried(q, q.at) /\ Silent(q) /\ Masked(q) /\ q.at > 0 /\ q.s = NoStream /\ q.adm = "open"
    BY <1>3, <2>2 DEF Waiting, Untried, Silent, Masked, Kept, SameMoney, SameEvidence, SameAnswer, SameVerdict
  <2> QED
    BY <2>2, <2>3, <2>4 DEF AtReserve, Waiting
<1> QED
  BY <1>2, <1>3, TargetOfStep

\* Money is held and the attempt's evidence begun.
LEMMA HeldKeeps ==
  ASSUME NEW n \in Nat, NEW r, AtReserve(n, r)
  PROVE  LET q == [r EXCEPT !.hold[r.at] = "held", !.phase = "call"]
         IN /\ Live(n, q) /\ Kept(r, q) /\ SameAnswer(r, q) /\ SameVerdict(r, q) /\ SameEvidence(r, q)
            /\ q.s = r.s /\ q.phase = "call" /\ q.booked[r.at] = r.booked[r.at] /\ q.adm = r.adm
            /\ q.hold[r.at] = "held"
<1> DEFINE h == [r.hold EXCEPT ![r.at] = "held"]
           p == [r EXCEPT !.hold = h]
           q == [p EXCEPT !.phase = "call"]
<1>1. Live(n, r) /\ r \in Requests(n) /\ r.at \in 1..n /\ r.hold \in [1..n -> Holds] /\ "call" \in Phases
  BY Fields DEF AtReserve, Waiting, Phases
<1>2. [r EXCEPT !.hold[r.at] = "held", !.phase = "call"] = q
  BY <1>1 DEF Requests
<1>3. h \in [1..n -> Holds] /\ h[r.at] = "held" /\ \A i \in 1..n : i # r.at => h[i] = r.hold[i]
  BY <1>1 DEF Holds
<1> HIDE DEF h
<1>4. p \in Requests(n)
  BY <1>1, <1>3 DEF Requests
<1>5. /\ Kept(r, p) /\ SameFlags(r, p) /\ SameAnswer(r, p) /\ SameVerdict(r, p) /\ SameEvidence(r, p)
      /\ p.s = r.s /\ p.adm = r.adm /\ p.hold = h /\ p.booked = r.booked /\ p.att = r.att /\ p.verdicts = r.verdicts
  BY <1>1 DEF Requests, Kept, SameFlags, SameAnswer, SameVerdict, SameEvidence
<1> HIDE DEF p
<1>6. Live(n, p) /\ p.at = r.at
  BY <1>1, <1>3, <1>4, <1>5, StillLive, SMTT(30) DEF Live, Kept, SameFlags
<1>7. /\ Live(n, q) /\ Kept(p, q) /\ SameMoney(p, q) /\ SameAnswer(p, q) /\ SameEvidence(p, q)
      /\ SameVerdict(p, q) /\ q.s = p.s /\ q.phase = "call"
  BY <1>1, <1>6, PhaseKeeps
<1> HIDE DEF q
<1> QED
  BY <1>2, <1>3, <1>5, <1>6, <1>7, ZenonT(60) DEF Kept, SameMoney, SameAnswer, SameEvidence, SameVerdict

LEMMA BeginAttemptKeeps ==
  ASSUME NEW n \in Nat, NEW r, Live(n, r), r.at > 0
  PROVE  LET q == BeginAttempt(r)
         IN /\ Live(n, q) /\ Kept(r, q) /\ SameAnswer(r, q) /\ SameVerdict(r, q) /\ SameMoney(r, q)
            /\ SameStream(r, q) /\ q.att[r.at] = "open"
<1> DEFINE a == [r.att EXCEPT ![r.at] = "open"]
           q == [r EXCEPT !.att = a]
<1>1. r \in Requests(n) /\ r.at \in 1..n /\ r.att \in [1..n -> AttemptStatuses]
  BY Fields
<1>2. BeginAttempt(r) = q
  BY <1>1 DEF BeginAttempt, Requests
<1>3. a \in [1..n -> AttemptStatuses] /\ a[r.at] = "open" /\ \A i \in 1..n : i # r.at => a[i] = r.att[i]
  BY <1>1 DEF AttemptStatuses
<1> HIDE DEF a
<1>4. q \in Requests(n)
  BY <1>1, <1>3 DEF Requests
<1>5. /\ Kept(r, q) /\ SameFlags(r, q) /\ SameAnswer(r, q) /\ SameVerdict(r, q) /\ SameMoney(r, q) /\ SameStream(r, q)
      /\ q.hold = r.hold /\ q.booked = r.booked /\ q.att = a /\ q.verdicts = r.verdicts
  BY <1>1 DEF Requests, Kept, SameFlags, SameAnswer, SameVerdict, SameMoney, SameStream
<1> HIDE DEF q
<1>6. Live(n, q)
  BY <1>3, <1>4, <1>5, StillLive DEF Live, Kept, SameFlags
<1> QED
  BY <1>2, <1>3, <1>5, <1>6

LEMMA ReserveMoves ==
  ASSUME NEW n \in Nat, AtReserve(n, rq), ReserveStep
  PROVE  AtCall(n, rq') \/ AtEnd(n, rq')
<1>1. CASE rq' = NotReserved(rq)
  <2>1. "payment" \in Statuses /\ Waiting(n, rq)
    BY DEF Statuses, AtReserve
  <2> QED
    BY <1>1, <2>1, QuietRefusal DEF NotReserved
<1>2. CASE rq' = Reserved(rq)
  <2> DEFINE h == [rq EXCEPT !.hold[rq.at] = "held", !.phase = "call"]
             t == IF rq.api = "responses" THEN Started(h) ELSE h
             q == BeginAttempt(t)
  <2>1. /\ Waiting(n, rq) /\ rq.at > 0 /\ rq.adm = "open" /\ rq.booked[rq.at] = 0 /\ rq.verdicts[rq.at] = << >>
        /\ Masked(rq) /\ Silent(rq) /\ rq.s = NoStream
    BY DEF AtReserve, Waiting, Untried
  <2>2. rq' = q
    BY <1>2 DEF Reserved
  <2>3. /\ Live(n, h) /\ Kept(rq, h) /\ SameAnswer(rq, h) /\ SameVerdict(rq, h)
        /\ h.s = rq.s /\ h.phase = "call" /\ h.booked[rq.at] = rq.booked[rq.at] /\ h.adm = rq.adm
        /\ h.hold[rq.at] = "held"
    BY HeldKeeps
  <2> HIDE DEF h
  <2>4. /\ Live(n, t) /\ Kept(h, t) /\ SameMoney(h, t) /\ SameAnswer(h, t) /\ SameVerdict(h, t) /\ SameStream(h, t)
    <3>1. /\ Live(n, Started(h)) /\ Kept(h, Started(h)) /\ SameMoney(h, Started(h)) /\ SameAnswer(h, Started(h))
          /\ SameVerdict(h, Started(h)) /\ SameStream(h, Started(h))
      BY <2>3, StartedKeeps
    <3>2. Kept(h, h) /\ SameMoney(h, h) /\ SameAnswer(h, h) /\ SameVerdict(h, h) /\ SameStream(h, h)
      BY DEF Kept, SameMoney, SameAnswer, SameVerdict, SameStream
    <3>3. t = Started(h) \/ t = h
      OBVIOUS
    <3> HIDE DEF t
    <3> QED
      BY <2>3, <3>1, <3>2, <3>3
  <2> HIDE DEF t
  <2>5. t.at > 0
    BY <2>1, <2>3, <2>4 DEF Kept
  <2>6. /\ Live(n, q) /\ Kept(t, q) /\ SameAnswer(t, q) /\ SameVerdict(t, q) /\ SameMoney(t, q)
        /\ SameStream(t, q) /\ q.att[t.at] = "open"
    BY <2>4, <2>5, BeginAttemptKeeps
  <2> HIDE DEF q
  <2>7. q.at = rq.at /\ q.needs = rq.needs /\ q.raw = rq.raw /\ q.parsed = rq.parsed /\ q.est = rq.est
    BY <2>3, <2>4, <2>6 DEF Kept
  <2>8. q.att[q.at] = "open" /\ q.hold[q.at] = "held" /\ q.booked[q.at] = 0 /\ q.adm = "open"
    BY <2>1, <2>3, <2>4, <2>6, <2>7 DEF SameMoney, Kept
  <2>9. q.verdicts[q.at] = << >> /\ Silent(q) /\ q.s = NoStream /\ q.phase = "call"
    BY <2>1, <2>3, <2>4, <2>6, <2>7 DEF SameVerdict, SameAnswer, SameStream, Silent, Kept
  <2>10. Calling(n, q)
    BY <2>1, <2>6, <2>7, <2>8, <2>9 DEF Calling, Masked, Silent
  <2> QED
    BY <2>2, <2>9, <2>10 DEF AtCall
<1> QED
  BY <1>1, <1>2 DEF ReserveStep

LEMMA CallMoves ==
  ASSUME NEW n \in Nat, AtCall(n, rq), CallStep
  PROVE  AtTarget(n, rq') \/ AtStream(n, rq') \/ AtEnd(n, rq')
<1>1. ASSUME NEW err \in Errors, rq' = FailedCall(rq, err)
      PROVE  AtTarget(n, rq') \/ AtEnd(n, rq')
  BY <1>1, FailedCallStep
<1>2. ASSUME ~rq.stream, NEW code \in Codes, NEW usage \in BOOLEAN, NEW fits \in BOOLEAN, NEW taken \in BOOLEAN,
             rq' = AnsweredCall(rq, [code |-> code, usage |-> usage, fits |-> fits, taken |-> taken])
      PROVE  AtTarget(n, rq') \/ AtEnd(n, rq')
  <2>1. PICK ans : ans = [code |-> code, usage |-> usage, fits |-> fits, taken |-> taken]
    OBVIOUS
  <2>2. ans \in Answers
    BY <2>1 DEF Answers
  <2> QED
    BY <1>2, <2>1, <2>2, AnsweredStep
<1>3. CASE rq' = OpenStream(rq)
  BY <1>3, OpenStreamStep
<1>4. CASE rq' = NoFlusher(rq)
  BY <1>4, NoFlusherStep
<1> QED
  BY <1>1, <1>2, <1>3, <1>4 DEF CallStep

LEMMA StreamMoves ==
  ASSUME NEW n \in Nat, AtStream(n, rq), StreamStep \/ StreamEndStep
  PROVE  AtTarget(n, rq') \/ AtStream(n, rq') \/ AtEnd(n, rq')
<1>1. CASE StreamStep
  <2>1. PICK ev \in {"delta", "usage", "stop", "error"}, fits \in BOOLEAN, taken \in BOOLEAN :
          rq' = StreamEventOf(rq, ev, fits, taken)
    BY <1>1 DEF StreamStep
  <2> QED
    BY <2>1, StreamStepKeeps
<1>2. CASE StreamEndStep
  <2>1. CASE rq' = StreamEndOf(rq)
    <3>1. PICK cause \in {"transport", "deadline", "validation", "broken", "recovery"} : cause = "transport"
      OBVIOUS
    <3> QED
      BY <2>1, <3>1, StreamEndStepKeeps
  <2>2. ASSUME NEW cause \in {"transport", "deadline", "validation", "broken", "recovery"}, rq' = StreamBroken(rq, cause)
        PROVE  AtTarget(n, rq') \/ AtEnd(n, rq')
    BY <2>2, StreamEndStepKeeps
  <2> QED
    BY <1>2, <2>1, <2>2 DEF StreamEndStep
<1> QED
  BY <1>1, <1>2

\* The client's leaving shows in its context only.
LEMMA LeavingKeeps ==
  ASSUME NEW n \in Nat, NEW r, Live(n, r)
  PROVE  LET q == [r EXCEPT !.gone = TRUE]
         IN /\ Live(n, q) /\ BodyOnly(r, q) /\ q.raw = r.raw /\ q.parsed = r.parsed /\ q.est = r.est
<1> DEFINE q == [r EXCEPT !.gone = TRUE]
<1>1. r \in Requests(n)
  BY DEF Live
<1>2. q \in Requests(n)
  BY <1>1 DEF Requests
<1>3. BodyOnly(r, q) /\ q.raw = r.raw /\ q.parsed = r.parsed /\ q.est = r.est
  BY <1>1 DEF Requests, BodyOnly, SameTables, SameFlags, SameAnswer
<1> HIDE DEF q
<1>4. Live(n, q)
  BY <1>2, <1>3, StillLive DEF Live, BodyOnly, SameTables, SameFlags
<1> QED
  BY <1>3, <1>4 DEF q

Between(n, r) == AtMask(n, r) \/ AtAdmit(n, r) \/ AtTarget(n, r) \/ AtReserve(n, r) \/ AtCall(n, r) \/ AtStream(n, r)

LEMMA LeavesMoves ==
  ASSUME NEW n \in Nat, Between(n, rq), ClientLeaves
  PROVE  Between(n, rq')
<1> DEFINE q == [rq EXCEPT !.gone = TRUE]
<1>1. Live(n, rq)
  BY DEF Between, AtMask, AtAdmit, AtTarget, AtReserve, AtCall, AtStream, Fresh, Waiting, Calling
<1>2. /\ Live(n, q) /\ BodyOnly(rq, q) /\ q.raw = rq.raw /\ q.parsed = rq.parsed /\ q.est = rq.est
  BY <1>1, LeavingKeeps
<1>3. rq' = q
  BY DEF ClientLeaves
<1> HIDE DEF q
<1>4. /\ q.needs = rq.needs /\ q.at = rq.at /\ q.phase = rq.phase /\ q.s = rq.s /\ q.adm = rq.adm /\ q.trail = rq.trail
      /\ q.api = rq.api /\ q.hold = rq.hold /\ q.booked = rq.booked /\ q.att = rq.att /\ q.verdicts = rq.verdicts
      /\ q.lines = rq.lines /\ q.from = rq.from /\ q.pinned = rq.pinned
  BY <1>2 DEF BodyOnly, SameTables, SameFlags, SameAnswer
<1>5. Fresh(n, rq) => Fresh(n, q)
  BY <1>2, <1>4 DEF Fresh, Silent
<1>6. Waiting(n, rq) => Waiting(n, q)
  BY <1>2, <1>4 DEF Waiting, Silent, Masked, Untried
<1>7. Calling(n, rq) => Calling(n, q)
  BY <1>2, <1>4 DEF Calling, Masked
<1>8. AtMask(n, rq) => AtMask(n, q)
  BY <1>2, <1>4, <1>5 DEF AtMask
<1>9. AtAdmit(n, rq) => AtAdmit(n, q)
  BY <1>2, <1>4, <1>5 DEF AtAdmit
<1>10. AtTarget(n, rq) => AtTarget(n, q)
  BY <1>4, <1>6 DEF AtTarget
<1>11. AtReserve(n, rq) => AtReserve(n, q)
  BY <1>4, <1>6 DEF AtReserve
<1>12. AtCall(n, rq) => AtCall(n, q)
  BY <1>4, <1>7 DEF AtCall, Silent
<1>13. AtStream(n, rq) => AtStream(n, q)
  BY <1>4, <1>7 DEF AtStream
<1> QED
  BY <1>3, <1>8, <1>9, <1>10, <1>11, <1>12, <1>13 DEF Between

\* A panic runs the deferred calls and writes nothing.
LEMMA PanicMoves ==
  ASSUME NEW n \in Nat, AtCall(n, rq) \/ AtStream(n, rq), ProviderPanics
  PROVE  AtEnd(n, rq')
<1> DEFINE p == Return(rq)
           q == [p EXCEPT !.panicked = TRUE]
<1>1. Calling(n, rq) /\ Live(n, rq) /\ rq.at \in 1..n /\ Len(rq.lines) <= 1 /\ Len(rq.verdicts[rq.at]) <= 1
  <2>1. Calling(n, rq) /\ Live(n, rq) /\ rq.at \in 1..n
    BY Fields DEF AtCall, AtStream, Calling
  <2>2. rq.lines = << >> \/ rq.lines = <<"ok">>
    BY DEF AtCall, AtStream, Silent
  <2>3. rq.verdicts[rq.at] = << >> \/ rq.verdicts[rq.at] = <<"ok">>
    BY DEF AtCall, AtStream
  <2>4. Len(<< >>) <= 1 /\ Len(<<"ok">>) <= 1
    OBVIOUS
  <2> QED
    BY <2>1, <2>2, <2>3, <2>4
<1>2. /\ p \in Requests(n) /\ Kept(rq, p) /\ SameAnswer(rq, p) /\ SameFlags(rq, p)
      /\ p.booked = rq.booked /\ p.att = rq.att /\ p.verdicts = rq.verdicts
      /\ p.phase = "done" /\ p.adm = (IF rq.adm = "open" THEN "closed" ELSE rq.adm)
      /\ p.hold = [i \in 1..n |-> IF rq.hold[i] = "held" THEN "retained" ELSE rq.hold[i]]
  BY <1>1, ReturnFields
<1> HIDE DEF p
<1>3. /\ q \in Requests(n) /\ q.booked = p.booked /\ q.att = p.att /\ q.verdicts = p.verdicts /\ q.hold = p.hold
      /\ q.adm = p.adm /\ q.lines = p.lines /\ q.bookedOn = p.bookedOn /\ q.phase = p.phase /\ q.at = p.at
      /\ q.pinned = p.pinned /\ q.panicked
  BY <1>2 DEF Requests
<1>4. rq' = q
  BY DEF ProviderPanics, p
<1> HIDE DEF q
<1>5. q.adm # "open" /\ q.bookedOn \subseteq {"open"} /\ Len(q.lines) <= 1 /\ q.phase = "done" /\ q.at = rq.at /\ q.pinned = {}
  BY <1>1, <1>2, <1>3 DEF SameAnswer, SameFlags, Live, Kept, Calling
<1>6. ASSUME NEW i \in 1..n
      PROVE  /\ q.hold[i] # "held" /\ q.booked[i] <= 1 /\ Len(q.verdicts[i]) <= 1
             /\ i < q.at => GivenUp(q, i)
             /\ q.hold[i] # "exact"
  <2>1. q.hold[i] = (IF rq.hold[i] = "held" THEN "retained" ELSE rq.hold[i])
    BY <1>2, <1>3
  <2>2. CASE i < rq.at
    <3>1. GivenUp(rq, i)
      BY <1>1, <2>2 DEF Live
    <3>2. GivenUp(q, i) /\ q.hold[i] = "retained"
      BY <1>2, <1>3, <2>1, <3>1 DEF GivenUp
    <3>3. Len(q.verdicts[i]) <= 1 /\ q.booked[i] <= 1
      BY <3>2 DEF GivenUp
    <3> QED
      BY <3>2, <3>3
  <2>3. CASE i > rq.at
    <3>1. Untried(rq, i)
      BY <1>1, <2>3 DEF Live
    <3>2. q.hold[i] = "none" /\ q.booked[i] = 0 /\ q.verdicts[i] = << >>
      BY <1>2, <1>3, <2>1, <3>1 DEF Untried
    <3>3. ~(i < q.at)
      BY <1>1, <1>5, <2>3
    <3> QED
      BY <3>2, <3>3
  <2>4. CASE i = rq.at
    <3>1. q.hold[i] = "retained" /\ q.booked[i] = 0
      BY <1>1, <1>2, <1>3, <2>1, <2>4 DEF Calling
    <3>2. ~(i < q.at) /\ Len(q.verdicts[i]) <= 1
      BY <1>1, <1>2, <1>3, <1>5, <2>4
    <3> QED
      BY <3>1, <3>2
  <2> QED
    BY <1>1, <2>2, <2>3, <2>4
<1> QED
  BY <1>3, <1>4, <1>5, <1>6 DEF AtEnd

-----------------------------------------------------------------------------
(* The invariant: the request is in one of its phases. *)

InPhase(n, r) == AtStart(n, r) \/ Between(n, r) \/ AtEnd(n, r)
ServingInv == \E n \in Nat : InPhase(n, rq)

LEMMA ServingStarts == InitServing => ServingInv
<1> SUFFICES ASSUME InitServing PROVE AtStart(0, rq)
  BY DEF ServingInv, InPhase
<1>1. PICK api \in Ingresses, stream \in BOOLEAN, native \in BOOLEAN, needs \in SUBSET Masks :
        rq = [api |-> api, stream |-> stream, native |-> native, needs |-> needs,
              chain |-> << >>, phase |-> "gates", at |-> 0, gone |-> FALSE,
              raw |-> {}, parsed |-> {}, est |-> {}, adm |-> "none",
              hold |-> << >>, booked |-> << >>, bookedOn |-> {}, att |-> << >>,
              verdicts |-> << >>, pinned |-> {}, lines |-> << >>, from |-> {},
              trail |-> << >>, s |-> NoStream, panicked |-> FALSE]
  BY ZenonT(60) DEF InitServing
<1>2. /\ << >> \in [1..0 -> Holds] /\ << >> \in [1..0 -> Nat] /\ << >> \in [1..0 -> AttemptStatuses]
      /\ << >> \in [1..0 -> Seq(Verdicts)]
  OBVIOUS
<1>3. /\ api \in Apis /\ "gates" \in Phases /\ "none" \in Admissions /\ 0 \in 0..0
  BY ServingAssumption DEF Apis, Phases, Admissions
<1>4. NoStream \in Streams
  BY DEF NoStream, Streams
<1>5. << >> \in {c \in Chains \cup {<< >>} : Len(c) = 0} /\ << >> \in Seq(Statuses) /\ << >> \in Seq(Records)
  OBVIOUS
<1>6. rq \in Requests(0)
  <2> DEFINE e == << >>
  <2>1. /\ e \in [1..0 -> Holds] /\ e \in [1..0 -> Nat] /\ e \in [1..0 -> AttemptStatuses]
        /\ e \in [1..0 -> Seq(Verdicts)]
        /\ e \in {c \in Chains \cup {<< >>} : Len(c) = 0} /\ e \in Seq(Statuses) /\ e \in Seq(Records)
    BY <1>2, <1>5
  <2>2. rq = [api |-> api, stream |-> stream, native |-> native, needs |-> needs,
              chain |-> e, phase |-> "gates", at |-> 0, gone |-> FALSE,
              raw |-> {}, parsed |-> {}, est |-> {}, adm |-> "none",
              hold |-> e, booked |-> e, bookedOn |-> {}, att |-> e,
              verdicts |-> e, pinned |-> {}, lines |-> e, from |-> {},
              trail |-> e, s |-> NoStream, panicked |-> FALSE]
    BY <1>1
  <2> HIDE DEF e
  <2> QED
    BY <1>3, <1>4, <2>1, <2>2 DEF Requests
<1>7. /\ rq.at = 0 /\ rq.bookedOn = {} /\ rq.panicked = FALSE /\ rq.pinned = {} /\ rq.lines = << >> /\ rq.from = {}
      /\ rq.trail = << >> /\ rq.s = NoStream /\ rq.adm = "none" /\ rq.phase = "gates" /\ rq.raw = {} /\ rq.parsed = {}
  BY <1>1
<1>8. Live(0, rq)
  <2>1. \A i \in 1..0 : FALSE
    OBVIOUS
  <2> QED
    BY <1>6, <1>7, <2>1 DEF Live
<1> QED
  BY <1>7, <1>8 DEF AtStart, Fresh, Silent

\* Which phase a request is in, from its phase field.
LEMMA PhaseTells ==
  ASSUME NEW n \in Nat, NEW r, InPhase(n, r)
  PROVE  /\ r.phase \in {"gates", "route"} => AtStart(n, r)
         /\ r.phase = "mask" => AtMask(n, r)
         /\ r.phase = "admit" => AtAdmit(n, r)
         /\ r.phase = "target" => AtTarget(n, r)
         /\ r.phase = "reserve" => AtReserve(n, r)
         /\ r.phase = "call" => AtCall(n, r)
         /\ r.phase = "streaming" => AtStream(n, r)
         /\ r.phase \notin {"gates", "route", "done"} => Between(n, r)
BY DEF InPhase, Between, AtStart, AtMask, AtAdmit, AtTarget, AtReserve, AtCall, AtStream, AtEnd

LEMMA ServingSteps == ServingInv /\ [NextServing]_rq => ServingInv'
<1> SUFFICES ASSUME ServingInv, [NextServing]_rq PROVE \E n \in Nat : InPhase(n, rq')
  BY DEF ServingInv
<1>1. PICK n \in Nat : InPhase(n, rq)
  BY DEF ServingInv
<1>2. CASE PassGates
  <2>1. AtStart(n, rq)
    BY <1>1, <1>2, PhaseTells DEF PassGates
  <2> QED
    BY <1>2, <2>1, GateMoves DEF InPhase
<1>3. CASE RouteStep
  <2>1. AtStart(n, rq)
    BY <1>1, <1>3, PhaseTells DEF RouteStep
  <2> QED
    BY <1>3, <2>1, RouteMoves DEF InPhase, Between
<1>4. CASE MaskStep
  <2>1. AtMask(n, rq)
    BY <1>1, <1>4, PhaseTells DEF MaskStep
  <2> QED
    BY <1>4, <2>1, MaskMoves DEF InPhase, Between
<1>5. CASE AdmitStep
  <2>1. AtAdmit(n, rq)
    BY <1>1, <1>5, PhaseTells DEF AdmitStep
  <2> QED
    BY <1>5, <2>1, AdmitMoves DEF InPhase, Between
<1>6. CASE TargetStep
  <2>1. AtTarget(n, rq)
    BY <1>1, <1>6, PhaseTells DEF TargetStep
  <2> QED
    BY <1>6, <2>1, TargetMoves DEF InPhase, Between
<1>7. CASE ReserveStep
  <2>1. AtReserve(n, rq)
    BY <1>1, <1>7, PhaseTells DEF ReserveStep
  <2> QED
    BY <1>7, <2>1, ReserveMoves DEF InPhase, Between
<1>8. CASE CallStep
  <2>1. AtCall(n, rq)
    BY <1>1, <1>8, PhaseTells DEF CallStep
  <2> QED
    BY <1>8, <2>1, CallMoves DEF InPhase, Between
<1>9. CASE StreamStep \/ StreamEndStep
  <2>1. AtStream(n, rq)
    BY <1>1, <1>9, PhaseTells DEF StreamStep, StreamEndStep
  <2> QED
    BY <1>9, <2>1, StreamMoves DEF InPhase, Between
<1>10. CASE ClientLeaves
  <2>1. Between(n, rq)
    BY <1>1, <1>10, PhaseTells DEF ClientLeaves
  <2> QED
    BY <1>10, <2>1, LeavesMoves DEF InPhase
<1>11. CASE ProviderPanics
  <2>1. AtCall(n, rq) \/ AtStream(n, rq)
    BY <1>1, <1>11, PhaseTells DEF ProviderPanics
  <2> QED
    BY <1>11, <2>1, PanicMoves DEF InPhase
<1>12. CASE UNCHANGED rq
  BY <1>1, <1>12
<1> QED
  BY <1>2, <1>3, <1>4, <1>5, <1>6, <1>7, <1>8, <1>9, <1>10, <1>11, <1>12 DEF NextServing

LEMMA ServingInvHolds == ServingSpec => []ServingInv
BY ServingStarts, ServingSteps, PTL DEF ServingSpec

-----------------------------------------------------------------------------
(* What the phases say of a request. *)

\* While it runs, and at its end.
Running(n, r) ==
  /\ Live(n, r) /\ r.pinned = {} /\ r.phase # "done"
  /\ r.lines = << >> \/ (r.lines = <<"ok">> /\ r.from = {r.at})
  /\ r.at > 0 => r.booked[r.at] = 0 /\ r.hold[r.at] # "exact" /\ r.verdicts[r.at] \in {<< >>, <<"ok">>}
  /\ r.phase \in {"reserve", "call", "streaming"} => r.adm = "open"
  /\ r.phase \in {"target", "reserve", "call", "streaming"} => Masked(r)

LEMMA RunsOrEnded ==
  ASSUME NEW n \in Nat, NEW r, InPhase(n, r)
  PROVE  Running(n, r) \/ AtEnd(n, r)
<1>1. ASSUME Fresh(n, r), r.phase \notin {"target", "reserve", "call", "streaming", "done"}
      PROVE  Running(n, r)
  BY <1>1 DEF Running, Fresh, Silent
<1>2. ASSUME Waiting(n, r), r.phase = "target" \/ (r.phase = "reserve" /\ r.adm = "open")
      PROVE  Running(n, r)
  BY <1>2 DEF Running, Waiting, Silent, Untried
<1>3. ASSUME AtCall(n, r)
      PROVE  Running(n, r)
  BY <1>3 DEF Running, AtCall, Calling, Silent
<1>4. ASSUME AtStream(n, r)
      PROVE  Running(n, r)
  BY <1>4 DEF Running, AtStream, Calling
<1> QED
  BY <1>1, <1>2, <1>3, <1>4 DEF InPhase, Between, AtStart, AtMask, AtAdmit, AtTarget, AtReserve

\* What holds of every target, running or ended.
LEMMA TargetFacts ==
  ASSUME NEW n \in Nat, NEW r, Running(n, r) \/ AtEnd(n, r), NEW i \in 1..n
  PROVE  /\ r.booked[i] <= 1 /\ Len(r.verdicts[i]) <= 1
         /\ i < r.at => GivenUp(r, i)
         /\ r.hold[i] = "exact" \/ i \in r.pinned => Whole(r, i)
<1>1. CASE AtEnd(n, r)
  BY <1>1 DEF AtEnd
<1>2. CASE Running(n, r)
  <2>1. Live(n, r) /\ r.at \in 0..n /\ i \notin r.pinned
    BY <1>2, Fields DEF Running
  <2>2. CASE i < r.at
    <3>1. GivenUp(r, i)
      BY <2>1, <2>2 DEF Live
    <3>2. r.booked[i] <= 1 /\ r.verdicts[i] = <<"failed">> /\ r.hold[i] = "retained"
      BY <3>1 DEF GivenUp
    <3>3. Len(<<"failed">>) <= 1
      OBVIOUS
    <3>4. Len(r.verdicts[i]) <= 1 /\ r.hold[i] # "exact"
      BY <3>2, <3>3
    <3> QED
      BY <2>1, <3>1, <3>2, <3>4
  <2>3. CASE i > r.at
    <3>1. r.booked[i] = 0 /\ r.verdicts[i] = << >> /\ r.hold[i] = "none"
      BY <2>1, <2>3 DEF Live, Untried
    <3>2. ~(i < r.at)
      BY <2>1, <2>3
    <3>3. r.booked[i] <= 1 /\ Len(r.verdicts[i]) <= 1 /\ r.hold[i] # "exact"
      BY <3>1
    <3> QED
      BY <2>1, <3>2, <3>3
  <2>4. CASE i = r.at
    <3>1. r.at > 0 /\ ~(i < r.at)
      BY <2>1, <2>4
    <3>2. r.booked[r.at] = 0 /\ r.hold[r.at] # "exact" /\ r.verdicts[r.at] \in {<< >>, <<"ok">>}
      BY <1>2, <3>1 DEF Running
    <3>3. Len(<< >>) <= 1 /\ Len(<<"ok">>) <= 1 /\ 0 <= 1
      OBVIOUS
    <3>4. r.booked[r.at] <= 1 /\ Len(r.verdicts[r.at]) <= 1
      BY <3>2, <3>3
    <3> QED
      BY <2>1, <2>4, <3>1, <3>2, <3>4
  <2> QED
    BY <2>1, <2>2, <2>3, <2>4
<1> QED
  BY <1>1, <1>2

LEMMA TypeFacts ==
  ASSUME NEW n \in Nat, NEW r, Running(n, r) \/ AtEnd(n, r)
  PROVE  /\ r \in Requests(n) /\ Targets(r) = 1..n /\ Len(r.lines) <= 1 /\ r.bookedOn \subseteq {"open"}
         /\ r.lines # << >> /\ r.phase # "done" => r.from = {r.at}
<1>1. r \in Requests(n) /\ r.bookedOn \subseteq {"open"}
  BY DEF Running, AtEnd, Live
<1>2. Len(r.chain) = n
  BY <1>1 DEF Requests
<1>3. Len(<< >>) <= 1 /\ Len(<<"ok">>) <= 1
  OBVIOUS
<1>4. Len(r.lines) <= 1
  BY <1>3 DEF Running, AtEnd
<1>5. r.lines # << >> /\ r.phase # "done" => r.from = {r.at}
  BY DEF Running, AtEnd
<1> QED
  BY <1>1, <1>2, <1>4, <1>5 DEF Targets

(* Whatever the chain, the ingress and the order of events: from the first dispatch on, the body    *)
(* that goes out carries every masking asked for and is the one that was estimated.                 *)
THEOREM EgressStaysMasked == ServingSpec => []EgressIsMasked
<1>1. ServingInv => EgressIsMasked
  <2> SUFFICES ASSUME ServingInv PROVE EgressIsMasked
    OBVIOUS
  <2>1. PICK n \in Nat : Running(n, rq) \/ AtEnd(n, rq)
    BY RunsOrEnded DEF ServingInv
  <2> QED
    BY <2>1 DEF Running, AtEnd, Masked, EgressIsMasked
<1> QED
  BY <1>1, ServingInvHolds, PTL

(* Whatever the chain: one status line, one verdict of the breaker per attempt, a failure for every *)
(* attempt that was given up, and a last audit record that says what the client saw.                *)
THEOREM AttemptsStayHonest == ServingSpec => []AttemptsAreHonest
<1>1. ServingInv => AttemptsAreHonest
  <2> SUFFICES ASSUME ServingInv PROVE AttemptsAreHonest
    OBVIOUS
  <2>1. PICK n \in Nat : Running(n, rq) \/ AtEnd(n, rq)
    BY RunsOrEnded DEF ServingInv
  <2>2. /\ rq \in Requests(n) /\ Targets(rq) = 1..n /\ Len(rq.lines) <= 1
        /\ rq.lines # << >> /\ rq.phase # "done" => rq.from = {rq.at}
    BY <2>1, TypeFacts
  <2>3. \A i \in 1..n : Len(rq.verdicts[i]) <= 1 /\ (i < rq.at => GivenUp(rq, i))
    BY <2>1, TargetFacts
  <2>4. ServingTypeOK
    <3>1. rq.hold \in [1..n -> Holds] /\ rq.att \in [1..n -> AttemptStatuses]
      BY <2>2 DEF Requests
    <3>2. \A i \in Targets(rq) : rq.hold[i] \in {"none", "held", "exact", "retained"} /\ rq.att[i] \in AttemptStatuses
      <4>1. \A i \in 1..n : rq.hold[i] \in Holds /\ rq.att[i] \in AttemptStatuses
        BY <3>1
      <4> QED
        BY <2>2, <4>1 DEF Holds
    <3>3. rq.phase \in Phases /\ rq.adm \in Admissions
      BY <2>2 DEF Requests
    <3>4. rq.raw \subseteq Masks /\ rq.parsed \subseteq Masks /\ rq.est \subseteq Masks
      BY <2>2 DEF Requests
    <3> QED
      BY <3>2, <3>3, <3>4 DEF ServingTypeOK, Phases, Admissions
  <2>5. OneAnswer
    BY <2>2 DEF OneAnswer
  <2>6. OneVerdict
    BY <2>2, <2>3 DEF OneVerdict, GivenUp
  <2>7. GivenUpAttemptsFail
    BY <2>2, <2>3 DEF GivenUpAttemptsFail, GivenUp, Failures
  <2>8. TrailTellsTheAnswer
    <3> SUFFICES ASSUME rq.phase = "done", ~rq.panicked, rq.trail # << >>
                 PROVE  /\ rq.trail[Len(rq.trail)].event # "started"
                        /\ rq.lines = <<rq.trail[Len(rq.trail)].status>>
                        /\ \A i \in 1..n : rq.att[i] # "open"
      BY <2>2 DEF TrailTellsTheAnswer
    <3>1. AtEnd(n, rq)
      BY <2>1 DEF Running
    <3> QED
      BY <3>1 DEF AtEnd, Told
  <2> QED
    BY <2>4, <2>5, <2>6, <2>7, <2>8 DEF AttemptsAreHonest
<1> QED
  BY <1>1, ServingInvHolds, PTL

(* Whatever the chain: a request that is over holds no money and no admission, books usage on an    *)
(* open admission at most once per attempt, and settles exactly only what it relayed whole.         *)
THEOREM MoneyStaysWithTheCall == ServingSpec => []MoneyFollowsTheCall
<1>1. ServingInv => MoneyFollowsTheCall
  <2> SUFFICES ASSUME ServingInv PROVE MoneyFollowsTheCall
    OBVIOUS
  <2>1. PICK n \in Nat : Running(n, rq) \/ AtEnd(n, rq)
    BY RunsOrEnded DEF ServingInv
  <2>2. Targets(rq) = 1..n /\ rq.bookedOn \subseteq {"open"}
    BY <2>1, TypeFacts
  <2>3. \A i \in 1..n : rq.booked[i] <= 1 /\ (rq.hold[i] = "exact" \/ i \in rq.pinned => Whole(rq, i))
    BY <2>1, TargetFacts
  <2>4. NothingLeftOpen
    BY <2>1, <2>2 DEF NothingLeftOpen, Running, AtEnd
  <2>5. BookedOnOpenAdmission
    <3>1. rq.phase \in {"reserve", "call", "streaming"} => rq.adm = "open"
      BY <2>1 DEF Running, AtEnd
    <3> QED
      BY <2>2, <2>3, <3>1 DEF BookedOnOpenAdmission
  <2>6. ExactOnlyWhenWhole
    BY <2>2, <2>3 DEF ExactOnlyWhenWhole, Whole
  <2> QED
    BY <2>4, <2>5, <2>6 DEF MoneyFollowsTheCall
<1> QED
  BY <1>1, ServingInvHolds, PTL

-----------------------------------------------------------------------------
(* Routing *)

RouteFields ==
  {"topo", "privacy", "context", "strict", "responses", "given", "phase", "chain", "detected", "complete", "readable",
   "remoteTools", "flagged", "blind", "limit", "body", "swept", "pins", "reason", "denied"}

RouteShaped(r) == DOMAIN r = RouteFields /\ DOMAIN r.chain = {"lead", "targets"}

Untouched == {"lookup", "inspect", "signal", "trigger"}

\* The targets S satisfy every rule in force on r.
RouteFits(r, S) ==
  /\ S \subseteq r.topo.permitted
  /\ Strict(r) => S \subseteq BudgetConstraint(r)
  /\ r.limit # NoLimit => S = {} \/ (~r.remoteTools /\ S \subseteq r.limit \cap r.topo.internal)
  /\ S \ {Asked} \subseteq r.topo.roomy

\* What the triggers found is in force.
RulesBind(r) == r.limit = LimitBy(r) /\ \A rule \in r.privacy : ~AsksBlock(r, rule)
MaskingDone(r) == \A rule \in r.privacy : AsksMaskOnly(r, rule) => r.body = "sanitized" /\ r.swept

Steered(r) == r.reason \in {"context_selected", "context_affinity"}

\* The chain of a request that was routed.  One that no rule binds keeps the chain
\* that it was given, as far as its key permits.
ChainSound(r) ==
  /\ Routable(r.chain) /\ r.chain.targets \subseteq r.topo.permitted
  /\ (Unbound(r) /\ ~Steered(r)) \/ RouteFits(r, r.chain.targets)
  /\ r.pins \subseteq r.chain.targets \cap r.topo.permitted \cap r.topo.roomy

RouteLive(r) ==
  /\ r.topo \in Topologies /\ r.strict \in StrictTargets /\ r.given = WithFallback(Asked) /\ ~r.denied
  /\ r.phase \in {"mask", "filter", "context", "done"} \cup Untouched
  /\ r.phase \in Untouched => r.limit = NoLimit
  /\ r.phase \in {"mask", "filter"} \cup Untouched => r.chain = NoChain /\ r.pins = {} /\ r.reason = ""
  /\ r.phase \in {"mask", "filter", "context", "done"} => RulesBind(r)
  /\ r.phase \in {"filter", "context", "done"} => MaskingDone(r)
  /\ r.phase \in {"context", "done"} => ChainSound(r)
  /\ r.phase = "context" => ~Steered(r) /\ r.pins = {}

Refused(r) == r.denied /\ r.phase = "done" /\ r.chain = NoChain /\ r.pins = {}

RouteSound(r) == RouteShaped(r) /\ (Refused(r) \/ RouteLive(r))
RouteInv == RouteSound(rt)

\* The request as the rules see it.
SameRequest(r, n) ==
  /\ n.topo = r.topo /\ n.privacy = r.privacy /\ n.context = r.context /\ n.strict = r.strict /\ n.given = r.given
  /\ n.detected = r.detected /\ n.complete = r.complete /\ n.flagged = r.flagged /\ n.blind = r.blind
  /\ n.remoteTools = r.remoteTools /\ n.denied = r.denied

-----------------------------------------------------------------------------
(* Chains *)

LEMMA WithinIs ==
  ASSUME NEW c, DOMAIN c = {"lead", "targets"}, NEW S
  PROVE  /\ DOMAIN Within(c, S) = {"lead", "targets"} /\ Within(c, S).lead = c.lead
         /\ Within(c, S).targets = c.targets \cap S
  BY DEF Within

LEMMA FilterFits ==
  ASSUME NEW r, NEW c, DOMAIN c = {"lead", "targets"}, NEW automatic
  PROVE  /\ DOMAIN Filter(r, c, automatic) = {"lead", "targets"}
         /\ Filter(r, c, automatic).targets \subseteq c.targets
         /\ RouteFits(r, Filter(r, c, automatic).targets)
         /\ automatic => Filter(r, c, automatic).targets \subseteq r.topo.roomy
<1> DEFINE S == {m \in r.topo.permitted :
                   /\ Strict(r) => m \in BudgetConstraint(r)
                   /\ r.limit # NoLimit => ~r.remoteTools /\ m \in r.limit /\ m \in r.topo.internal
                   /\ MustFit(r, m, automatic) => m \in r.topo.roomy}
           f == Filter(r, c, automatic)
<1>1. f = Within(c, S)
  BY DEF Filter
<1>2. DOMAIN f = {"lead", "targets"} /\ f.targets = c.targets \cap S
  BY <1>1, WithinIs
<1> HIDE DEF f
<1>3. ASSUME NEW m \in f.targets
      PROVE  /\ m \in r.topo.permitted
             /\ Strict(r) => m \in BudgetConstraint(r)
             /\ r.limit # NoLimit => ~r.remoteTools /\ m \in r.limit /\ m \in r.topo.internal
             /\ m # Asked \/ automatic => m \in r.topo.roomy
  BY <1>2 DEF MustFit
<1> HIDE DEF S
<1>4. RouteFits(r, f.targets)
  BY <1>3 DEF RouteFits
<1> QED
  BY <1>2, <1>3, <1>4 DEF f

LEMMA ClosedFirstIs ==
  ASSUME NEW c, DOMAIN c = {"lead", "targets"}, NEW up
  PROVE  DOMAIN ClosedFirst(c, up) = {"lead", "targets"} /\ ClosedFirst(c, up).targets \subseteq c.targets
  BY WithinIs DEF ClosedFirst

LEMMA FewerFit ==
  ASSUME NEW r, NEW S, NEW T \in SUBSET S, RouteFits(r, S)
  PROVE  RouteFits(r, T)
  BY DEF RouteFits

LEMMA RequestChainFits ==
  ASSUME NEW r, NEW m, NEW up
  PROVE  DOMAIN RequestChain(r, m, up) = {"lead", "targets"} /\ RouteFits(r, RequestChain(r, m, up).targets)
<1> DEFINE w == WithFallback(m)
           f == Filter(r, w, m # Asked)
<1>1. DOMAIN w = {"lead", "targets"}
  BY DEF WithFallback
<1> HIDE DEF w
<1>2. DOMAIN f = {"lead", "targets"} /\ RouteFits(r, f.targets)
  BY <1>1, FilterFits
<1> HIDE DEF f
<1>3. DOMAIN ClosedFirst(f, up) = {"lead", "targets"} /\ ClosedFirst(f, up).targets \subseteq f.targets
  BY <1>2, ClosedFirstIs
<1>4. RequestChain(r, m, up) = ClosedFirst(f, up)
  BY DEF RequestChain, f, w
<1> QED
  BY <1>2, <1>3, <1>4, FewerFit

LEMMA PinnedChainFits ==
  ASSUME NEW r, NEW m, NEW up
  PROVE  DOMAIN PinnedChain(r, m, up) = {"lead", "targets"} /\ RouteFits(r, PinnedChain(r, m, up).targets)
<1> DEFINE q == RequestChain(r, m, up)
           f == Filter(r, q, TRUE)
<1>1. DOMAIN q = {"lead", "targets"}
  BY RequestChainFits
<1> HIDE DEF q
<1>2. DOMAIN f = {"lead", "targets"} /\ RouteFits(r, f.targets)
  BY <1>1, FilterFits
<1> HIDE DEF f
<1>3. DOMAIN NoChain = {"lead", "targets"} /\ RouteFits(r, NoChain.targets)
  BY DEF NoChain, RouteFits
<1>4. PinnedChain(r, m, up) = f \/ PinnedChain(r, m, up) = NoChain
  BY DEF PinnedChain, f, q
<1> QED
  BY <1>2, <1>3, <1>4

\* What the rules say of a request does not depend on its chain or its phase.
LEMMA SameFindings ==
  ASSUME NEW r, NEW n, SameRequest(r, n)
  PROVE  /\ \A rule : AsksBlock(n, rule) = AsksBlock(r, rule)
         /\ LimitBy(n) = LimitBy(r)
         /\ \A rule : AsksMaskOnly(n, rule) = AsksMaskOnly(r, rule)
<1>1. \A rule : AsksBlock(n, rule) = AsksBlock(r, rule)
  BY DEF SameRequest, AsksBlock, Asks
<1>2. LimitBy(n) = LimitBy(r)
  BY DEF SameRequest, LimitBy, Asks
<1>3. \A rule : AsksMaskOnly(n, rule) = AsksMaskOnly(r, rule)
  BY DEF SameRequest, AsksMaskOnly
<1> QED
  BY <1>1, <1>2, <1>3

LEMMA RulesFramed ==
  ASSUME NEW r, NEW n, SameRequest(r, n), n.limit = r.limit
  PROVE  /\ RulesBind(r) => RulesBind(n)
         /\ \A S : RouteFits(r, S) => RouteFits(n, S)
         /\ Strict(n) = Strict(r) /\ Unbound(n) = Unbound(r)
         /\ n.body = r.body /\ n.swept = r.swept => (MaskingDone(r) => MaskingDone(n))
<1>4. Strict(n) = Strict(r) /\ BudgetConstraint(n) = BudgetConstraint(r) /\ Unbound(n) = Unbound(r)
  BY DEF SameRequest, Strict, BudgetConstraint, Unbound, HasPrivacy
<1>5. RulesBind(r) => RulesBind(n)
  BY SameFindings DEF RulesBind, SameRequest
<1>6. \A S : RouteFits(r, S) => RouteFits(n, S)
  BY <1>4 DEF RouteFits, SameRequest
<1>7. n.body = r.body /\ n.swept = r.swept => (MaskingDone(r) => MaskingDone(n))
  BY SameFindings DEF MaskingDone, SameRequest
<1> QED
  BY <1>4, <1>5, <1>6, <1>7

LEMMA DenySound ==
  ASSUME NEW r, RouteShaped(r), NEW reason
  PROVE  RouteSound(Deny(r, reason))
<1> DEFINE n == Deny(r, reason)
<1>1. DOMAIN n = RouteFields /\ n.phase = "done" /\ n.chain = NoChain /\ n.pins = {} /\ n.denied = TRUE
  BY DEF RouteShaped, RouteFields, Deny
<1>2. DOMAIN NoChain = {"lead", "targets"}
  BY DEF NoChain
<1> HIDE DEF n
<1>3. RouteSound(n)
  BY <1>1, <1>2 DEF RouteSound, RouteShaped, Refused
<1> QED
  BY <1>3 DEF n

LEMMA LookupSound ==
  ASSUME NEW r, RouteShaped(r), RouteLive(r), r.phase = "lookup"
  PROVE  RouteSound(Lookup(r))
<1> DEFINE n == [r EXCEPT !.phase = "inspect"]
<1>1. /\ RouteShaped(n) /\ SameRequest(r, n) /\ n.limit = r.limit /\ n.chain = r.chain /\ n.pins = r.pins
      /\ n.reason = r.reason /\ n.phase = "inspect"
  BY DEF RouteShaped, RouteFields, SameRequest
<1> HIDE DEF n
<1>2. RouteLive(n)
  BY <1>1 DEF RouteLive, SameRequest, Untouched
<1>3. Lookup(r) = n \/ \E reason : Lookup(r) = Deny(r, reason)
  BY DEF Lookup, n
<1> QED
  BY <1>1, <1>2, <1>3, DenySound DEF RouteSound

\* A request that no rule binds: its chain is final, whatever steers it later.
LEMMA UnboundRules ==
  ASSUME NEW r, Unbound(r), r.limit = NoLimit
  PROVE  RulesBind(r) /\ MaskingDone(r)
  BY DEF Unbound, HasPrivacy, RulesBind, MaskingDone, LimitBy

LEMMA InspectFailsSound ==
  ASSUME NEW r, RouteShaped(r), RouteLive(r), r.phase = "inspect"
  PROVE  RouteSound(InspectFails(r))
<1> SUFFICES ASSUME ~r.responses, Unbound(r), Routable(LegacyChain(r)) PROVE RouteSound(InspectFails(r))
  BY DenySound DEF InspectFails
<1> DEFINE c == LegacyChain(r)
           reason == IF r.context = {} THEN "unchanged" ELSE "context_inspection_failed"
           n == Settle([r EXCEPT !.chain = c], reason)
<1>1. DOMAIN r.given = {"lead", "targets"} /\ r.chain = NoChain /\ r.pins = {} /\ r.limit = NoLimit
  BY DEF RouteLive, Untouched, WithFallback
<1>2. DOMAIN c = {"lead", "targets"} /\ c.targets \subseteq r.topo.permitted
  BY <1>1, WithinIs DEF LegacyChain
<1>3. InspectFails(r) = n
  BY DEF InspectFails
<1>4. reason \notin {"context_selected", "context_affinity"}
  OBVIOUS
<1> HIDE DEF c, reason
<1>5. /\ RouteShaped(n) /\ SameRequest(r, n) /\ n.limit = r.limit /\ n.chain = c /\ n.pins = r.pins /\ n.reason = reason
      /\ n.phase = "done"
  BY <1>2 DEF RouteShaped, RouteFields, SameRequest, Settle
<1> HIDE DEF n
<1>6. Unbound(n) /\ RulesBind(n) /\ MaskingDone(n)
  BY <1>1, <1>5, UnboundRules, RulesFramed
<1>7. ChainSound(n)
  BY <1>1, <1>2, <1>4, <1>5, <1>6 DEF ChainSound, SameRequest, Steered, c
<1>8. RouteLive(n)
  BY <1>5, <1>6, <1>7 DEF RouteLive, SameRequest, Untouched
<1> QED
  BY <1>3, <1>5, <1>8 DEF RouteSound

LEMMA InspectedSound ==
  ASSUME NEW r, RouteShaped(r), RouteLive(r), r.phase = "inspect", NEW detected, NEW complete, NEW tools
  PROVE  RouteSound(Inspected(r, detected, complete, tools))
<1> DEFINE s == [r EXCEPT !.detected = detected, !.complete = complete, !.readable = complete, !.remoteTools = tools,
                          !.phase = "signal"]
           c == IF r.responses THEN Filter(s, r.given, FALSE) ELSE LegacyChain(s)
           u == Settle([s EXCEPT !.chain = c], "unchanged")
           v == [s EXCEPT !.chain = c, !.phase = "context"]
           n == Inspected(r, detected, complete, tools)
<1>1. /\ DOMAIN r.given = {"lead", "targets"} /\ r.chain = NoChain /\ r.pins = {} /\ r.limit = NoLimit /\ r.reason = ""
      /\ DOMAIN r.chain = {"lead", "targets"}
  BY DEF RouteLive, Untouched, WithFallback, NoChain
<1>2. /\ RouteShaped(s) /\ s.topo = r.topo /\ s.privacy = r.privacy /\ s.strict = r.strict /\ s.given = r.given
      /\ s.denied = r.denied /\ s.limit = NoLimit /\ s.chain = NoChain /\ s.pins = {} /\ s.reason = "" /\ s.phase = "signal"
      /\ s.context = r.context
  BY <1>1 DEF RouteShaped, RouteFields
<1>3. n = s \/ (Unbound(r) /\ Routable(c) /\ (n = u \/ n = v)) \/ \E reason : n = Deny(s, reason)
  BY DEF Inspected
<1> HIDE DEF s, n
<1>4. CASE n = s
  <2>1. RouteLive(s)
    BY <1>2 DEF RouteLive, Untouched
  <2> QED
    BY <1>2, <1>4, <2>1 DEF RouteSound, n
<1>5. CASE \E reason : n = Deny(s, reason)
  BY <1>2, <1>5, DenySound DEF n
<1>6. CASE Unbound(r) /\ Routable(c) /\ (n = u \/ n = v)
  <2>1. DOMAIN c = {"lead", "targets"} /\ c.targets \subseteq s.topo.permitted
    <3>1. CASE r.responses
      <4>1. DOMAIN Filter(s, r.given, FALSE) = {"lead", "targets"} /\ RouteFits(s, Filter(s, r.given, FALSE).targets)
        BY <1>1, FilterFits
      <4> QED
        BY <3>1, <4>1 DEF RouteFits
    <3>2. CASE ~r.responses
      <4>1. c = Within(s.given, s.topo.permitted) /\ DOMAIN s.given = {"lead", "targets"}
        BY <1>1, <1>2, <3>2 DEF LegacyChain
      <4> HIDE DEF c
      <4> QED
        BY <4>1, WithinIs
    <3> QED
      BY <3>1, <3>2
  <2> HIDE DEF c
  <2>2. /\ RouteShaped(n) /\ SameRequest(s, n) /\ n.limit = s.limit /\ n.chain = c /\ n.pins = s.pins
        /\ n.reason \in {"", "unchanged"} /\ n.phase \in {"context", "done"}
    <3>1. CASE n = u
      BY <1>2, <2>1, <3>1 DEF RouteShaped, RouteFields, SameRequest, Settle
    <3>2. CASE n = v
      BY <1>2, <2>1, <3>2 DEF RouteShaped, RouteFields, SameRequest
    <3> QED
      BY <1>6, <3>1, <3>2
  <2>3. Unbound(s)
    BY <1>2, <1>6 DEF Unbound, HasPrivacy, Strict
  <2>4. Unbound(n) /\ RulesBind(n) /\ MaskingDone(n)
    BY <1>2, <2>2, <2>3, UnboundRules, RulesFramed
  <2>5. ChainSound(n) /\ ~Steered(n) /\ n.pins = {}
    BY <1>2, <1>6, <2>1, <2>2, <2>4 DEF ChainSound, SameRequest, Steered
  <2>6. RouteLive(n)
    BY <1>2, <2>2, <2>4, <2>5 DEF RouteLive, SameRequest, Untouched
  <2> QED
    BY <2>2, <2>6 DEF RouteSound, n
<1> QED
  BY <1>3, <1>4, <1>5, <1>6

LEMMA ClassifiedSound ==
  ASSUME NEW r, RouteShaped(r), RouteLive(r), r.phase = "signal", NEW flagged, NEW blind
  PROVE  RouteSound(Classified(r, flagged, blind))
<1> DEFINE n == Classified(r, flagged, blind)
<1>1. /\ RouteShaped(n) /\ n.topo = r.topo /\ n.strict = r.strict /\ n.given = r.given /\ n.denied = r.denied
      /\ n.limit = r.limit /\ n.chain = r.chain /\ n.pins = r.pins /\ n.reason = r.reason /\ n.phase = "trigger"
  BY DEF RouteShaped, RouteFields, Classified
<1> HIDE DEF n
<1>2. RouteLive(n)
  BY <1>1 DEF RouteLive, Untouched
<1> QED
  BY <1>1, <1>2 DEF RouteSound, n

LEMMA TriggeredSound ==
  ASSUME NEW r, RouteShaped(r), RouteLive(r), r.phase = "trigger"
  PROVE  RouteSound(Triggered(r))
<1> SUFFICES ASSUME \A rule \in r.privacy : ~AsksBlock(r, rule) PROVE RouteSound(Triggered(r))
  BY DenySound DEF Triggered
<1> DEFINE p == IF \E rule \in r.privacy : AsksMaskOnly(r, rule) THEN "mask" ELSE "filter"
           k == LimitBy(r)
           n == [[r EXCEPT !.limit = k] EXCEPT !.phase = p]
<1>1. Triggered(r) = n
  BY DEF Triggered
<1>2. p = "mask" \/ (p = "filter" /\ \A rule \in r.privacy : ~AsksMaskOnly(r, rule))
  OBVIOUS
<1> HIDE DEF p, k
<1>3. /\ RouteShaped(n) /\ SameRequest(r, n) /\ n.limit = k /\ n.chain = r.chain /\ n.pins = r.pins
      /\ n.reason = r.reason /\ n.phase = p
  BY DEF RouteShaped, RouteFields, SameRequest
<1> HIDE DEF n
<1>4. RulesBind(n)
  BY <1>3, SameFindings DEF RulesBind, SameRequest, k
<1>5. p = "filter" => MaskingDone(n)
  BY <1>2, <1>3, SameFindings DEF MaskingDone, SameRequest
<1>6. RouteLive(n)
  BY <1>2, <1>3, <1>4, <1>5 DEF RouteLive, Untouched, SameRequest
<1> QED
  BY <1>1, <1>3, <1>6 DEF RouteSound

LEMMA RedactedSound ==
  ASSUME NEW r, RouteShaped(r), RouteLive(r), r.phase = "mask", NEW complete, NEW clean
  PROVE  RouteSound(Redacted(r, complete, clean))
<1> SUFFICES ASSUME complete, clean PROVE RouteSound(Redacted(r, complete, clean))
  BY DenySound DEF Redacted
<1> DEFINE n == [r EXCEPT !.body = "sanitized", !.swept = TRUE, !.readable = TRUE, !.phase = "filter"]
<1>1. Redacted(r, complete, clean) = n
  BY DEF Redacted
<1>2. /\ RouteShaped(n) /\ SameRequest(r, n) /\ n.limit = r.limit /\ n.chain = r.chain /\ n.pins = r.pins
      /\ n.reason = r.reason /\ n.phase = "filter" /\ n.body = "sanitized" /\ n.swept
  BY DEF RouteShaped, RouteFields, SameRequest
<1> HIDE DEF n
<1>3. RulesBind(n) /\ MaskingDone(n)
  BY <1>2, RulesFramed DEF MaskingDone, RouteLive
<1>4. RouteLive(n)
  BY <1>2, <1>3 DEF RouteLive, Untouched, SameRequest
<1> QED
  BY <1>1, <1>2, <1>4 DEF RouteSound

\* A chain that fits is in force from now on.
LEMMA ChainInstalled ==
  ASSUME NEW r, RouteShaped(r), RouteLive(r), r.phase \in {"filter", "context"}, NEW n, RouteShaped(n), SameRequest(r, n),
         n.limit = r.limit, n.body = r.body, n.swept = r.swept, Routable(n.chain), RouteFits(r, n.chain.targets),
         n.pins \subseteq n.chain.targets \cap r.topo.roomy,
         n.phase = "done" \/ (n.phase = "context" /\ ~Steered(n) /\ n.pins = {})
  PROVE  RouteSound(n)
<1>1. RulesBind(n) /\ MaskingDone(n) /\ RouteFits(n, n.chain.targets)
  <2>1. RulesBind(r) /\ MaskingDone(r)
    BY DEF RouteLive
  <2> QED
    BY <2>1, RulesFramed
<1>2. ChainSound(n)
  BY <1>1 DEF ChainSound, RouteFits, SameRequest
<1>3. RouteLive(n)
  BY <1>1, <1>2 DEF RouteLive, Untouched, SameRequest
<1> QED
  BY <1>3 DEF RouteSound

LEMMA FilteredSound ==
  ASSUME NEW r, RouteShaped(r), RouteLive(r), r.phase = "filter", NEW up
  PROVE  RouteSound(Filtered(r, up))
<1> DEFINE safe == Filter(r, r.given, FALSE)
           c == CASE Strict(r) -> RequestChain(r, CHOOSE m \in BudgetConstraint(r) : TRUE, up)
                  [] ~Strict(r) /\ (Routable(safe) \/ r.limit = NoLimit) -> safe
                  [] OTHER -> IF InternalAlternatives(r, up) = {} THEN NoChain
                              ELSE RequestChain(r, CHOOSE m \in InternalAlternatives(r, up) : TRUE, up)
           p == IF r.context = {} THEN "done" ELSE "context"
           reason == IF r.limit # NoLimit THEN "internal_only" ELSE IF Strict(r) THEN "budget_target" ELSE "unchanged"
           n == [r EXCEPT !.chain = c, !.phase = p, !.reason = reason]
<1>1. (\E why : Filtered(r, up) = Deny(r, why)) \/ (Routable(c) /\ Filtered(r, up) = n)
  BY DEF Filtered
<1> SUFFICES ASSUME Routable(c), Filtered(r, up) = n PROVE RouteSound(Filtered(r, up))
  BY <1>1, DenySound
<1>2. DOMAIN c = {"lead", "targets"} /\ RouteFits(r, c.targets)
  <2>1. DOMAIN safe = {"lead", "targets"} /\ RouteFits(r, safe.targets)
    <3>1. DOMAIN r.given = {"lead", "targets"}
      BY DEF RouteLive, WithFallback
    <3> HIDE DEF c, p, reason, n
    <3> QED
      BY <3>1, FilterFits, Zenon
  <2>2. DOMAIN NoChain = {"lead", "targets"} /\ RouteFits(r, NoChain.targets)
    BY DEF NoChain, RouteFits
  <2>3. c = safe \/ c = NoChain \/ \E m : c = RequestChain(r, m, up)
    OBVIOUS
  <2> HIDE DEF c, safe
  <2> QED
    BY <2>1, <2>2, <2>3, RequestChainFits
<1>3. reason \notin {"context_selected", "context_affinity"} /\ p \in {"done", "context"}
  OBVIOUS
<1> HIDE DEF c, p, reason
<1>4. /\ RouteShaped(n) /\ SameRequest(r, n) /\ n.limit = r.limit /\ n.body = r.body /\ n.swept = r.swept
      /\ n.chain = c /\ n.pins = r.pins /\ n.phase = p /\ n.reason = reason
  BY <1>2 DEF RouteShaped, RouteFields, SameRequest
<1>5. r.pins = {} /\ ~Steered(n)
  BY <1>3, <1>4 DEF RouteLive, Steered
<1> HIDE DEF n
<1> QED
  BY <1>2, <1>3, <1>4, <1>5, ChainInstalled

\* Settling on a chain, with or without the targets that a session may be pinned to.
LEMMA SettledOn ==
  ASSUME NEW q, RouteShaped(q), NEW reason, NEW n \in {Settle(q, reason), Settle(FinishAffinity(q), reason)}
  PROVE  /\ RouteShaped(n) /\ SameRequest(q, n) /\ n.limit = q.limit /\ n.body = q.body /\ n.swept = q.swept
         /\ n.chain = q.chain /\ n.phase = "done" /\ n.reason = reason
         /\ n.pins \subseteq q.pins \cup (q.chain.targets \cap q.topo.permitted \cap q.topo.roomy)
<1> DEFINE S == Filter(q, q.chain, TRUE).targets
<1>1. S \subseteq q.chain.targets \cap q.topo.permitted \cap q.topo.roomy
  <2>1. DOMAIN q.chain = {"lead", "targets"}
    BY DEF RouteShaped
  <2>2. S \subseteq q.chain.targets /\ RouteFits(q, S) /\ S \subseteq q.topo.roomy
    BY <2>1, FilterFits, Zenon
  <2> HIDE DEF S
  <2> QED
    BY <2>2 DEF RouteFits
<1>2. FinishAffinity(q) = [q EXCEPT !.pins = S]
  BY DEF FinishAffinity
<1> HIDE DEF S
<1>3. CASE n = Settle(q, reason)
  BY <1>3 DEF RouteShaped, RouteFields, SameRequest, Settle
<1>4. CASE n = Settle(FinishAffinity(q), reason)
  BY <1>1, <1>2, <1>4 DEF RouteShaped, RouteFields, SameRequest, Settle
<1> QED
  BY <1>3, <1>4

LEMMA StaysOnChain ==
  ASSUME NEW r, RouteShaped(r), RouteLive(r), r.phase = "context", NEW reason,
         reason \notin {"context_selected", "context_affinity"},
         NEW n \in {Settle(r, reason), Settle(FinishAffinity(r), reason)}
  PROVE  RouteSound(n)
<1>1. /\ RouteShaped(n) /\ SameRequest(r, n) /\ n.limit = r.limit /\ n.body = r.body /\ n.swept = r.swept
      /\ n.chain = r.chain /\ n.phase = "done" /\ n.reason = reason
      /\ n.pins \subseteq r.pins \cup (r.chain.targets \cap r.topo.permitted \cap r.topo.roomy)
  BY SettledOn
<1>2. RulesBind(r) /\ MaskingDone(r) /\ ChainSound(r) /\ r.pins = {} /\ ~Steered(r)
  BY DEF RouteLive
<1>3. RulesBind(n) /\ MaskingDone(n) /\ Unbound(n) = Unbound(r) /\ \A S : RouteFits(r, S) => RouteFits(n, S)
  BY <1>1, <1>2, RulesFramed
<1>4. ChainSound(n)
  BY <1>1, <1>2, <1>3 DEF ChainSound, Steered, SameRequest
<1>5. RouteLive(n)
  BY <1>1, <1>3, <1>4 DEF RouteLive, Untouched, SameRequest
<1> QED
  BY <1>1, <1>5 DEF RouteSound

LEMMA MovesToChain ==
  ASSUME NEW r, RouteShaped(r), RouteLive(r), r.phase = "context", NEW reason, NEW c, DOMAIN c = {"lead", "targets"},
         Routable(c), RouteFits(r, c.targets),
         NEW n \in {Settle([r EXCEPT !.chain = c], reason), Settle(FinishAffinity([r EXCEPT !.chain = c]), reason)}
  PROVE  RouteSound(n)
<1> DEFINE q == [r EXCEPT !.chain = c]
<1>1. /\ RouteShaped(q) /\ SameRequest(r, q) /\ q.limit = r.limit /\ q.body = r.body /\ q.swept = r.swept
      /\ q.chain = c /\ q.pins = r.pins
  BY DEF RouteShaped, RouteFields, SameRequest
<1>n. n \in {Settle(q, reason), Settle(FinishAffinity(q), reason)}
  BY DEF q
<1> HIDE DEF q
<1>2. /\ RouteShaped(n) /\ SameRequest(q, n) /\ n.limit = q.limit /\ n.body = q.body /\ n.swept = q.swept
      /\ n.chain = q.chain /\ n.phase = "done" /\ n.reason = reason
      /\ n.pins \subseteq q.pins \cup (q.chain.targets \cap q.topo.permitted \cap q.topo.roomy)
  BY <1>1, <1>n, SettledOn
<1>3. SameRequest(r, n) /\ r.pins = {} /\ q.topo = r.topo
  BY <1>1, <1>2 DEF SameRequest, RouteLive
<1> QED
  BY <1>1, <1>2, <1>3, ChainInstalled

\* What is installed is settled on as it is, or with the targets a session may be pinned to.
LEMMA FinishSettles ==
  ASSUME NEW q, NEW reason
  PROVE  FinishOn(q, reason) \in {Settle(q, reason), Settle(FinishAffinity(q), reason)}
  BY Zenon DEF FinishOn

LEMMA SteerToSound ==
  ASSUME NEW r, RouteShaped(r), RouteLive(r), r.phase = "context", NEW m, NEW turns, NEW up
  PROVE  RouteSound(SteerTo(r, m, turns, up))
<1> DEFINE c == RequestChain(r, m, up)
           q == [r EXCEPT !.chain = c]
           n == SteerTo(r, m, turns, up)
<1>1. \/ n = Settle(r, "context_ineligible")
      \/ n = FinishOn(r, "context_unchanged")
      \/ n = FinishOn(r, "context_unavailable")
      \/ First(q.chain, m) /\ n = FinishOn(q, "context_selected")
  BY Zenon DEF SteerTo
<1>2. DOMAIN c = {"lead", "targets"} /\ RouteFits(r, c.targets)
  BY RequestChainFits
<1>3. q.chain = c
  BY DEF RouteShaped, RouteFields
<1> SUFFICES RouteSound(n)
  OBVIOUS
<1> HIDE DEF n, c
<1>4. CASE n = Settle(r, "context_ineligible")
  BY <1>4, StaysOnChain
<1>5. CASE n = FinishOn(r, "context_unchanged")
  <2>1. n \in {Settle(r, "context_unchanged"), Settle(FinishAffinity(r), "context_unchanged")}
    BY <1>5, FinishSettles
  <2> QED
    BY <2>1, StaysOnChain
<1>6. CASE n = FinishOn(r, "context_unavailable")
  <2>1. n \in {Settle(r, "context_unavailable"), Settle(FinishAffinity(r), "context_unavailable")}
    BY <1>6, FinishSettles
  <2> QED
    BY <2>1, StaysOnChain
<1>7. CASE First(q.chain, m) /\ n = FinishOn(q, "context_selected")
  <2>1. Routable(c)
    BY <1>3, <1>7 DEF First, Routable
  <2>2. n \in {Settle(q, "context_selected"), Settle(FinishAffinity(q), "context_selected")}
    BY <1>7, FinishSettles
  <2> QED
    BY <1>2, <2>1, <2>2, MovesToChain
<1> QED
  BY <1>1, <1>4, <1>5, <1>6, <1>7

LEMMA ApplyContextSound ==
  ASSUME NEW r, RouteShaped(r), RouteLive(r), r.phase = "context", NEW pin, NEW turns, NEW up
  PROVE  RouteSound(ApplyContext(r, pin, turns, up))
<1> DEFINE d == IF pin # "" /\ Stable(r) THEN PinnedChain(r, pin, up) ELSE NoChain
           q == [r EXCEPT !.chain = d]
           n == ApplyContext(r, pin, turns, up)
<1>1. \/ n = Settle(r, "context_conflict")
      \/ n = Settle(r, "context_shadow")
      \/ Routable(d) /\ n = FinishOn(q, "context_affinity")
      \/ \E m : n = SteerTo(r, m, turns, up)
  BY Zenon DEF ApplyContext
<1>2. Routable(d) => DOMAIN d = {"lead", "targets"} /\ RouteFits(r, d.targets)
  <2>1. ~Routable(NoChain)
    BY DEF Routable, NoChain
  <2> QED
    BY <2>1, PinnedChainFits, Zenon
<1> SUFFICES RouteSound(n)
  OBVIOUS
<1> HIDE DEF n, d
<1>3. CASE n = Settle(r, "context_conflict") \/ n = Settle(r, "context_shadow")
  BY <1>3, StaysOnChain
<1>4. CASE Routable(d) /\ n = FinishOn(q, "context_affinity")
  <2>1. n \in {Settle(q, "context_affinity"), Settle(FinishAffinity(q), "context_affinity")}
    BY <1>4, FinishSettles
  <2> QED
    BY <1>2, <1>4, <2>1, MovesToChain
<1>5. CASE \E m : n = SteerTo(r, m, turns, up)
  <2>1. PICK m : n = SteerTo(r, m, turns, up)
    BY <1>5
  <2>2. RouteSound(SteerTo(r, m, turns, up))
    BY SteerToSound
  <2> QED
    BY <2>1, <2>2, Zenon
<1> QED
  BY <1>1, <1>3, <1>4, <1>5

-----------------------------------------------------------------------------
LEMMA RouteNext ==
  ASSUME RouteSound(rt')
  PROVE  RouteInv'
  BY DEF RouteInv, RouteSound, RouteShaped, Refused, RouteLive, RulesBind, MaskingDone, ChainSound, RouteFits, Steered, LimitBy, Asks,
         AsksBlock, AsksMaskOnly, ClassifiedAction, Unbound, HasPrivacy, Strict, BudgetConstraint, Routable

LEMMA RoutedSoundly ==
  ASSUME RouteInv
  PROVE  RoutesHold
<1>1. RouteShaped(rt) /\ (Refused(rt) \/ RouteLive(rt))
  BY DEF RouteInv, RouteSound
<1>2. CASE Refused(rt)
  <2>1. rt.phase = "done" /\ ~Routed /\ Chosen = {} /\ rt.pins = {}
    BY <1>2 DEF Refused, NoChain, Routed, Chosen
  <2> QED
    BY <2>1 DEF RoutesHold, RoutingTypeOK, PrivacyHolds, DetectedIsMaskedOrStopped, BudgetTargetHolds,
                SteeredTargetsFit, PinsAreEligible
<1>3. CASE RouteLive(rt) /\ rt.phase \notin {"context", "done"}
  <2>1. /\ rt.phase \in {"lookup", "inspect", "signal", "trigger", "mask", "filter"}
        /\ rt.chain = NoChain /\ rt.pins = {}
    BY <1>3 DEF RouteLive, Untouched
  <2>2. ~Routed /\ Chosen = {}
    BY <2>1 DEF NoChain, Routed, Chosen
  <2> QED
    BY <2>1, <2>2 DEF RoutesHold, RoutingTypeOK, PrivacyHolds, DetectedIsMaskedOrStopped, BudgetTargetHolds,
                SteeredTargetsFit, PinsAreEligible
<1>4. CASE RouteLive(rt) /\ rt.phase \in {"context", "done"}
  <2>1. RulesBind(rt) /\ MaskingDone(rt) /\ ChainSound(rt)
    BY <1>4 DEF RouteLive
  <2>2. rt.topo.permitted \subseteq RouteModels /\ Chosen \subseteq rt.topo.permitted /\ Routable(rt.chain)
    BY <1>4, <2>1, RoutingAssumption DEF RouteLive, ChainSound, Chosen
  <2>3. RoutingTypeOK /\ PinsAreEligible
    BY <1>4, <2>1, <2>2 DEF RoutingTypeOK, PinsAreEligible, ChainSound, Chosen
  <2>4. Strict(rt) \/ HasPrivacy(rt) \/ Steered(rt) => RouteFits(rt, Chosen)
    BY <2>1 DEF ChainSound, Unbound, Chosen
  <2>5. BudgetTargetHolds /\ SteeredTargetsFit
    BY <2>2, <2>4 DEF BudgetTargetHolds, SteeredTargetsFit, RouteFits, Steered
  <2>6. DetectedIsMaskedOrStopped
    BY <2>1 DEF DetectedIsMaskedOrStopped, RulesBind, MaskingDone, AsksMaskOnly
  <2>7. PrivacyHolds
    <3> SUFFICES ASSUME NEW rule \in rt.privacy, Asks(rt, rule, "InternalOnly")
                 PROVE  Chosen \subseteq rule.models \cap rt.topo.internal /\ ~rt.remoteTools
      BY DEF PrivacyHolds
    <3> DEFINE bound == {x \in rt.privacy : Asks(rt, x, "InternalOnly")}
    <3>1. rule \in bound
      OBVIOUS
    <3>2. rt.limit = {m \in RouteModels : \A x \in bound : m \in x.models}
      BY <2>1, <3>1 DEF RulesBind, LimitBy
    <3> HIDE DEF bound
    <3>3. rt.limit # NoLimit
      BY <3>2, RoutingAssumption DEF NoLimit
    <3>4. RouteFits(rt, Chosen) /\ Chosen # {}
      BY <2>2, <2>4 DEF HasPrivacy, Chosen, Routable
    <3>5. ~rt.remoteTools /\ Chosen \subseteq rt.limit \cap rt.topo.internal
      BY <3>3, <3>4 DEF RouteFits
    <3> QED
      BY <3>1, <3>2, <3>5
  <2> QED
    BY <2>3, <2>5, <2>6, <2>7 DEF RoutesHold
<1> QED
  BY <1>1, <1>2, <1>3, <1>4

LEMMA RoutingStarts ==
  ASSUME InitRouting
  PROVE  RouteInv
<1>1. /\ DOMAIN rt = RouteFields /\ rt.chain = NoChain /\ rt.topo \in Topologies /\ rt.strict \in StrictTargets
      /\ rt.given = WithFallback(Asked) /\ ~rt.denied /\ rt.phase = "lookup" /\ rt.limit = NoLimit /\ rt.pins = {}
      /\ rt.reason = ""
  <2>1. PICK topo \in Topologies, privacy \in PrivacyRules, context \in ContextRules,
             strict \in StrictTargets, responses \in BOOLEAN : InitRouting!(topo, privacy, context, strict, responses)
    BY DEF InitRouting
  <2> QED
    BY <2>1 DEF RouteFields
<1>2. DOMAIN NoChain = {"lead", "targets"}
  BY DEF NoChain
<1>3. RouteLive(rt)
  BY <1>1 DEF RouteLive, Untouched
<1> QED
  BY <1>1, <1>2, <1>3 DEF RouteInv, RouteSound, RouteShaped

LEMMA RoutingStep ==
  ASSUME RouteInv, [NextRouting]_rt
  PROVE  RouteInv'
<1>1. RouteShaped(rt) /\ (rt.phase # "done" => RouteLive(rt))
  BY DEF RouteInv, RouteSound, Refused
<1>2. RouteSound(rt')
  <2>1. CASE UNCHANGED rt
    BY <2>1, Zenon DEF RouteInv
  <2>2. CASE RoutePolicies
    BY <1>1, <2>2, DenySound, LookupSound DEF RoutePolicies
  <2>3. CASE RouteInspect
    BY <1>1, <2>3, InspectFailsSound, InspectedSound DEF RouteInspect
  <2>4. CASE RouteClassify
    BY <1>1, <2>4, ClassifiedSound DEF RouteClassify
  <2>5. CASE RouteTrigger
    BY <1>1, <2>5, TriggeredSound DEF RouteTrigger
  <2>6. CASE RouteMask
    BY <1>1, <2>6, RedactedSound DEF RouteMask
  <2>7. CASE RouteFilter
    BY <1>1, <2>7, FilteredSound DEF RouteFilter
  <2>8. CASE RouteContext
    <3>1. CASE rt' = Settle(rt, rt.reason)
      <4>1. rt.reason \notin {"context_selected", "context_affinity"}
        BY <1>1, <2>8 DEF RouteContext, RouteLive, Steered
      <4> QED
        BY <1>1, <2>8, <3>1, <4>1, StaysOnChain DEF RouteContext
    <3>2. CASE \E pin, turns, up : rt' = ApplyContext(rt, pin, turns, up)
      <4>1. PICK pin, turns, up : rt' = ApplyContext(rt, pin, turns, up)
        BY <3>2
      <4>2. RouteShaped(rt) /\ RouteLive(rt) /\ rt.phase = "context"
        BY <1>1, <2>8 DEF RouteContext
      <4>3. RouteSound(ApplyContext(rt, pin, turns, up))
        BY <4>2, ApplyContextSound
      <4> QED
        BY <4>1, <4>3, Zenon
    <3> QED
      BY <2>8, <3>1, <3>2 DEF RouteContext
  <2> QED
    BY <2>1, <2>2, <2>3, <2>4, <2>5, <2>6, <2>7, <2>8 DEF NextRouting
<1> QED
  BY <1>2, RouteNext

\* However the chain of a request is rebuilt, by a strict tier, a context rule, a pinned
\* session or a fallback, every target in it satisfies each rule in force: RouteRequest
\* sends every chain through requestBoundary.filter, and what a privacy rule wants masked
\* or stopped is, for any models, fallbacks, topologies, rules and tiers.
THEOREM RoutesStayWithinTheRules == RoutingSpec => []RoutesHold
<1>1. InitRouting => RouteInv
  BY RoutingStarts
<1>2. RouteInv /\ [NextRouting]_rt => RouteInv'
  BY RoutingStep
<1>3. RouteInv => RoutesHold
  BY RoutedSoundly
<1> QED
  BY <1>1, <1>2, <1>3, PTL DEF RoutingSpec
=============================================================================
