--------------------------- MODULE CircuitBreaker ---------------------------
(***************************************************************************)
(* The instance-local circuit breaker of the gateway (internal/router) and  *)
(* the three parties that drive it concurrently: requests, which resolve a  *)
(* chain of targets once and then walk it; the reloader, which swaps the    *)
(* provider topology and afterwards prunes breaker entries; and time.       *)
(*                                                                          *)
(* Time is relative.  The code keeps an absolute openUntil; only its        *)
(* distance from now is ever observed, so an entry keeps the ticks left     *)
(* ("wait").  openUntil and backoff are always set and cleared together,    *)
(* so openUntil.IsZero() is backoff = 0.  A missing map entry and an entry  *)
(* of zeros behave alike in every method, so both are Fresh.                *)
(***************************************************************************)
EXTENDS Naturals, Sequences, FiniteSets, FiniteSetsExt

CONSTANTS
  Route,        \* the configured targets of the model, in priority order
  Callers,     \* concurrent client requests
  Threshold,    \* consecutive failures that open the circuit
  BaseBackoff,  \* first open window, in ticks
  MaxBackoff    \* the 30 s cap, in ticks

Identities == {Route[i] : i \in DOMAIN Route}

ASSUME BreakerAssumption ==
  /\ Route \in Seq(Identities)
  /\ Threshold \in Nat \ {0}
  /\ BaseBackoff \in Nat \ {0}
  /\ MaxBackoff \in Nat /\ BaseBackoff <= MaxBackoff

VARIABLES
  brk,        \* breaker.state, by provider identity
  topology,   \* identities of the current live.State generation
  reloading,  \* a reload has swapped the topology and not yet pruned
  call,       \* per request: the positions of its chain in the route, the
              \* tried ones removed; the first of them is being called
  trial,      \* observer: the requests admitted by a half-open circuit
  up          \* environment: the providers that answer

breakerVars == <<brk, topology, reloading, call, trial, up>>

Fresh == [fails |-> 0, wait |-> 0, backoff |-> 0]

BreakerIdle == {}

MinNat(a, b) == IF a <= b THEN a ELSE b

BreakerTypeOK ==
  /\ brk \in [Identities -> [fails : 0..Threshold, wait : 0..MaxBackoff,
                             backoff : 0..MaxBackoff]]
  /\ topology \subseteq Identities
  /\ reloading \in BOOLEAN
  /\ call \in [Callers -> SUBSET DOMAIN Route]
  /\ trial \in [Identities -> SUBSET Callers]
  /\ up \subseteq Identities

InitBreaker ==
  /\ brk = [p \in Identities |-> Fresh]
  /\ topology = Identities
  /\ reloading = FALSE
  /\ call = [r \in Callers |-> BreakerIdle]
  /\ trial = [p \in Identities |-> {}]
  /\ up = Identities

-----------------------------------------------------------------------------
(* breaker.go *)

BreakerOpen(p) == brk[p].backoff > 0 /\ brk[p].wait > 0

HalfOpen(p) == brk[p].backoff > 0 /\ brk[p].wait = 0

\* Mutant of Allow: the half-open circuit lets nobody through.
AllowClosedOnly(p) == brk[p].backoff = 0

Allow(p) == ~BreakerOpen(p)

\* Mutant of Failed: past the cap the backoff starts again at its base.
FailedRestarts(s) ==
  LET backoff == IF s.backoff = 0 \/ 2 * s.backoff > MaxBackoff
                 THEN BaseBackoff ELSE 2 * s.backoff
  IN  IF s.fails + 1 < Threshold THEN [s EXCEPT !.fails = @ + 1]
      ELSE [fails |-> Threshold, wait |-> backoff, backoff |-> backoff]

\* The counter is compared with the threshold only, so it saturates there.
Failed(s) ==
  LET fails   == MinNat(s.fails + 1, Threshold)
      backoff == IF s.backoff = 0 THEN BaseBackoff
                                  ELSE MinNat(2 * s.backoff, MaxBackoff)
  IN  IF fails < Threshold THEN [s EXCEPT !.fails = fails]
      ELSE [fails |-> fails, wait |-> backoff, backoff |-> backoff]

RecordFailure(p) == brk' = [brk EXCEPT ![p] = Failed(@)]

RecordSuccess(p) == brk' = [brk EXCEPT ![p] = Fresh]

Retain(keep) == [p \in Identities |-> IF p \in keep THEN brk[p] ELSE Fresh]

-----------------------------------------------------------------------------
(* router.go and the ingress attempt loop *)

\* configuredChain drops the targets whose provider left the topology.
\* A chain keeps the order of the route, so it is a set of positions.
Configured == {i \in DOMAIN Route : Route[i] \in topology}

ResolveChain ==
  LET allowed == {i \in Configured : Allow(Route[i])}
  IN  IF allowed = {} THEN Configured ELSE allowed

Targets(chain) == {Route[i] : i \in chain}

Called(r) == Route[Min(call[r])]

Untried(r) == call[r] \ {Min(call[r])}

\* The observer notes who was let through while the circuit awaits a trial.
NoteTrial(r, chain) ==
  trial' = [p \in Identities |->
              IF p \in Targets(chain) /\ HalfOpen(p) THEN trial[p] \cup {r}
                                                   ELSE trial[p]]

Resolve(r) ==
  /\ call[r] = BreakerIdle
  /\ ResolveChain # {}
  /\ call' = [call EXCEPT ![r] = ResolveChain]
  /\ NoteTrial(r, ResolveChain)
  /\ UNCHANGED <<brk, topology, reloading, up>>

\* A request leaves the trials of the targets it no longer holds.
Leave(r, rest) ==
  /\ call' = [call EXCEPT ![r] = rest]
  /\ trial' = [p \in Identities |->
                 IF p \in Targets(rest) THEN trial[p] ELSE trial[p] \ {r}]

\* A 2xx, or the first event of a stream, commits the response.
CallSucceeds(r) ==
  /\ call[r] # BreakerIdle
  /\ Called(r) \in up
  /\ RecordSuccess(Called(r))
  /\ Leave(r, BreakerIdle)
  /\ UNCHANGED <<topology, reloading, up>>

\* A retriable failure before the first byte: record it, try the next target.
CallFails(r) ==
  /\ call[r] # BreakerIdle /\ Untried(r) # {}
  /\ Called(r) \notin up
  /\ RecordFailure(Called(r))
  /\ Leave(r, Untried(r))
  /\ UNCHANGED <<topology, reloading, up>>

\* The last target's failure is the client's answer and is not recorded.
LastCallFails(r) ==
  /\ call[r] # BreakerIdle /\ Untried(r) = {}
  /\ Called(r) \notin up
  /\ Leave(r, BreakerIdle)
  /\ UNCHANGED <<brk, topology, reloading, up>>

\* Cancellation, a 4xx or a budget refusal: terminal, and not recorded.
CallAbandoned(r) ==
  /\ call[r] # BreakerIdle
  /\ Leave(r, BreakerIdle)
  /\ UNCHANGED <<brk, topology, reloading, up>>

\* The reloader: holder.Swap, and then router.RetainBreakers.
Swap(gen) ==
  /\ ~reloading
  /\ topology' = gen
  /\ reloading' = TRUE
  /\ UNCHANGED <<brk, call, trial, up>>

RetainBreakers ==
  /\ reloading
  /\ reloading' = FALSE
  /\ brk' = Retain(topology)
  /\ UNCHANGED <<topology, call, trial, up>>

-----------------------------------------------------------------------------
(* environment *)

Tick ==
  /\ \E p \in Identities : brk[p].wait > 0
  /\ brk' = [p \in Identities |->
               [brk[p] EXCEPT !.wait = IF @ > 0 THEN @ - 1 ELSE 0]]
  /\ UNCHANGED <<topology, reloading, call, trial, up>>

HealthChanges(p) ==
  /\ up' = IF p \in up THEN up \ {p} ELSE up \cup {p}
  /\ UNCHANGED <<brk, topology, reloading, call, trial>>

NextBreaker ==
  \/ \E r \in Callers : \/ Resolve(r)
                         \/ CallSucceeds(r)
                         \/ CallFails(r)
                         \/ LastCallFails(r)
                         \/ CallAbandoned(r)
  \/ \E gen \in SUBSET Identities : Swap(gen)
  \/ RetainBreakers
  \/ Tick
  \/ \E p \in Identities : HealthChanges(p)

BreakerSpec == InitBreaker /\ [][NextBreaker]_breakerVars

-----------------------------------------------------------------------------
(* properties *)

\* A circuit is open or half-open only on the evidence of Threshold
\* consecutive failures, with a backoff between the base and the cap that its
\* open window never outlasts (RecordFailure, RecordSuccess and Retain keep
\* the three fields of an entry in step).
OpenOnEvidence ==
  \A p \in Identities :
    IF brk[p].backoff = 0
    THEN brk[p].fails < Threshold /\ brk[p].wait = 0
    ELSE /\ brk[p].fails = Threshold
         /\ brk[p].backoff \in BaseBackoff..MaxBackoff
         /\ brk[p].wait <= brk[p].backoff

\* A failure reported late, by a call that was admitted before the circuit
\* opened, never shortens the open window: only time, a success or the removal
\* of the provider ends it (RecordFailure).
FailureNeverShortens ==
  \A r \in Callers : CallFails(r) =>
     brk'[Called(r)].wait >= brk[Called(r)].wait

\* A provider that stays configured and answers is eventually trusted again:
\* its circuit closes for good (Allow lets a trial through once the window has
\* elapsed, and RecordSuccess clears the entry).
PrimaryRecovers ==
  (<>[](Route[1] \in up \cap topology)) => <>[](brk[Route[1]].backoff = 0)

\* breaker.go, on the half-open state: "allows one trial".
OneTrial == \A p \in Identities : Cardinality(trial[p]) <= 1

\* router.go, on an outcome recorded against a pruned identity: it "is reaped
\* by the next reload's RetainBreakers, so recording against it is harmless".
ReaddedStartsClean ==
  [][\A p \in Identities : p \in topology' \ topology => brk[p] = Fresh]_breakerVars

\* An open circuit rests on consecutive failures, and no later report of an
\* older call shortens it (breaker.go RecordFailure, RecordSuccess, Retain).
OpensOnEvidence ==
  [][BreakerTypeOK' /\ OpenOnEvidence' /\ FailureNeverShortens]_breakerVars
=============================================================================
