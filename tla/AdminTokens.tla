------------------------------ MODULE AdminTokens -----------------------------
(***************************************************************************)
(* How the admin port verifies OIDC tokens: discovery with a negative      *)
(* cache, then signature checks against a cached key set that is fetched   *)
(* again when no cached key verifies a token.  One fetch runs at a time;   *)
(* others wait for it and try its keys.  A fetch that left its token       *)
(* unverified, failed or panicked closes the door for a window, so that    *)
(* forged tokens cannot drive the identity provider.                       *)
(***************************************************************************)
EXTENDS Naturals, FiniteSets

CONSTANTS Bearers,          \* calls with a token
          KeyIds,           \* keys the provider signs with, one after the other
          MissWindow, LastInstant

ASSUME TokensAssumption == MissWindow \in Nat \ {0} /\ LastInstant \in Nat /\ KeyIds \subseteq Nat

VARIABLE jw   \* [now, published, ready, discovery, keys, fetch, lastMiss, calls, misses, failures]

Never == LastInstant + MissWindow + 1
Recently(at) == at # Never /\ jw.now - at < MissWindow
JStage(b) == jw.calls[b].stage
End(b, verdict) == [jw EXCEPT !.calls[b].stage = verdict]

-------------------------------------------------------------------------------
(* getVerifier: under its lock, discovery runs until it succeeds, not more often than     *)
(* once per backoff after a failure.                                                       *)
Bring(b, kid) ==
  /\ JStage(b) = "idle"
  /\ jw' = [jw EXCEPT !.calls[b] = [stage |-> "discovering", kid |-> kid]]
Discovered(b) == JStage(b) = "discovering" /\ jw.ready /\ jw' = End(b, "verifying")
NegativeCached(b) == JStage(b) = "discovering" /\ ~jw.ready /\ Recently(jw.discovery) /\ jw' = End(b, "rejected")
Discover(b, reached) ==
  /\ JStage(b) = "discovering" /\ ~jw.ready /\ ~Recently(jw.discovery)
  /\ jw' = IF reached THEN [End(b, "verifying") EXCEPT !.ready = TRUE]
           ELSE [End(b, "rejected") EXCEPT !.discovery = jw.now, !.failures = @ + 1]

(* VerifySignature with the cached keys. *)
VerifySignature(b) ==
  /\ JStage(b) = "verifying"
  /\ jw' = End(b, IF jw.calls[b].kid \in jw.keys THEN "accepted" ELSE "missed")

(* verifyAfterFetch: join the running fetch, be refused within the window, or fetch. *)
JoinFetch(b) == JStage(b) = "missed" /\ jw.fetch # {} /\ jw' = End(b, "waiting")
RateLimited(b) == JStage(b) = "missed" /\ jw.fetch = {} /\ Recently(jw.lastMiss) /\ jw' = End(b, "rejected")
StartFetch(b) ==
  /\ JStage(b) = "missed" /\ jw.fetch = {} /\ ~Recently(jw.lastMiss)
  /\ jw' = [End(b, "fetching") EXCEPT !.fetch = {b}]

(* The deferred settlement of a fetch: the new keys if there are any, the miss if the     *)
(* token was not verified, and the waiters are let go.                                     *)
Miss(fetched, ok) == ~ok
Settled(b, fetched, ok) ==
  [End(b, IF ok THEN "accepted" ELSE "rejected") EXCEPT
     !.keys = IF fetched THEN jw.published ELSE jw.keys, !.fetch = {},
     !.lastMiss = IF Miss(fetched, ok) THEN jw.now ELSE jw.lastMiss,
     !.misses = IF ok THEN jw.misses ELSE jw.misses + 1]
SettleFetch(b) ==
  JStage(b) = "fetching" /\ jw' = Settled(b, TRUE, jw.calls[b].kid \in jw.published)
FetchFails(b) == JStage(b) = "fetching" /\ jw' = Settled(b, FALSE, FALSE)
(* A panic in the transport unwinds through the same deferred call. *)
FetchPanicsBare(b) == JStage(b) = "fetching" /\ jw' = End(b, "rejected")
FetchPanics(b) == JStage(b) = "fetching" /\ jw' = Settled(b, FALSE, FALSE)

(* A waiter tries the keys once the fetch it joined is done, or its client leaves. *)
Wake(b) ==
  /\ JStage(b) = "waiting" /\ jw.fetch = {}
  /\ jw' = End(b, IF jw.calls[b].kid \in jw.keys THEN "accepted" ELSE "rejected")
Leave(b) == JStage(b) = "waiting" /\ jw' = End(b, "rejected")

(* The provider rotates its key; time passes. *)
Rotate(k) == jw.published # {k} /\ jw' = [jw EXCEPT !.published = {k}]
TickTokens == jw.now < LastInstant /\ jw' = [jw EXCEPT !.now = @ + 1]

-------------------------------------------------------------------------------
InitTokens ==
  \E k \in KeyIds :
    jw = [now |-> 0, published |-> {k}, ready |-> FALSE, discovery |-> Never, keys |-> {}, fetch |-> {},
          lastMiss |-> Never, calls |-> [b \in Bearers |-> [stage |-> "idle", kid |-> 0]], misses |-> 0, failures |-> 0]

(* Key 0 is nobody's: a forged or long withdrawn token. *)
NextTokens ==
  \/ \E b \in Bearers :
       \/ \E k \in KeyIds \cup {0} : Bring(b, k)
       \/ Discovered(b) \/ NegativeCached(b) \/ Discover(b, TRUE) \/ Discover(b, FALSE)
       \/ VerifySignature(b) \/ JoinFetch(b) \/ RateLimited(b) \/ StartFetch(b)
       \/ SettleFetch(b) \/ FetchFails(b) \/ FetchPanics(b) \/ Wake(b) \/ Leave(b)
  \/ \E k \in KeyIds : Rotate(k)
  \/ TickTokens

TokensSpec == InitTokens /\ [][NextTokens]_jw

-------------------------------------------------------------------------------
TokensTypeOK ==
  /\ jw.now \in 0..LastInstant /\ jw.keys \subseteq KeyIds /\ jw.published \subseteq KeyIds
  /\ jw.fetch \subseteq Bearers /\ Cardinality(jw.fetch) <= 1

(* However many forged tokens arrive together, and whether fetches fail, panic or only    *)
(* miss, the provider sees at most one fruitless fetch and one failed discovery per window.*)
ProviderSpared ==
  /\ jw.misses <= 1 + jw.now \div MissWindow
  /\ jw.failures <= 1 + jw.now \div MissWindow

(* Whoever is marked as fetching really is: a waiter never waits for a fetch that nobody  *)
(* runs any more.                                                                          *)
FetchIsRunning == \A b \in jw.fetch : JStage(b) = "fetching"

(* One fetch serves all: a fetch in flight is really running, and the provider is asked no *)
(* more often than the miss window allows (jwks.go key).                                    *)
FetchesAreOne == TokensTypeOK /\ FetchIsRunning /\ ProviderSpared
===============================================================================
