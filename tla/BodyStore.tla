------------------------------ MODULE BodyStore -------------------------------
(***************************************************************************)
(* Captured request and response bodies: a bounded queue and a worker that *)
(* seals each body under its own data key, wrapped by a master key, and    *)
(* stores it; reads, erasure, expiry and the size cap; and the rotation    *)
(* command, which lists the wrapped keys and replaces them one by one      *)
(* while gateways keep writing and other rotations run.                    *)
(***************************************************************************)
EXTENDS Naturals, Sequences, FiniteSets, FiniteSetsExt

CONSTANTS Refs,             \* bodies offered for capture, in their order
          BodyQueueCap,     \* recorderQueueCap
          SizeOfBody, MaxBodyBytes, StoreBytes,
          Ttl, LastTick,
          MasterKeys,       \* 1, 2, ...: successive master keys; gateways start with 1
          Rotations,        \* runs of the rotation command
          RotationOf,       \* [old, new] of each run
          StoreFaults

ASSUME BodyAssumption ==
  /\ Refs \subseteq Nat /\ BodyQueueCap \in Nat \ {0} /\ Ttl \in Nat /\ LastTick \in Nat /\ StoreFaults \in Nat
  /\ SizeOfBody \in [Refs -> Nat] /\ MaxBodyBytes \in Nat
  /\ MasterKeys \subseteq Nat /\ 1 \in MasterKeys

(* Rotations lead to a later key, and none that runs meanwhile leads to a key another one  *)
(* retires: with 1 to 2 and 2 to 3 at a time the second skips a row the first then moves.  *)
ASSUME RotationAssumption ==
  /\ \A x \in Rotations : RotationOf[x].new \in MasterKeys /\ RotationOf[x].old \in Nat
  /\ \A x, y \in Rotations : RotationOf[x].old < RotationOf[x].new /\ RotationOf[x].new # RotationOf[y].old

VARIABLE bs

BFault == bs.faults < StoreFaults
Rows == {r \in Refs : bs.rows[r].there}
NoRow == [there |-> FALSE, key |-> 0, wrap |-> 0, expires |-> 0]

-------------------------------------------------------------------------------
(* Capture hands out a reference when the body fits and the queue has room; the audit      *)
(* record then carries the reference, whatever becomes of the job.                         *)
BodyTooLargeNever(r) == FALSE
BodyTooLarge(r) == SizeOfBody[r] > MaxBodyBytes
Captured(r) == bs.offered = r - 1 /\ r \in Refs
CaptureDropped(r) ==
  /\ Captured(r) /\ (BodyTooLarge(r) \/ Len(bs.ch) >= BodyQueueCap)
  /\ bs' = [bs EXCEPT !.offered = r]
Capture(r) ==
  /\ Captured(r) /\ ~BodyTooLarge(r) /\ Len(bs.ch) < BodyQueueCap
  /\ bs' = [bs EXCEPT !.offered = r, !.ch = Append(@, [ref |-> r, expires |-> bs.now + Ttl])]

(* worker: seal under a fresh data key wrapped by the gateway's master key, then Put, which *)
(* leaves an existing row alone; a failed write drops the body.                             *)
SealEnvelope(job) == [there |-> TRUE, key |-> bs.master, wrap |-> 1, expires |-> job.expires]
PutBody ==
  /\ bs.ch # <<>>
  /\ bs' = [bs EXCEPT !.ch = Tail(@), !.rows[Head(bs.ch).ref] = IF @.there THEN @ ELSE SealEnvelope(Head(bs.ch))]
PutFails == bs.ch # <<>> /\ BFault /\ bs' = [bs EXCEPT !.ch = Tail(@), !.faults = @ + 1]

Erase(r) == bs.rows[r].there /\ bs' = [bs EXCEPT !.rows[r] = NoRow, !.erased = @ \cup {r}]

-------------------------------------------------------------------------------
(* Purge: expired rows, then the oldest rows while the rest is too large. *)
Expired(r) == bs.rows[r].expires <= bs.now
Live == {r \in Rows : ~Expired(r)}
KeptByPurge == {r \in Live : MapThenSumSet(LAMBDA q : SizeOfBody[q], {q \in Live : q >= r}) <= StoreBytes}
Purge ==
  /\ Rows # {} /\ KeptByPurge # Rows
  /\ bs' = [bs EXCEPT !.rows = [r \in Refs |-> IF r \in KeptByPurge THEN @[r] ELSE NoRow]]
Clock == bs.now < LastTick /\ bs' = [bs EXCEPT !.now = @ + 1]

-------------------------------------------------------------------------------
(* rewrap-key: list once, then per row unwrap with the old key, wrap with the new one and  *)
(* replace the wrapped key only if it is still the one listed.                             *)
RunOf(x) == bs.runs[x]
ListWrappedKeys(x) ==
  /\ RunOf(x).stage = "idle" /\ Rows # {}
  /\ bs' = [bs EXCEPT !.runs[x] = [@ EXCEPT !.stage = "rewrapping", !.listed = bs.rows, !.left = Rows]]
Unwraps(x, r) == RunOf(x).listed[r].key = RotationOf[x].old
Skip(x, r) ==
  /\ RunOf(x).stage = "rewrapping" /\ r \in RunOf(x).left /\ ~Unwraps(x, r)
  /\ bs' = [bs EXCEPT !.runs[x].left = @ \ {r}, !.runs[x].skipped = @ + 1]
SameWrap(x, r) == /\ bs.rows[r].key = RunOf(x).listed[r].key
                  /\ bs.rows[r].wrap = RunOf(x).listed[r].wrap
Matches(x, r) == bs.rows[r].there /\ SameWrap(x, r)
UpdateWrappedKey(x, r) ==
  /\ RunOf(x).stage = "rewrapping" /\ r \in RunOf(x).left /\ Unwraps(x, r)
  /\ bs' = IF Matches(x, r)
           THEN [bs EXCEPT !.runs[x].left = @ \ {r}, !.runs[x].rewrapped = @ + 1, !.wraps = @ + 1,
                           !.rows[r] = [@ EXCEPT !.there = TRUE, !.key = RotationOf[x].new, !.wrap = bs.wraps + 2]]
           ELSE [bs EXCEPT !.runs[x].left = @ \ {r}]
UpdateFails(x, r) ==
  /\ RunOf(x).stage = "rewrapping" /\ r \in RunOf(x).left /\ Unwraps(x, r) /\ BFault
  /\ bs' = [bs EXCEPT !.runs[x].left = @ \ {r}, !.runs[x].failed = @ + 1, !.faults = @ + 1]
ExitCodeSkipping(x) == IF RunOf(x).rewrapped = 0 /\ RunOf(x).skipped > 0 THEN 1 ELSE 0
ExitCode(x) == IF RunOf(x).failed > 0 \/ (RunOf(x).rewrapped = 0 /\ RunOf(x).skipped > 0) THEN 1 ELSE 0
EndRewrap(x) ==
  /\ RunOf(x).stage = "rewrapping" /\ RunOf(x).left = {}
  /\ bs' = [bs EXCEPT !.runs[x].stage = IF ExitCode(x) = 0 THEN "done" ELSE "failed"]
DeployKey(k) == k = bs.master + 1 /\ k \in MasterKeys /\ bs' = [bs EXCEPT !.master = k]

-------------------------------------------------------------------------------
InitBodies ==
  bs = [offered |-> 0, ch |-> <<>>, rows |-> [r \in Refs |-> NoRow], now |-> 0, master |-> 1, wraps |-> 0,
        faults |-> 0, erased |-> {},
        runs |-> [x \in Rotations |-> [stage |-> "idle", listed |-> [r \in Refs |-> NoRow], left |-> {},
                                       rewrapped |-> 0, skipped |-> 0, failed |-> 0]]]
NextBodies ==
  \/ PutBody \/ PutFails \/ Purge \/ Clock \/ \E k \in MasterKeys : DeployKey(k)
  \/ \E r \in Refs : \/ CaptureDropped(r) \/ Capture(r) \/ Erase(r)
                     \/ \E x \in Rotations : Skip(x, r) \/ UpdateWrappedKey(x, r) \/ UpdateFails(x, r)
  \/ \E x \in Rotations : ListWrappedKeys(x) \/ EndRewrap(x)
BodiesSpec == InitBodies /\ [][NextBodies]_bs

-------------------------------------------------------------------------------
(* A stored body that was erased stays gone: no rotation running at the time brings its    *)
(* row back (UpdateWrappedKey).                                                            *)
ErasedStaysGone == \A r \in bs.erased : ~bs.rows[r].there

(* A rotation that reports success leaves none of the rows it found under the key the      *)
(* operator is about to retire, whatever failed or raced (the exit code of rewrap-key).    *)
RetireIsSafe ==
  \A x \in Rotations : RunOf(x).stage = "done" =>
    \A r \in Refs : RunOf(x).listed[r].there /\ bs.rows[r].there => bs.rows[r].key # RotationOf[x].old

(* Rotations never undo each other: the master key a row is wrapped under only moves       *)
(* forward, though a run that listed the row before another one rewrapped it is still      *)
(* going (the compare-and-swap).                                                           *)
KeysMoveForward == \A r \in Refs : bs.rows[r].there /\ bs'.rows[r].there => bs'.rows[r].key >= bs.rows[r].key

BodyTypeOK ==
  /\ Len(bs.ch) <= BodyQueueCap
  /\ \A r \in Refs : bs.rows[r].there => bs.rows[r].key \in MasterKeys /\ SizeOfBody[r] <= MaxBodyBytes
  /\ bs.now \in 0..LastTick

(* Stored bodies under rotation: wrapped keys only move forward, an erased body stays gone, *)
(* and the exit code never invites the operator to retire a key that is still in use.       *)
BodiesHold == [][BodyTypeOK' /\ KeysMoveForward /\ ErasedStaysGone' /\ RetireIsSafe']_bs
===============================================================================
