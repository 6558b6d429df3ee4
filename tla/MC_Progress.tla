----------------------------- MODULE MC_Progress -----------------------------
(***************************************************************************)
(* What must eventually happen, component by component, each under the     *)
(* fairness its own loop has: the credit of a removed budget returns, the  *)
(* preferred provider is used again, and a queued export leaves.           *)
(***************************************************************************)
EXTENDS Escrow, CircuitBreaker, ExportPipeline

CONSTANTS disk, team, primary, secondary

VARIABLE scene

-----------------------------------------------------------------------------
(* Credit: an operator removes the budget and puts it back; calls turn out free or unknown *)

MCRemoved == {[limit |-> 2, grant |-> 2, hard |-> TRUE], NoBudget}
MCRefunds == {[actual |-> 0, known |-> known, complete |-> known, invalid |-> FALSE] : known \in BOOLEAN}

(* Providers: two targets, the first is preferred *)

MCRoute == <<primary, secondary>>

(* Export: an audit record and two contents, the batches hold two items or three bytes *)

MCItems == 1..3
MCSignals == <<"audit", "content", "content">>
MCSizes == <<1, 2, 2>>
MCCeiling == [signals |-> {"audit", "content"}, cap |-> 2]
MCLimits == {[NoLimit EXCEPT !.paused = TRUE], [NoLimit EXCEPT !.signals = {"audit"}], [NoLimit EXCEPT !.cap = 1]}

-----------------------------------------------------------------------------
MCInit == scene \in {"credit", "providers", "export"} /\ Init /\ InitBreaker /\ InitPipeline
          /\ (scene # "credit" => budget[team] = NoBudget)

\* The breaker alone, for the comments of breaker.go.
ProvidersInit == MCInit /\ scene = "providers"

MCNext ==
  /\ UNCHANGED scene
  /\ \/ scene = "credit" /\ Next /\ UNCHANGED <<breakerVars, ep>>
     \/ scene = "providers" /\ NextBreaker /\ UNCHANGED <<vars, ep>>
     \/ scene = "export" /\ NextPipeline /\ UNCHANGED <<vars, breakerVars>>

\* Leases are finite, calls end, and the sync loop tries again for ever; an
\* exchange that is attempted again and again succeeds again and again.
CreditFairness ==
  /\ WF_vars(scene = "credit" /\ SendSync(disk))
  /\ SF_vars(scene = "credit" /\ ServeSync(disk))
  /\ SF_vars(scene = "credit" /\ ApplyReply(disk))
  /\ WF_vars(scene = "credit" /\ \E p \in 1..MaxPermits, o \in Outcomes : Finish(disk, p, o))
  /\ WF_vars(scene = "credit" /\ \E id \in DOMAIN db.rows : GrantExpires(disk, id))

\* The wall clock advances; the reloader finishes; every request is served,
\* and a client does not abandon every one of its calls to a live provider.
ProviderFairness ==
  /\ WF_breakerVars(scene = "providers" /\ Tick)
  /\ WF_breakerVars(scene = "providers" /\ RetainBreakers)
  /\ \A r \in Callers : /\ WF_breakerVars(scene = "providers" /\ Resolve(r))
                        /\ SF_breakerVars(scene = "providers" /\ CallSucceeds(r))
                        /\ WF_breakerVars(scene = "providers" /\ (CallFails(r) \/ LastCallFails(r)))

\* The pipeline's own goroutine moves: its ticker, its channel and the timeout
\* of each attempt keep it going, whether or not the collector answers.
ExportFairness == WF_ep(scene = "export" /\ Loop)

MCSpec ==
  /\ MCInit /\ [][MCNext]_<<scene, vars, breakerVars, ep>>
  /\ CreditFairness /\ ProviderFairness /\ ExportFairness

=============================================================================
