---------------------------- MODULE MC_Admission ----------------------------
(***************************************************************************)
(* Admission to a provider call, component by component: the shared        *)
(* reservations in the authority database, the gateway's own two-phase     *)
(* admission over its counters, and the alerts its settlements raise.      *)
(***************************************************************************)
EXTENDS SharedAdmission, Governance, BudgetAlerts, TLC

CONSTANTS a1, a2, minuteRate, dollars

VARIABLE scene

-----------------------------------------------------------------------------
(* Shared reservations: two attempts *)

Def(n, hard) == [limit |-> n, hard |-> hard]

\* A rate of one call per minute, and a budget that may turn soft.
MCKind == (minuteRate :> "rpm") @@ (dollars :> "microUSD")
MCOrder == <<minuteRate, dollars>>
MCDefinitions == (minuteRate :> {Def(1, TRUE)}) @@ (dollars :> {Def(10, TRUE), Def(10, FALSE)})

\* One unit for each category, two for the output, and more for long prompts.
Price(n) == [c \in Categories |-> IF c = "output" THEN 2 * n ELSE n]
Long == [price |-> Price(3), unsupported |-> FALSE]
MCRate == [price |-> Price(2), unsupported |-> FALSE, limit |-> 1, long |-> Long]

\* Nothing; a small call; one that fills every category, with and without the
\* division of its cache writes; and one beyond the window.
Full == [NoUsage EXCEPT !.input = 1, !.output = 1, !.read = 1, !.split = TRUE,
                        !.write5m = 1, !.write1h = 1]
MCReports == {NoUsage, [NoUsage EXCEPT !.input = 0, !.output = 1], Full,
              [Full EXCEPT !.input = 2]}

-----------------------------------------------------------------------------
(* Governance: two requests of one team, each with its own key, one of them with a user *)

MC_Requests == {"r1", "r2"}
MC_KeyOf == [r \in MC_Requests |-> IF r = "r1" THEN "k1" ELSE "k2"]
MC_UserOf == [r \in MC_Requests |-> IF r = "r1" THEN "u1" ELSE "none"]
MC_Limits == (<<"tpm", "team">> :> 2) @@ (<<"quota", "team">> :> 3) @@ (<<"rpm", "k2">> :> 2)
             @@ (<<"month", "team">> :> 3) @@ (<<"day", "team">> :> 4) @@ (<<"day", "u1">> :> 1)
MC_Warn == {<<"day", "u1">>}
MC_Attempts == [r \in MC_Requests |-> IF r = "r1" THEN 2 ELSE 1]
Answer(kind, cost, tokens) == [kind |-> kind, cost |-> cost, tokens |-> tokens]
MC_Answers == {Answer("complete", 1, 0), Answer("complete", 3, 2), Answer("partial", 1, 0),
               Answer("partial", NothingUsed, 2), Answer("invalid", NothingUsed, 2), Answer("uncountable", NothingUsed, 0)}
MC_Edits == (<<"month", "team">> :> {0, 3})

-----------------------------------------------------------------------------
(* Alerts: two settlements; one may reach a threshold alone, both together reach two *)

MCThresholds == [team |-> {4, 5}, key |-> {3, 6}]

Swapped == Permutations({a1, a2})

-----------------------------------------------------------------------------
MCInit ==
  /\ scene \in {"shared", "governance", "alerts"}
  /\ InitShared /\ (scene # "shared" => \A c \in DOMAIN defs : defs[c] = CHOOSE d \in MCDefinitions[c] : d.hard)
  /\ InitGovernance /\ (scene # "governance" => ~hasAuthority)
  /\ InitAlerts

\* The alerts alone, for the comment on Settle.
AlertsInit == MCInit /\ scene = "alerts"

MCNext ==
  /\ UNCHANGED scene
  /\ \/ scene = "shared" /\ NextShared /\ UNCHANGED <<governanceVars, al>>
     \/ scene = "governance" /\ NextGovernance /\ UNCHANGED <<sharedVars, al>>
     \/ scene = "alerts" /\ NextAlerts /\ UNCHANGED <<sharedVars, governanceVars>>

\* An admission rests on what is current and can be counted: nothing is booked
\* on an identity, key, policy or window that has changed since the gateway
\* looked (ReserveShared), and a limit that finds no room for its counter fails
\* closed (PreCheck).
AdmittedSoundly == [][AdmittedOnCurrent /\ CapacityFailsClosed]_<<sharedVars, governanceVars>>
=============================================================================
