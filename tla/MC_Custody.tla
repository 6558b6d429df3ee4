----------------------------- MODULE MC_Custody -----------------------------
(***************************************************************************)
(* What the gateway keeps and guards for its tenants, component by         *)
(* component: keys and identities, the gates in front of every handler,    *)
(* the admin tokens, the audit trail, the usage windows, the exporter's    *)
(* limits and rules, and the stored bodies.                                *)
(***************************************************************************)
EXTENDS KeyStore, ServerGates, AdminTokens, AuditTrail, UsageWindows, ExportConsole, BodyStore

CONSTANTS a1, a2, a3   \* the actors of a scene: processes, calls, bearers or editors

VARIABLE scene

-----------------------------------------------------------------------------
(* Keys: two processes, two team files with a key, and one imported store.  Identities are *)
(* required at once, or optional first and required later while no team is edited.         *)

MCBound == [ident |-> <<"o", "ada">>, account |-> <<"alice">>]
MCDeclarations ==
  {NoMode} \cup {[org |-> "o", required |-> required, bindings |-> {MCBound}] : required \in BOOLEAN}
KeyRow(team, owner, ident) == [team |-> team, owner |-> owner, ident |-> ident]
MCSeedFiles == {[teams |-> [t \in {"t1"} |-> "seeded"], keys |-> [h \in {"h1"} |-> KeyRow("t1", <<"alice">>, None)]],
                [teams |-> [t \in {} |-> "seeded"], keys |-> [h \in {"h1"} |-> KeyRow("t2", None, <<"o", "ada">>)]]}
MCSources == {[mode |-> NoMode, registry |-> {}, teams |-> [t \in {"t1"} |-> "imported"],
               keys |-> [h \in {"h2"} |-> KeyRow("t1", <<"alice">>, None) @@ [revoked |-> FALSE]]]}
MCOwner == <<"alice">>

-----------------------------------------------------------------------------
(* Exporter: two ceilings, one rule; bodies: three, the second too large, and two rotations *)

MCCeilings == {[signals |-> {"audit", "content"}, cap |-> 2], [signals |-> {"content"}, cap |-> 1]}
MCLimits == {NoLimit, [NoLimit EXCEPT !.paused = TRUE], [NoLimit EXCEPT !.signals = {"audit"}], [NoLimit EXCEPT !.cap = 1]}
MCRules == [{"r1"} -> RuleShapes]

MCSizes == <<1, 3, 1>>
MCRotations == [x1 |-> [old |-> 1, new |-> 2], x2 |-> [old |-> 1, new |-> 3]]

Swapped == Permutations({a1, a2})

-----------------------------------------------------------------------------
\* A bound of the key scenes: a key is minted or revoked, not both at a time.
OneCall == ks.minting = {} \/ ks.revoking = {}

MCInit ==
  /\ scene \in {"keys", "rollout", "gates", "tokens", "audit", "usage", "console", "bodies"}
  /\ InitKeys /\ InitAudit /\ InitUsage /\ InitBodies
  /\ InitGates /\ gt.up = {"store", "audit", "governance"}
  /\ InitTokens /\ (scene # "tokens" => jw.published = {1})
  /\ InitConsole /\ ec.live.rules["r1"] \in {"absent", "unsampled"}
  /\ scene # "console" => ec.ceiling.cap = 2 /\ ec.live.rules["r1"] = "absent"

MCNext ==
  /\ UNCHANGED scene
  /\ \/ /\ scene = "keys" /\ NextKeys /\ OneCall' /\ (ks'.mode.org # "" => ks'.mode.required)
        /\ UNCHANGED <<gt, jw, au, us, ec, bs>>
     \/ /\ scene = "rollout" /\ NextKeys /\ OneCall' /\ ks'.edits = TeamEdits
        /\ UNCHANGED <<gt, jw, au, us, ec, bs>>
     \/ scene = "gates" /\ NextGates /\ UNCHANGED <<ks, jw, au, us, ec, bs>>
     \/ scene = "tokens" /\ NextTokens /\ UNCHANGED <<ks, gt, au, us, ec, bs>>
     \/ scene = "audit" /\ NextAudit /\ UNCHANGED <<ks, gt, jw, us, ec, bs>>
     \/ scene = "usage" /\ NextUsage /\ UNCHANGED <<ks, gt, jw, au, ec, bs>>
     \/ scene = "console" /\ NextConsole /\ UNCHANGED <<ks, gt, jw, au, us, bs>>
     \/ scene = "bodies" /\ NextBodies /\ UNCHANGED <<ks, gt, jw, au, us, ec>>

=============================================================================
