--------------------------- MODULE MC_Publication ---------------------------
(***************************************************************************)
(* Policies from the operator to the request path.  One instance of each   *)
(* component, chosen by `scene`: writes to the control plane's store, the  *)
(* distribution to a data plane, the file watchers, the legacy leases, the  *)
(* merges of the accepted documents and the topology of the gateway.       *)
(***************************************************************************)
EXTENDS PolicyWrites, PolicySync, PolicyFiles, BudgetLeases, PolicyMerge, Topology, TLC

CONSTANTS r1, r2, n1, b1, b2, mandatory, unknown, lenient, t1, t2

Scenes == {"writes", "sync", "files", "leases", "merge", "topology"}

VARIABLE scene

MCRefusals == (r1 :> {} @@ r2 :> {b2})
MCSeedFiles == (r1 :> {[name |-> n1, body |-> b1]} @@ r2 :> {[name |-> n1, body |-> b1]})

\* mandatory: enforceable strict routing; unknown: strict but unenforceable
\* here, for another subject; lenient: unenforceable and not mandatory.
MCGoverns == (mandatory :> t1 @@ unknown :> t2 @@ lenient :> t1)

-----------------------------------------------------------------------------
(* Documents for the merges: valid and refused ones *)

BudgetRule(n, lim, hard, per) ==
    [name |-> n, kind |-> "budget", fail |-> "FailClosed", unlimited |-> FALSE,
     limit |-> lim, hard |-> hard, grant |-> 0, period |-> per]
Unlimited(n) == [BudgetRule(n, 0, FALSE, "") EXCEPT !.unlimited = TRUE]
TierRule(n, ref, enforce, pct, sub) ==
    [name |-> n, kind |-> "tiers", fail |-> "FailOpen", ref |-> ref,
     enforce |-> enforce, tiers |-> <<[percent |-> pct, sub |-> sub]>>]
RateRule(n, rpm, tpm) ==
    [name |-> n, kind |-> "rate", fail |-> "FailClosed", unlimited |-> FALSE,
     rpm |-> rpm, tpm |-> tpm]
ExportRule(n, content) ==
    [name |-> n, kind |-> "observability", fail |-> "FailOpen",
     traces |-> <<"x", 50>>, audit |-> "", content |-> content]
AccessRule(n, allow) == [name |-> n, kind |-> "access", fail |-> "FailClosed", allow |-> allow]
SensitiveRule(n, fail) ==
    [name |-> n, kind |-> "sensitive", fail |-> fail, onDetected |-> "Mask",
     onUninspectable |-> "Block", internal |-> {}]
ContextRule(n) ==
    [name |-> n, kind |-> "context", fail |-> "FailOpen", mode |-> "", from |-> {"m"},
     simple |-> "a", complex |-> "b", maxSimple |-> 1, normal |-> "", maxNormal |-> 0,
     ttl |-> 2, hold |-> 1, requests |-> 3]
QuotaRule(n) == [name |-> n, kind |-> "quota", fail |-> "FailClosed", limit |-> 1, period |-> "day"]
Document(n, t, u, rs) == [name |-> n, team |-> t, user |-> u, rules |-> rs]

MCWireDocs ==
    {Document(n, "t", "", <<BudgetRule(1, l, h, "")>>) : n \in 1 .. 3, l \in {1, 2}, h \in BOOLEAN}
    \cup {Document(n, t, "u", <<BudgetRule(1, l, h, "day"), AccessRule(2, {"m"})>>) :
            n \in 1 .. 3, t \in {"t", ""}, l \in {1, 2}, h \in BOOLEAN}
    \cup {Document(n, "t", "", <<BudgetRule(1, 2, FALSE, ""), TierRule(2, 1, e, pct, ("m" :> to)),
                                 ExportRule(3, to)>>) :
            n \in 1 .. 3, e \in BOOLEAN, pct \in {50, 90}, to \in {"a", "b"}}
    \cup {Document(n, "", "u", <<BudgetRule(1, 1, TRUE, ""), TierRule(2, 1, FALSE, 60, ("m" :> "c")),
                                 ExportRule(3, "a")>>) : n \in 1 .. 3}
    \cup {Document(4, "t", "", <<RateRule(1, 1, 2), RateRule(2, 2, 1), Unlimited(3)>>),
          Document(4, "t", "", <<SensitiveRule(1, "FailClosed"), ContextRule(2), QuotaRule(3)>>),
          Document(4, "t", "", <<SensitiveRule(1, "FailOpen")>>),
          Document(4, "t", "u", <<BudgetRule(1, 4, FALSE, "month"),
                                  TierRule(2, 1, TRUE, 100, ("m" :> "d"))>>),
          Document(4, "t", "", <<BudgetRule(1, 40, FALSE, "month")>>),
          Document(4, "t", "", <<BudgetRule(1, 1, FALSE, "month"),
                                 TierRule(2, 1, TRUE, 100, ("m" :> "b" @@ "b" :> "a"))>>)}

-----------------------------------------------------------------------------
(* Configuration files, secrets and console writes for the topology: files *)
(* that load and build, that load and do not build, and that do not load.  *)

ProviderRow(ref, mode, fault) == [ref |-> ref, mode |-> mode, fault |-> fault]
ModelRoute(targets, aliases, window) == [targets |-> targets, aliases |-> aliases, window |-> window]

ConfigFile ==
    [wellFormed |-> TRUE, token |-> "tok", brokerToken |-> NoRef, classifierToken |-> NoRef,
     journal |-> NoRef, providers |-> ("p" :> ProviderRow("k1", "key", "none")),
     models |-> ("m" :> ModelRoute({<<"p", "u">>}, {"a"}, 1)),
     fallbacks |-> <<>>, priced |-> {}, onMissing |-> "allow"]

MCContents ==
    {ConfigFile,
     [ConfigFile EXCEPT !.priced = {<<"p", "u">>}, !.onMissing = "block", !.fallbacks = ("x" :> "a")],
     [ConfigFile EXCEPT !.brokerToken = "btok", !.journal = "j", !.classifierToken = "k1",
                        !.providers = ("p" :> ProviderRow("sts", "broker", "none"))],
     [ConfigFile EXCEPT !.providers = ("p" :> ProviderRow("k1", "key", "ref"))],
     [ConfigFile EXCEPT !.models = ("m" :> ModelRoute({<<"q", "u">>}, {}, 0))],
     [ConfigFile EXCEPT !.wellFormed = FALSE]}

MCSecretStates == {{"tok", "btok", "k1", "k2", "sts"}, {"tok", "k2"}}

MCProviderPuts ==
    {<<"p", ProviderRow("k2", "key", "none")>>, <<"q", ProviderRow("sts", "broker", "none")>>,
     <<"q", ProviderRow(NoRef, "key", "none")>>, <<"q", ProviderRow(NoRef, "key", "type")>>,
     <<"q", ProviderRow(NoRef, "key", "inline")>>}

MCModelPuts ==
    {<<"m", ModelRoute({<<"q", "u">>}, {}, 0)>>, <<"n", ModelRoute({<<"p", "u">>}, {"a"}, 1)>>,
     <<"n", ModelRoute({<<"p", "v">>}, {}, 0)>>, <<"n", ModelRoute({}, {}, 0)>>}

-----------------------------------------------------------------------------

MCInit ==
    /\ scene \in Scenes
    /\ WritesInit /\ FilesInit /\ MergeInit
    /\ SyncInit /\ (scene # "sync" => deployment = "legacy")
    /\ TopologyInit /\ (scene # "topology" => saved.body = ConfigFile /\ "k1" \in secrets)
    /\ LeasesInit /\ limit = 2 /\ tiers = 2

MCNext ==
    /\ UNCHANGED scene
    /\ \/ scene = "writes" /\ WritesNext /\ UNCHANGED <<syncVars, fileVars, leaseVars, mergeVars, topologyVars>>
       \/ scene = "sync" /\ SyncNext /\ UNCHANGED <<writeVars, fileVars, leaseVars, mergeVars, topologyVars>>
       \/ scene = "files" /\ FilesNext /\ UNCHANGED <<writeVars, syncVars, leaseVars, mergeVars, topologyVars>>
       \/ scene = "leases" /\ LeasesNext /\ UNCHANGED <<writeVars, syncVars, fileVars, mergeVars, topologyVars>>
       \/ scene = "merge" /\ MergeNext /\ UNCHANGED <<writeVars, syncVars, fileVars, leaseVars, topologyVars>>
       \/ scene = "topology" /\ TopologyNext /\ UNCHANGED <<writeVars, syncVars, fileVars, leaseVars, mergeVars>>

\* The data planes of the lease ledger are interchangeable.
Symmetry == Permutations(Dataplanes)

=============================================================================
