------------------------------ MODULE Topology ------------------------------
(***************************************************************************)
(* The topology a gateway serves (providers, routes, prices) and the store *)
(* that is authoritative for it.  The first boot seeds the store from the  *)
(* configuration file; from then on providers and models come from the     *)
(* store and everything else from the file.  SIGHUP re-reads both; a write *)
(* of the console validates a candidate, persists the row and swaps the    *)
(* validated generation in.  Both hold reloadMu.  The file, the secrets    *)
(* and the process itself change at any moment.                            *)
(***************************************************************************)
EXTENDS Integers, Functions

CONSTANTS
    NoRef,         \* the absent api_key_ref
    Contents,      \* what an operator may save as the configuration file
    SecretStates,  \* the sets of references that resolve at a time
    ProviderPuts,  \* <<name, row>> of PUT /admin/providers/{name}
    ModelPuts,     \* <<name, route>> of PUT /admin/models/{name}
    MaxSaves, MaxWrites, MaxCrashes

\* The sections of a configuration file that the topology depends on.
Sections == {"wellFormed", "token", "brokerToken", "classifierToken", "journal",
             "providers", "models", "fallbacks", "priced", "onMissing"}

ASSUME TopologyAssumption ==
    /\ \A c \in Contents : DOMAIN c = Sections
    /\ MaxSaves \in Nat /\ MaxWrites \in Nat /\ MaxCrashes \in Nat

VARIABLES
    saved,    \* the file on disk: [n |-> its version, body |-> its content]
    secrets,  \* the references (and brokered credentials) obtainable now
    dbRows,   \* the store: [seeded, providers, models]
    serving,  \* the published generation, or Down
    bound,    \* what the process fixed when it booted
    pending,  \* the write that holds reloadMu, or Idle
    written,  \* history: the last write persisted for each resource
    newest,   \* history: the newest file this process has served from
    vetted,   \* history: the file that the stored rows last built with
    tally      \* saves, writes and crashes so far

topologyVars == <<saved, secrets, dbRows, serving, bound, pending, written, newest, vetted, tally>>

Gone == [gone |-> TRUE]
Down == [down |-> TRUE]
Idle == [step |-> "idle"]
NoRows == [seeded |-> FALSE, providers |-> <<>>, models |-> <<>>]

-----------------------------------------------------------------------------
(* Validation *)

\* No alias is a model's name or another model's alias; windows are counts.
ValidateModelAliases(models) ==
    \A m \in DOMAIN models :
        /\ models[m].window >= 0
        /\ models[m].aliases \cap DOMAIN models = {}
        /\ \A o \in DOMAIN models \ {m} : models[m].aliases \cap models[o].aliases = {}

\* A fallback names another configured model or alias, in one hop.
ValidateModelFallbacks(models, fallbacks) ==
    LET known == DOMAIN models \cup UNION {models[m].aliases : m \in DOMAIN models} IN
    \A requested \in DOMAIN fallbacks :
        /\ fallbacks[requested] # requested
        /\ fallbacks[requested] \in known
        /\ fallbacks[requested] \notin DOMAIN fallbacks

\* The faults of a provider's row, by the check that refuses them.
Faultless(providers, faults) == \A p \in DOMAIN providers : providers[p].fault \notin faults

\* The bearer tokens of the control-plane block resolve and differ.
ValidateControlPlane(file) ==
    /\ {file.token, file.brokerToken} \subseteq secrets \cup {NoRef}
    /\ file.brokerToken # NoRef => file.brokerToken # file.token

\* The file parses, has no inline secret, and every section of it is valid;
\* the providers' references are neither resolved nor checked for shape.
LoadRaw(file) ==
    /\ file.wellFormed
    /\ Faultless(file.providers, {"inline", "boundary"})
    /\ ValidateModelAliases(file.models)
    /\ ValidateModelFallbacks(file.models, file.fallbacks)
    /\ ValidateControlPlane(file)

\* Every reference resolves; broker mode needs the broker's own token.
ResolveProviders(cfg) ==
    /\ Faultless(cfg.providers, {"boundary", "header"})
    /\ \A p \in DOMAIN cfg.providers :
        /\ cfg.providers[p].ref \in secrets \cup {NoRef}
        /\ cfg.providers[p].mode = "broker" => cfg.brokerToken # NoRef

Targets(cfg) == UNION {cfg.models[m].targets : m \in DOMAIN cfg.models}

\* An override prices a route that exists; under "block" all routes are priced.
ValidatePricingCoverage(cfg) ==
    /\ \A t \in cfg.priced : t[1] \in DOMAIN cfg.providers
    /\ cfg.priced \subseteq Targets(cfg)
    /\ cfg.onMissing = "block" => Targets(cfg) \subseteq cfg.priced

\* The classifiers' bearer token is resolved when the generation is built.
BuildClassifiers(cfg) == cfg.classifierToken \in secrets \cup {NoRef}

\* Every provider can be constructed and every route leads to one.
BuildState(cfg, credSrc) ==
    /\ Faultless(cfg.providers, {"boundary", "type"})
    /\ ValidateModelAliases(cfg.models)
    /\ \A p \in DOMAIN cfg.providers : cfg.providers[p].mode = "broker" => credSrc
    /\ \A t \in Targets(cfg) : t[1] \in DOMAIN cfg.providers
    /\ ValidatePricingCoverage(cfg)
    /\ BuildClassifiers(cfg)

\* With a durable journal the priced routes need a finite context window.
ValidateDurableModels(cfg) ==
    cfg.journal # NoRef =>
        \A m \in DOMAIN cfg.models :
            cfg.models[m].targets \cap cfg.priced # {} => cfg.models[m].window > 0

\* The settings that bind the running journal change only with a restart.
ValidateAuthorityReload(file) == file.journal = bound.journal

-----------------------------------------------------------------------------
(* The store *)

OverlayFrom(file, store) ==
    [file EXCEPT !.providers = store.providers, !.models = store.models]

\* The file's rows and the marker in one transaction, unless the marker is set.
Seed(file) ==
    IF dbRows.seeded THEN dbRows
    ELSE [seeded |-> TRUE, providers |-> file.providers, models |-> file.models]

\* The file's rows are checked at every boot, also when the store is seeded.
SeedAccepts(file) ==
    /\ ValidateModelAliases(file.models)
    /\ Faultless(file.providers, {"boundary", "ref"})

SetRow(table, name, row) ==
    IF row = Gone THEN Restrict(table, DOMAIN table \ {name})
    ELSE [n \in DOMAIN table \cup {name} |-> IF n = name THEN row ELSE table[n]]

\* UpsertProvider, DeleteProvider, SetModel, DeleteModel.
Applied(store, w) ==
    [seeded |-> store.seeded,
     providers |-> IF w.table = "providers" THEN SetRow(store.providers, w.name, w.row)
                   ELSE store.providers,
     models |-> IF w.table = "models" THEN SetRow(store.models, w.name, w.row)
                ELSE store.models]

StoredRow(table, name) == IF name \in DOMAIN table THEN table[name] ELSE Gone

Stored(store, w) ==
    StoredRow(IF w.table = "providers" THEN store.providers ELSE store.models, w.name)

-----------------------------------------------------------------------------
(* The bodies a write handler lets through *)

ParseProviderWrite(row) == row.fault \notin {"inline", "boundary", "ref", "header"}

ParseModelWrite(route) == route.window >= 0 /\ route.targets # {}

Requests ==
    {[table |-> "providers", name |-> p[1], row |-> p[2]] :
        p \in {q \in ProviderPuts : ParseProviderWrite(q[2])}}
    \cup {[table |-> "models", name |-> m[1], row |-> m[2]] :
        m \in {q \in ModelPuts : ParseModelWrite(q[2])}}
    \cup {[table |-> "providers", name |-> p[1], row |-> Gone] : p \in ProviderPuts}
    \cup {[table |-> "models", name |-> m[1], row |-> Gone] : m \in ModelPuts}

-----------------------------------------------------------------------------
(* The process *)

TopologyInit ==
    /\ saved \in {[n |-> 1, body |-> c] : c \in Contents}
    /\ secrets \in SecretStates
    /\ dbRows = NoRows
    /\ serving = Down
    /\ bound = [journal |-> NoRef, credSrc |-> FALSE]
    /\ pending = Idle
    /\ written = {} /\ newest = 0 /\ vetted = 0
    /\ tally = [saves |-> 0, writes |-> 0, crashes |-> 0]

\* The operator saves the file.
SaveFile ==
    /\ tally.saves < MaxSaves
    /\ \E c \in Contents \ {saved.body} : saved' = [n |-> saved.n + 1, body |-> c]
    /\ tally' = [tally EXCEPT !.saves = @ + 1]
    /\ UNCHANGED <<secrets, dbRows, serving, bound, pending, written, newest, vetted>>

\* A secret is set, rotated away or unreadable.
SecretsChange ==
    /\ tally.saves < MaxSaves
    /\ secrets' \in SecretStates \ {secrets}
    /\ tally' = [tally EXCEPT !.saves = @ + 1]
    /\ UNCHANGED <<saved, dbRows, serving, bound, pending, written, newest, vetted>>

\* holder.Swap: one generation, made of file version n and a topology.
SwapGeneration(n, cfg) ==
    /\ serving' = [n |-> n, cfg |-> cfg]
    /\ newest' = IF n > newest THEN n ELSE newest
    /\ vetted' = n

\* The credential source exists only if a broker-mode provider does at boot.
BrokerAuthConfigured(cfg) == \E p \in DOMAIN cfg.providers : cfg.providers[p].mode = "broker"

Starts(cfg) ==
    /\ ResolveProviders(cfg)
    /\ BuildState(cfg, BrokerAuthConfigured(cfg))
    /\ ValidateDurableModels(cfg)

\* A start seeds the store before it builds: a topology that does not build
\* stops the start and leaves the seeded rows.
Boot ==
    /\ serving = Down
    /\ LoadRaw(saved.body)
    /\ SeedAccepts(saved.body)
    /\ dbRows' = Seed(saved.body)
    /\ LET cfg == OverlayFrom(saved.body, dbRows') IN
        IF Starts(cfg)
        THEN /\ SwapGeneration(saved.n, cfg)
             /\ bound' = [journal |-> cfg.journal, credSrc |-> BrokerAuthConfigured(cfg)]
        ELSE UNCHANGED <<serving, newest, vetted, bound>>
    /\ UNCHANGED <<saved, secrets, pending, written, tally>>

Validated(cfg) ==
    /\ ResolveProviders(cfg)
    /\ BuildState(cfg, bound.credSrc)
    /\ ValidateDurableModels(cfg)

\* Mutant: SIGHUP does not take reloadMu.
ReloadUnlocked ==
    /\ serving # Down
    /\ LoadRaw(saved.body) /\ ValidateAuthorityReload(saved.body)
    /\ LET cfg == OverlayFrom(saved.body, dbRows) IN
        Validated(cfg) /\ SwapGeneration(saved.n, cfg)
    /\ UNCHANGED <<saved, secrets, dbRows, bound, pending, written, tally>>

\* SIGHUP.  A file or a topology that is refused keeps the generation.
Reload ==
    /\ serving # Down
    /\ pending = Idle
    /\ LoadRaw(saved.body)
    /\ ValidateAuthorityReload(saved.body)
    /\ LET cfg == OverlayFrom(saved.body, dbRows) IN
        Validated(cfg) /\ SwapGeneration(saved.n, cfg)
    /\ UNCHANGED <<saved, secrets, dbRows, bound, pending, written, tally>>

\* writeMutation, first part: the candidate is built from the file, the store
\* and the change in memory.  A refused candidate is answered 400.
ValidateWrite(w) ==
    /\ serving # Down
    /\ pending = Idle
    /\ tally.writes < MaxWrites
    /\ LoadRaw(saved.body)
    /\ ValidateAuthorityReload(saved.body)
    /\ LET cfg == OverlayFrom(saved.body, Applied(dbRows, w)) IN
        /\ ValidateModelAliases(cfg.models)
        /\ ValidateModelFallbacks(cfg.models, cfg.fallbacks)
        /\ Validated(cfg)
        /\ pending' = [step |-> "valid", write |-> w, n |-> saved.n, cfg |-> cfg]
    /\ tally' = [tally EXCEPT !.writes = @ + 1]
    /\ UNCHANGED <<saved, secrets, dbRows, serving, bound, written, newest, vetted>>

\* Deleting what is not stored is a 404, a failing store a 500: nothing swapped.
WriteFails ==
    /\ pending.step = "valid"
    /\ pending' = Idle
    /\ UNCHANGED <<saved, secrets, dbRows, serving, bound, written, newest, vetted, tally>>

PersistWrite ==
    /\ pending.step = "valid"
    /\ ~(pending.write.row = Gone /\ Stored(dbRows, pending.write) = Gone)
    /\ dbRows' = Applied(dbRows, pending.write)
    /\ pending' = [pending EXCEPT !.step = "stored"]
    /\ written' = {w \in written : <<w.table, w.name>> # <<pending.write.table, pending.write.name>>}
                  \cup {pending.write}
    /\ vetted' = pending.n
    /\ UNCHANGED <<saved, secrets, serving, bound, newest, tally>>

\* The generation that was validated is the one published; then 204.
SwapWrite ==
    /\ pending.step = "stored"
    /\ SwapGeneration(pending.n, pending.cfg)
    /\ pending' = Idle
    /\ UNCHANGED <<saved, secrets, dbRows, bound, written, tally>>

\* The process dies; the file, the secrets and the store remain.
CrashGateway ==
    /\ serving # Down
    /\ tally.crashes < MaxCrashes
    /\ serving' = Down /\ pending' = Idle /\ newest' = 0
    /\ tally' = [tally EXCEPT !.crashes = @ + 1]
    /\ UNCHANGED <<saved, secrets, dbRows, bound, written, vetted>>

TopologyNext ==
    \/ SaveFile \/ SecretsChange \/ Boot \/ Reload \/ CrashGateway
    \/ \E w \in Requests : ValidateWrite(w)
    \/ WriteFails \/ PersistWrite \/ SwapWrite

TopologySpec == TopologyInit /\ [][TopologyNext]_topologyVars

-----------------------------------------------------------------------------
(* Properties *)

\* What requests are routed by is what the store holds, except between the
\* commit of a write and its swap.
PublishedIsStored ==
    serving # Down /\ pending.step # "stored" =>
        serving.cfg.providers = dbRows.providers /\ serving.cfg.models = dbRows.models

\* A reload and a write never put an older file back in force.
FilesNeverGoBack == serving # Down => serving.n = newest

\* What the console wrote or deleted is still so, whatever the file says and
\* however often the process restarts.
WrittenStays ==
    \A w \in written : Stored(dbRows, w) = w.row

References(cfg) == {cfg.providers[p].ref : p \in DOMAIN cfg.providers} \cup {cfg.classifierToken}

\* A restart finds a topology that builds, as long as the file and the
\* references are still those the stored rows were validated with.
StoredBuilds ==
    LET cfg == OverlayFrom(saved.body, dbRows) IN
    /\ vetted = saved.n
    /\ References(cfg) \subseteq secrets \cup {NoRef}
    => Starts(cfg)

\* The generation served, the store and the file agree through reloads,
\* console writes, failures between their steps, and restarts: what is served
\* is what is stored, no older file returns, what the console wrote stays, and
\* the stored rows build again (gateway.reload and gateway.writeMutation under
\* reloadMu, providerstore.Seed behind its marker).
TopologyHolds == PublishedIsStored /\ FilesNeverGoBack /\ WrittenStays /\ StoredBuilds

=============================================================================
