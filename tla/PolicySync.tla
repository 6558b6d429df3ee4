----------------------------- MODULE PolicySync -----------------------------
(***************************************************************************)
(* Distribution of policies to one data plane: the sync loop of the proxy, *)
(* the policy store it feeds (policy.Store.ApplyWire), and the readiness   *)
(* gate that admits requests.  The data plane polls whichever control-plane*)
(* replica the load balancer picks; replicas may serve different sets.     *)
(*                                                                         *)
(* Three deployments: "legacy" (leases), "identity" (an identity           *)
(* declaration is required) and "authority" (durable budgets: constraints  *)
(* are written to the journal before the policies become visible).         *)
(***************************************************************************)
EXTENDS Naturals, FiniteSets

CONSTANTS
    Servers,        \* control-plane replicas
    PolicyNames,
    Kinds,          \* kinds of policy body
    Governs,        \* [Kinds -> subject]: who a body of this kind governs
    Strict,         \* kinds that carry a mandatory routing rule
    Unenforceable,  \* kinds this data plane cannot enforce
    Deployments,    \* subset of {"legacy", "identity", "authority"}
    MaxPublications \* bound on changes of the distributed sets

Policies == [name : PolicyNames, kind : Kinds]
Bundles == {S \in SUBSET Policies : \A x, y \in S : x.name = y.name => x = y}
Governed == {Governs[k] : k \in Kinds}

ASSUME PolicySyncAssumption ==
    /\ Strict \subseteq Kinds /\ Unenforceable \subseteq Kinds
    /\ Deployments \subseteq {"legacy", "identity", "authority"}
    /\ MaxPublications \in Nat

\* An optional value: the empty set or a singleton.
None == {}
Some(x) == {x}

VARIABLES
    deployment,
    published,   \* [Servers -> Bundles]: the set each replica distributes
    publications,
    generation,  \* Syncer.generation: the optional bundle last accepted
    accepted,    \* snapshot.policies
    offered,     \* snapshot.generation: the optional bundle last installed
    rejected,    \* snapshot.rejectedRouting: [PolicyNames -> subjects]
    journal,     \* the optional bundle the journal's constraints come from
    identityInvalid, authorityInvalid, synced,
    call         \* the sync call in progress

syncVars == <<deployment, published, publications, generation, accepted, offered,
              rejected, journal, identityInvalid, authorityInvalid, synced, call>>
dataVars == <<generation, accepted, offered, rejected, journal,
              identityInvalid, authorityInvalid, synced>>

NoCall == [step |-> "idle", asked |-> None, gen |-> {}, policies |-> None]

SyncInit ==
    /\ deployment \in Deployments
    /\ published = [s \in Servers |-> {}]
    /\ publications = 0
    /\ generation = None /\ accepted = {} /\ offered = None
    /\ rejected = [n \in PolicyNames |-> {}]
    /\ journal = None
    /\ identityInvalid = FALSE /\ authorityInvalid = FALSE /\ synced = FALSE
    /\ call = NoCall

-----------------------------------------------------------------------------
(* The control plane *)

\* A replica distributes another set (see PolicyWrites for how it comes by it).
Publish(s, bundle) ==
    /\ publications < MaxPublications
    /\ bundle # published[s]
    /\ published' = [published EXCEPT ![s] = bundle]
    /\ publications' = publications + 1
    /\ UNCHANGED <<deployment, dataVars, call>>

\* handleSync: the documents are sent when the caller's generation differs.
\* An empty list is dropped from the legacy JSON; a required identity sends the
\* completeness marker with it, and the authority bundle always has its list.
SentPolicies(bundle, asked) ==
    IF deployment = "authority" THEN Some(bundle)
    ELSE IF asked = Some(bundle) THEN None
    ELSE IF bundle = {} /\ deployment = "legacy" THEN None
    ELSE Some(bundle)

Serve(s) ==
    /\ call.step = "sent"
    /\ call' = [call EXCEPT !.step = "answered", !.gen = published[s],
                            !.policies = SentPolicies(published[s], call.asked)]
    /\ UNCHANGED <<deployment, published, publications, dataVars>>

-----------------------------------------------------------------------------
(* The data plane's sync loop (syncOnce) *)

\* A rejected identity snapshot asks for a complete one.
SendSync ==
    /\ call.step = "idle"
    /\ call' = [NoCall EXCEPT !.step = "sent",
                  !.asked = IF deployment = "identity" /\ identityInvalid THEN None
                            ELSE generation]
    /\ UNCHANGED <<deployment, published, publications, dataVars>>

\* No answer: a transport error or a 5xx changes nothing.
NoAnswer ==
    /\ call.step \in {"sent", "answered"}
    /\ call' = NoCall
    /\ UNCHANGED <<deployment, published, publications, dataVars>>

\* 401, 403, 409 or 426: the control plane does not know this data plane any
\* more.  An undecodable answer does the same to a required identity.
Refused ==
    /\ call.step = "sent"
    /\ call' = NoCall
    /\ identityInvalid' = (identityInvalid \/ deployment = "identity")
    /\ authorityInvalid' = (authorityInvalid \/ deployment = "authority")
    /\ UNCHANGED <<deployment, published, publications, generation, accepted,
                   offered, rejected, journal, synced>>

\* An answer without documents must be about the generation already in force
\* when identity is required.
Complete ==
    \/ deployment # "identity"
    \/ call.policies # None
    \/ ~identityInvalid /\ generation = Some(call.gen)

Incomplete ==
    /\ call.step = "answered"
    /\ ~Complete
    /\ call' = NoCall
    /\ identityInvalid' = TRUE
    /\ UNCHANGED <<deployment, published, publications, generation, accepted,
                   offered, rejected, journal, authorityInvalid, synced>>

\* Authority.Apply: the gate closes before the journal is written, and stays
\* closed when the journal refuses the constraints.
ApplyAuthority ==
    /\ call.step = "answered"
    /\ deployment = "authority"
    /\ authorityInvalid' = TRUE
    /\ \/ journal' = Some(call.gen) /\ call' = [call EXCEPT !.step = "install"]
       \/ UNCHANGED journal /\ call' = NoCall
    /\ UNCHANGED <<deployment, published, publications, generation, accepted,
                   offered, rejected, identityInvalid, synced>>

\* Without an authority the documents are installed at once.
SkipAuthority ==
    /\ call.step = "answered"
    /\ deployment # "authority"
    /\ Complete
    /\ call' = [call EXCEPT !.step = "install"]
    /\ UNCHANGED <<deployment, published, publications, dataVars>>

-----------------------------------------------------------------------------
(* policy.Store.ApplyWire *)

\* Mutant: only a subject the rejected document itself names is remembered.
RememberOffered(n, doc) == {Governs[doc.kind] : k \in {doc.kind} \cap Strict}

\* What a rejected document leaves behind: what was pending for its name, its
\* own subject and the subject of the version in force, when mandatory.
Remember(n, doc) ==
    rejected[n] \cup {Governs[k] : k \in {doc.kind} \cap Strict}
                \cup {Governs[p.kind] : p \in {q \in accepted : q.name = n /\ q.kind \in Strict}}

Enforceable(docs) == {d \in docs : d.kind \notin Unenforceable}

\* Pending subjects after a set: cleared by an accepted document of that name,
\* extended by a rejected one, kept when the name is absent.
Pending(docs) == [n \in PolicyNames |->
    LET of_n == {d \in docs : d.name = n} IN
    IF of_n = {} THEN rejected[n]
    ELSE IF of_n \subseteq Enforceable(docs) THEN {}
    ELSE Remember(n, CHOOSE d \in of_n : TRUE)]

\* Required identity is all or nothing.
Installs(docs) == deployment # "identity" \/ Enforceable(docs) = docs

\* The documents are installed and their rejections judged: a rejection keeps
\* the gate shut under an authority or a required identity.
InstallBundle ==
    /\ call.step = "install"
    /\ call.policies # None
    /\ LET docs == CHOOSE d \in call.policies : TRUE
           refused == Enforceable(docs) # docs IN
        /\ IF Installs(docs)
           THEN /\ accepted' = Enforceable(docs)
                /\ offered' = Some(docs)
                /\ rejected' = Pending(docs)
           ELSE UNCHANGED <<accepted, offered, rejected>>
        /\ identityInvalid' = (identityInvalid \/ deployment = "identity")
        /\ IF refused /\ deployment # "legacy"
           THEN call' = NoCall /\ UNCHANGED generation
           ELSE generation' = Some(call.gen) /\ call' = [call EXCEPT !.step = "finish"]
    /\ UNCHANGED <<deployment, published, publications, journal, authorityInvalid, synced>>

Unchanged ==
    /\ call.step = "install"
    /\ call.policies = None
    /\ call' = [call EXCEPT !.step = "finish"]
    /\ UNCHANGED <<deployment, published, publications, dataVars>>

\* Success: leases and tiers are stored, the gates open.
FinishSync ==
    /\ call.step = "finish"
    /\ authorityInvalid' = FALSE
    /\ identityInvalid' = FALSE
    /\ synced' = TRUE
    /\ call' = NoCall
    /\ UNCHANGED <<deployment, published, publications, generation, accepted,
                   offered, rejected, journal>>

-----------------------------------------------------------------------------

SyncNext ==
    \/ \E s \in Servers : Serve(s) \/ \E b \in Bundles : Publish(s, b)
    \/ SendSync \/ NoAnswer \/ Refused \/ Incomplete
    \/ ApplyAuthority \/ SkipAuthority \/ InstallBundle \/ Unchanged \/ FinishSync

SyncSpec == SyncInit /\ [][SyncNext]_syncVars

\* GovernanceReady, with the synchronisation gate on.
GovernanceReady == ~identityInvalid /\ ~authorityInvalid /\ synced

\* RoutingSnapshot answers ErrRoutingPolicyRejected.
FailsClosed(subject) == \E n \in PolicyNames : subject \in rejected[n]

-----------------------------------------------------------------------------
(* Properties *)

SyncTypeOK ==
    /\ generation \in SUBSET Bundles /\ Cardinality(generation) <= 1
    /\ accepted \in Bundles
    /\ rejected \in [PolicyNames -> SUBSET Governed]
    /\ call.step \in {"idle", "sent", "answered", "install", "finish"}

\* A ready data plane enforces one complete set: under an authority the
\* journal's constraints, the visible policies and the claimed generation are
\* the same bundle; under a required identity nothing of it was left out.
ReadyInForce ==
    GovernanceReady =>
        /\ deployment = "authority" =>
            journal = generation /\ offered = generation /\ generation = Some(accepted)
        /\ deployment = "identity" => offered = generation /\ generation = Some(accepted)

\* A mandatory routing rule is enforced or its subject is refused: no set that
\* was installed leaves a mandatory document out silently.
StrictOrClosed == \A docs \in offered : \A d \in docs :
    d.kind \in Strict => d \in accepted \/ FailsClosed(Governs[d.kind])

\* A rejected update releases nobody: a subject held by a mandatory version of
\* a policy, or refused because of it, stays refused while the versions that
\* arrive cannot be enforced.
NoSilentRelease ==
    \A n \in PolicyNames : \A docs \in offered' :
        (offered' # offered /\ \E d \in docs : d.name = n /\ d.kind \in Unenforceable) =>
            /\ \A subject \in rejected[n] : FailsClosed(subject)'
            /\ \A p \in accepted : p.name = n /\ p.kind \in Strict => FailsClosed(Governs[p.kind])'

\* A completed synchronisation leaves the answered generation in force: the
\* comment on SyncResponse.Policies says the documents are left out only when
\* the caller's generation matches.
SyncedSetInForce == call.step = "finish" => offered = Some(call.gen)

\* Policies are enforced or their subjects are refused: a ready data plane
\* enforces one complete set, a mandatory document is never left out silently,
\* and no rejected update releases anybody (sync.go, store.go).
PoliciesEnforced ==
    [][SyncTypeOK' /\ ReadyInForce' /\ StrictOrClosed' /\ NoSilentRelease]_syncVars
=============================================================================
