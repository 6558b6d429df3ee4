------------------------------- MODULE KeyStore -------------------------------
(***************************************************************************)
(* The shared key store: virtual keys, team records, and the registry that *)
(* binds a verified identity to the account its spend is booked on.        *)
(* Several gateway processes seed, mint, resolve and revoke against one    *)
(* database; an operator may declare that identities are required, after   *)
(* which every live key must be booked on the account of its identity.     *)
(*                                                                         *)
(* A transaction locks the tables it writes, so it is one step; a handler  *)
(* that reads in one transaction and writes in another is two.  An         *)
(* identity is <<organization, name>>, its canonical account is the pair   *)
(* itself and a legacy account is <<name>>.  A key's models, limits and    *)
(* expiry are its team here: they change and are compared together.        *)
(***************************************************************************)
EXTENDS Naturals, Sequences, FiniteSets

CONSTANTS Processes, Hashes, TeamNames, Entitlement,
          Declarations,   \* identity configurations [org, required, bindings]
          SeedFiles,      \* [teams |-> [name -> content], keys |-> [hash -> [team, owner, ident]]]
          SourceStores,   \* SQLite files an operator imports: [mode, registry, keys, teams]
          LegacyOwner,    \* the account an OIDC subject had before identities
          TeamEdits, Mints   \* bounds on the administrator's team writes and on minting calls

None == <<>>
NoKey == [team |-> "none"]
NoMode == [org |-> "", required |-> FALSE, bindings |-> {}]

(* One account per identity and one identity per account: what the registry's primary     *)
(* key and its unique constraint keep in either store.                                     *)
OneToOne(reg) == \A a, b \in reg : (a.ident = b.ident \/ a.account = b.account) => a = b

(* Binding.Validate and Config.Validate: one account per identity, and a canonical        *)
(* account only for its own identity.                                                      *)
BindingValid(b) == b.account # None /\ (Len(b.account) = 2 => b.account = b.ident)
ConfigValid(c) ==
  \/ c = NoMode
  \/ /\ c.org # ""
     /\ \A b \in c.bindings : BindingValid(b) /\ b.ident[1] = c.org
     /\ OneToOne(c.bindings)

IsBinding(b) == b = [ident |-> b.ident, account |-> b.account]
IsMode(c) == c = [org |-> c.org, required |-> c.required, bindings |-> c.bindings] /\ c.required \in BOOLEAN
IsOptions(o) == o = [team |-> o.team, owner |-> o.owner, ident |-> o.ident]
IsRow(k) ==
  k = [team |-> k.team, owner |-> k.owner, ident |-> k.ident, revoked |-> k.revoked] /\ k.revoked \in BOOLEAN

ASSUME KeyStoreAssumption ==
  /\ TeamEdits \in Nat /\ Mints \in Nat /\ Entitlement \subseteq TeamNames
  /\ \A d \in Declarations : IsMode(d) /\ ConfigValid(d) /\ \A b \in d.bindings : IsBinding(b)
  /\ \A f \in SeedFiles :
       /\ DOMAIN f.teams \subseteq TeamNames /\ DOMAIN f.keys \subseteq Hashes
       /\ \A t, u \in DOMAIN f.teams : t = u
       /\ \A h, g \in DOMAIN f.keys : h = g /\ IsOptions(f.keys[h])
  /\ \A src \in SourceStores :
       /\ IsMode(src.mode) /\ (src.mode.required => src.mode.org # "")
       /\ OneToOne(src.registry) /\ \A b \in src.registry : IsBinding(b)
       /\ \A h \in DOMAIN src.keys : IsRow(src.keys[h])

VARIABLE ks
(* mode, registry, keys, teams, seeds: the database.  handles: what each process was      *)
(* configured with.  revoking, minting: the administrator's and the CLI's calls in flight.*)
(* Auxiliary: edits and mints left, lastEdit of a team, the principals served, and whose revocation *)
(* took effect.                                                                            *)

-------------------------------------------------------------------------------
(* Registry rows and the guards of the schema. *)

(* bind: insert, and what is then stored must be this very binding. *)
Binds(reg, bs) ==
  \A b \in bs : BindingValid(b) /\ \A e \in reg : (e.ident = b.ident \/ e.account = b.account) => e = b

Bound(reg, key) == \E b \in reg : b.ident = key.ident /\ b.account = key.owner

(* The trigger on keys, once identities are required: a revoked row stays revoked, a row  *)
(* keeps its account and identity, and a live row is bound.                                *)
KeyGuard(s, old, new) ==
  s.mode.required =>
    /\ old # NoKey => (old.revoked => new.revoked) /\ old.owner = new.owner /\ old.ident = new.ident
    /\ (~new.revoked \/ new.owner # None) => Bound(s.registry, new)

(* The trigger on identity_mode: an organization is for good, and so is required. *)
ModeGuard(s, c) ==
  /\ s.mode.org # "" => c.org = s.mode.org
  /\ s.mode.required => c = s.mode

(* A process that was not configured with the declaration in force fails closed. *)
Configured(s, p) == s.mode.required => s.handles[p] = s.mode

-------------------------------------------------------------------------------
(* Writing a key. *)

(* preserveKeyIdentity: an upsert that names no identity keeps the stored one. *)
Preserved(s, h, opts) ==
  IF s.keys[h] # NoKey /\ s.keys[h].ident # None /\ opts.ident = None /\ ~s.mode.required
  THEN [opts EXCEPT !.ident = s.keys[h].ident] ELSE opts
IdentityClash(s, h, opts) ==
  s.keys[h] # NoKey /\ s.keys[h].ident # None /\ opts.ident # s.keys[h].ident

(* prepareOptions: who the key is booked on.  Dormant typed attribution leaves the owner; *)
(* a required identity is bound on first use and names the owner.                          *)
AccountOf(reg, i) == IF \E b \in reg : b.ident = i THEN (CHOOSE b \in reg : b.ident = i).account ELSE i
Prepared(s, opts) ==
  IF ~s.mode.required THEN [ok |-> opts.ident = None \/ opts.ident[1] = s.mode.org, opts |-> opts, bs |-> {}]
  ELSE LET acct == AccountOf(s.registry, opts.ident)
           b == [ident |-> opts.ident, account |-> acct]
       IN [ok |-> /\ opts.ident # None /\ opts.ident[1] = s.mode.org
                  /\ Binds(s.registry, {b}) /\ opts.owner \in {None, acct},
           opts |-> [opts EXCEPT !.owner = acct], bs |-> {b}]

(* preserveKeyTombstone: the row that goes in keeps the mark of the row it replaces. *)
Tombstone(s, h) == s.mode.required /\ s.keys[h] # NoKey /\ s.keys[h].revoked

(* The row after INSERT ... ON CONFLICT DO UPDATE: the update never names revoked. *)
UpdatedRow(s, h, o) ==
  [team |-> o.team, owner |-> o.owner, ident |-> o.ident,
   revoked |-> IF s.keys[h] = NoKey THEN Tombstone(s, h) ELSE s.keys[h].revoked]

(* writeKey: the whole transaction; the same for the SQLite store. *)
Written(s, p, h, opts, upsert) ==
  LET kept == IF upsert THEN Preserved(s, h, opts) ELSE opts
      prep == Prepared(s, kept)
      row == UpdatedRow(s, h, prep.opts)
      t == [s EXCEPT !.registry = @ \cup prep.bs]
  IN [ok |-> /\ Configured(s, p)
             /\ ~(upsert /\ kept.ident # None /\ IdentityClash(s, h, kept))
             /\ prep.ok /\ KeyGuard(t, s.keys[h], row),
      st |-> [t EXCEPT !.keys[h] = row]]

(* EnsureKey: a process declares a bootstrap key at start. *)
EnsureKey(p, f, h) ==
  LET w == Written(ks, p, h, f.keys[h], TRUE)
  IN h \in DOMAIN f.keys /\ w.ok /\ ks' = w.st

(* CreateWithOptions: a fresh hash. *)
Create(s, p, h, opts) ==
  LET w == Written(s, p, h, opts, FALSE)
  IN [ok |-> s.keys[h] = NoKey /\ w.ok, st |-> w.st]

-------------------------------------------------------------------------------
(* Minting: the handler reads the identity configuration, then creates the key. *)

Mint(opts) == ks.minting = {} /\ ks.mints > 0 /\ ks' = [ks EXCEPT !.minting = {opts}, !.mints = @ - 1]
(* The CLI: an OIDC subject for itself, on a team it is entitled to. *)
MintCLI(team) ==
  /\ team \in Entitlement
  /\ Mint([team |-> team, ident |-> IF ks.mode.org = "" THEN None ELSE <<ks.mode.org, "ada">>,
           owner |-> IF ks.mode.required THEN None ELSE LegacyOwner])
(* The administrator names an account of the registry, a service account, or, while       *)
(* identities are optional, an owner.                                                      *)
MintForAccount(team, b) ==
  /\ b \in ks.registry /\ b.ident[1] = ks.mode.org
  /\ Mint([team |-> team, ident |-> b.ident, owner |-> IF ks.mode.required THEN None ELSE b.account])
MintService(team) ==
  /\ ks.mode.org # ""
  /\ Mint([team |-> team, ident |-> <<ks.mode.org, "svc">>, owner |-> None])
MintForOwner(team, o) == ~ks.mode.required /\ Mint([team |-> team, ident |-> None, owner |-> o])

MintCreate(p, h) ==
  \E opts \in ks.minting :
    LET w == Create([ks EXCEPT !.minting = {}], p, h, opts) IN w.ok /\ ks' = w.st
MintRefused(p) ==
  \E opts \in ks.minting :
    /\ \A h \in Hashes : ks.keys[h] = NoKey => ~Create(ks, p, h, opts).ok
    /\ ks' = [ks EXCEPT !.minting = {}]

-------------------------------------------------------------------------------
(* Resolving and revoking. *)

(* scanPostgresSnapshot: under required identities a row that is not bound is unavailable; *)
(* the revision covers the key row, the team row and the identity mode.                    *)
Snapshot(s, h) == [hash |-> h, key |-> s.keys[h], record |-> s.teams[s.keys[h].team], mode |-> s.mode]
Readable(s, h) ==
  LET k == s.keys[h]
  IN /\ k # NoKey /\ ~k.revoked
     /\ k.ident # None => k.ident[1] = s.mode.org
     /\ s.mode.required => k.ident # None /\ Bound(s.registry, k)

(* Resolve: only what is served under required identities is remembered. *)
Resolve(p, h) ==
  /\ Readable(ks, h) /\ Configured(ks, p)
  /\ ks' = [ks EXCEPT !.served = @ \cup
              IF ks.mode.required THEN {[ident |-> ks.keys[h].ident, owner |-> ks.keys[h].owner, under |-> ks.handles[p]]} ELSE {}]

Revoke(h) ==
  /\ ks.keys[h] # NoKey /\ ~ks.keys[h].revoked
  /\ ks' = [ks EXCEPT !.keys[h].revoked = TRUE]

(* A key's own holder, resolved on arrival, gives the key back. *)
RevokeOwn(p, h) ==
  /\ ks.revoking = {} /\ Readable(ks, h) /\ Configured(ks, p)
  /\ ks' = [ks EXCEPT !.revoking = {[own |-> TRUE, snap |-> Snapshot(ks, h)]}]
(* The administrator looks the key up and is checked against its team. *)
RevokeLookup(p, h) ==
  /\ ks.revoking = {} /\ Configured(ks, p)
  /\ Readable(ks, h) /\ ks.keys[h].team \in Entitlement
  /\ ks' = [ks EXCEPT !.revoking = {[own |-> FALSE, snap |-> Snapshot(ks, h)]}]

UnchangedSince(s, snap) == Readable(s, snap.hash) /\ Snapshot(s, snap.hash) = snap
RevokeSnapshot ==
  \E call \in ks.revoking :
    ks' = IF UnchangedSince(ks, call.snap)
          THEN [ks EXCEPT !.revoking = {}, !.keys[call.snap.hash].revoked = TRUE,
                          !.revokedAs = @ \cup IF call.own THEN {} ELSE {ks.keys[call.snap.hash].team}]
          ELSE [ks EXCEPT !.revoking = {}]

-------------------------------------------------------------------------------
(* Teams and seeds. *)

KnownSeed(s, kind, x) == \E f \in s.seeds : f.kind = kind /\ f.id = x
SameSeed(s, kind, x, v) == \A f \in s.seeds : f.kind = kind /\ f.id = x => f.value = v
Seeded(kind, x, v) == [kind |-> kind, id |-> x, value |-> v]

(* An edit is noted once the team has been seeded. *)
Noted(s, t, v) == IF KnownSeed(s, "team", t) THEN v ELSE "unedited"
UpsertTeam(t, v) ==
  /\ ks.edits > 0
  /\ ks' = [ks EXCEPT !.edits = @ - 1, !.teams[t] = v, !.lastEdit[t] = Noted(ks, t, v)]
DeleteTeam(t) ==
  /\ ks.edits > 0 /\ ks.teams[t] # "none"
  /\ ks' = [ks EXCEPT !.edits = @ - 1, !.teams[t] = "none", !.lastEdit[t] = Noted(ks, t, "none")]

(* One declared team: seeded once, and only where nothing else is stored. *)
SeedTeamMissing(s, t, v) ==
  [ok |-> s.teams[t] \in {"none", v}, st |-> [s EXCEPT !.teams[t] = v, !.seeds = @ \cup {Seeded("team", t, v)}]]
SeedTeam(s, t, v) ==
  IF KnownSeed(s, "team", t) THEN [ok |-> SameSeed(s, "team", t, v), st |-> s]
  ELSE [ok |-> s.teams[t] \in {"none", v},
        st |-> [s EXCEPT !.teams[t] = v, !.seeds = @ \cup {Seeded("team", t, v)}]]

(* checkIdentitySeed: a typed seed keeps its identity, and the stored row agrees. *)
IdentitySeedOK(s, h, o) ==
  o.ident # None =>
    /\ SameSeed(s, "identity", h, o.ident)
    /\ s.keys[h] # NoKey => s.keys[h].ident = o.ident
KeySeedValue(k) == <<k.team, k.owner>>

(* One declared key.  Under required identities an untyped seed may only adopt a row that *)
(* is already bound (attachBoundLegacySeed).                                               *)
SeedKeyMissing(s, h, raw) ==
  LET row == UpdatedRow(s, h, raw)
  IN [ok |-> TRUE, st |-> [s EXCEPT !.keys[h] = row, !.seeds = @ \cup {Seeded("key", h, KeySeedValue(raw))}]]
SeedKey(s, h, raw) ==
  LET prep == IF raw.ident = None THEN [ok |-> TRUE, opts |-> raw, bs |-> {}] ELSE Prepared(s, raw)
      o == prep.opts
      t == [s EXCEPT !.registry = @ \cup prep.bs,
                     !.seeds = @ \cup IF o.ident # None THEN {Seeded("identity", h, o.ident)} ELSE {}]
      saved == [t EXCEPT !.seeds = @ \cup {Seeded("key", h, KeySeedValue(o))}]
      row == UpdatedRow(s, h, o)
      old == s.keys[h]
  IN IF ~prep.ok \/ ~SameSeed(s, "key", h, KeySeedValue(o)) \/ ~IdentitySeedOK(s, h, o) THEN [ok |-> FALSE, st |-> s]
     ELSE IF KnownSeed(s, "key", h) THEN [ok |-> TRUE, st |-> t]
     ELSE IF s.mode.required /\ o.ident = None
     THEN [ok |-> old # NoKey /\ old.ident # None /\ Bound(s.registry, old) /\ KeySeedValue(old) = KeySeedValue(o),
           st |-> saved]
     ELSE IF old # NoKey THEN [ok |-> KeySeedValue(old) = KeySeedValue(o), st |-> saved]
     ELSE [ok |-> KeyGuard(t, old, row), st |-> [saved EXCEPT !.keys[h] = row]]

(* Seed: all of the file or nothing.  The files here declare at most one team and one key.*)
Seed(p, f) ==
  LET teamStep(s) == IF DOMAIN f.teams = {} THEN [ok |-> TRUE, st |-> s]
                     ELSE LET t == CHOOSE t \in DOMAIN f.teams : TRUE IN SeedTeam(s, t, f.teams[t])
      keyStep(s) == IF DOMAIN f.keys = {} THEN [ok |-> TRUE, st |-> s]
                    ELSE LET h == CHOOSE h \in DOMAIN f.keys : TRUE IN SeedKey(s, h, f.keys[h])
      a == teamStep(ks)
      b == keyStep(a.st)
  IN Configured(ks, p) /\ a.ok /\ b.ok /\ ks' = b.st

-------------------------------------------------------------------------------
(* Declaring identities, and moving a SQLite store over. *)

(* validateRequiredIdentities: every row that is live or has an owner is bound. *)
AllMapped(s) ==
  \A h \in Hashes : LET k == s.keys[h]
                    IN k # NoKey /\ (~k.revoked \/ k.owner # None) => Bound(s.registry, k)

(* annotate: untyped rows of a bound account get its identity; a row typed otherwise      *)
(* refuses the whole declaration.                                                          *)
Annotatable(s, b) ==
  \A h \in Hashes : s.keys[h] # NoKey /\ s.keys[h].owner = b.account => s.keys[h].ident \in {None, b.ident}
Annotated(s, bs) ==
  [s EXCEPT !.keys = [h \in Hashes |->
     IF @[h] # NoKey /\ @[h].ident = None /\ \E b \in bs : b.account = @[h].owner
     THEN [@[h] EXCEPT !.ident = (CHOOSE b \in bs : b.account = s.keys[h].owner).ident] ELSE @[h]]]

(* configure: the organization is fixed, earlier bindings are kept, a required            *)
(* declaration is final; a missing declaration clears nothing.                             *)
Configure(s, c) ==
  LET old == s.mode
      bound == [s EXCEPT !.registry = @ \cup c.bindings]
      noted == IF old.required THEN bound ELSE Annotated(bound, c.bindings)
  IN IF c.org = "" THEN [ok |-> ~old.required, st |-> s]
     ELSE [ok |-> /\ old.org \in {"", c.org} /\ (old.required => old = c) /\ old.bindings \subseteq c.bindings
                  /\ Binds(s.registry, c.bindings)
                  /\ ~old.required => \A b \in c.bindings : Annotatable(s, b)
                  /\ c.required => AllMapped(noted)
                  /\ ModeGuard(s, c),
           st |-> [noted EXCEPT !.mode = c]]
(* ConfigureIdentity: the process remembers what was applied. *)
ConfigureIdentity(p, c) ==
  LET r == Configure(ks, c) IN r.ok /\ ks' = [r.st EXCEPT !.handles[p] = r.st.mode]

(* A restart forgets the declaration until the process is configured again. *)
Restart(p) == ks.handles[p] # NoMode /\ ks' = [ks EXCEPT !.handles[p] = NoMode]

(* readSQLiteIdentity: what a source must hold to be a store's own identities. *)
SourceOK(src) ==
  /\ \A b \in src.registry : b.ident[1] = src.mode.org /\ (b.account = b.ident \/ b \in src.mode.bindings)
  /\ src.mode.bindings \subseteq src.registry
(* stageIdentityImport: the source's mode, not yet required, and its bindings. *)
Staged(s, src) ==
  [s EXCEPT !.registry = @ \cup src.registry, !.mode = IF @.org = "" THEN [src.mode EXCEPT !.required = FALSE] ELSE @]
Stageable(s, src) == (s.mode.org # "" => s.mode = src.mode) /\ Binds(s.registry, src.registry)
(* importSQLiteKeys and importSQLiteTeams: rows go in as they are or must already be      *)
(* identical.  It is the operator's own write, so it counts as an edit of its teams.       *)
Movable(s, src) ==
  /\ \A t \in DOMAIN src.teams : s.teams[t] \in {"none", src.teams[t]}
  /\ \A h \in DOMAIN src.keys :
       /\ s.keys[h] \in {NoKey, src.keys[h]}
       /\ src.keys[h].ident # None => src.keys[h].ident[1] = s.mode.org
       /\ KeyGuard(s, s.keys[h], src.keys[h])
Moved(s, src) ==
  [s EXCEPT !.teams = [t \in TeamNames |-> IF t \in DOMAIN src.teams THEN src.teams[t] ELSE @[t]],
            !.lastEdit = [t \in TeamNames |-> IF t \in DOMAIN src.teams THEN Noted(s, t, src.teams[t]) ELSE @[t]],
            !.keys = [h \in Hashes |-> IF h \in DOMAIN src.keys THEN src.keys[h] ELSE @[h]]]
(* finishIdentityImport: the source's own mode, once everything is mapped. *)
Finished(s, src) == IF src.mode.org # "" THEN [s EXCEPT !.mode = src.mode] ELSE s
ImportSQLite(src) ==
  LET staged == Staged(ks, src)
      moved == Moved(staged, src)
  IN /\ SourceOK(src) /\ Stageable(ks, src) /\ Movable(staged, src)
     /\ src.mode.required => AllMapped(moved)
     /\ ModeGuard(ks, Finished(moved, src).mode)
     /\ ks' = Finished(moved, src)

-------------------------------------------------------------------------------
InitKeys ==
  ks = [mode |-> NoMode, registry |-> {}, keys |-> [h \in Hashes |-> NoKey],
        teams |-> [t \in TeamNames |-> "none"], seeds |-> {},
        handles |-> [p \in Processes |-> NoMode], revoking |-> {}, minting |-> {},
        edits |-> TeamEdits, mints |-> Mints, lastEdit |-> [t \in TeamNames |-> "unedited"], served |-> {}, revokedAs |-> {}]

NextKeys ==
  \/ \E p \in Processes :
       \/ \E f \in SeedFiles : Seed(p, f) \/ \E h \in DOMAIN f.keys : EnsureKey(p, f, h)
       \/ \E h \in Hashes : Resolve(p, h) \/ RevokeLookup(p, h) \/ RevokeOwn(p, h) \/ MintCreate(p, h)
       \/ \E c \in Declarations : ConfigureIdentity(p, c)
       \/ MintRefused(p) \/ Restart(p)
  \/ \E t \in TeamNames :
       \/ MintCLI(t) \/ MintService(t) \/ MintForOwner(t, LegacyOwner)
       \/ \E b \in ks.registry : MintForAccount(t, b)
       \/ UpsertTeam(t, "edited") \/ DeleteTeam(t)
  \/ \E h \in Hashes : Revoke(h)
  \/ RevokeSnapshot
  \/ \E src \in SourceStores : ImportSQLite(src)

KeysSpec == InitKeys /\ [][NextKeys]_ks

-------------------------------------------------------------------------------
KeysTypeOK ==
  /\ ks.edits \in 0..TeamEdits /\ ks.mints \in 0..Mints
  /\ OneToOne(ks.registry)
  /\ \A f, g \in ks.seeds : f.kind = g.kind /\ f.id = g.id => f = g

(* Once identities are required, whatever order of seeds, mints from a handler that read  *)
(* the configuration earlier, imports and declarations led here, every live key, and every *)
(* revoked one that has an owner, is booked on the account of its own identity.            *)
RequiredAccounted ==
  ks.mode.required => \A h \in Hashes : ks.keys[h] # NoKey /\ (~ks.keys[h].revoked \/ ks.keys[h].owner # None)
                        => [ident |-> ks.keys[h].ident, account |-> ks.keys[h].owner] \in ks.registry

(* Under required identities every process that serves holds one and the same declaration, *)
(* whatever replicas were started with another one, and one identity is charged to one     *)
(* account and one account to one identity over restarts, imports and declarations.         *)
ServedAsDeclared ==
  \A a, b \in ks.served : a.under = b.under /\ ((a.ident = b.ident \/ a.owner = b.owner) => a = b)

(* A key's identity, once known, is never lost or replaced, and a revoked key is never     *)
(* live again: not by a bootstrap upsert at start, a seed, an import or a declaration.     *)
IdentityStays ==
  \A h \in Hashes : ks.keys[h] # NoKey /\ ks.keys[h].ident # None => ks'.keys[h].ident = ks.keys[h].ident
RevokedStaysRevoked ==
  \A h \in Hashes : ks.keys[h] # NoKey /\ ks.keys[h].revoked => ks'.keys[h] # NoKey /\ ks'.keys[h].revoked

(* What the administrator or an operator's import last did to a seeded team stands: no    *)
(* starting process seeds a deleted team back or undoes an edit.                           *)
AdminEditsStand ==
  \A t \in TeamNames : ks.lastEdit[t] # "unedited" => ks.teams[t] = ks.lastEdit[t]

(* A revocation takes effect only on a key of a team the administrator is entitled to,    *)
(* although the key may move to another team between the check and the write.              *)
RevokeAuthorised == ks.revokedAs \subseteq Entitlement

(* Keys are served as the organisation declared and administrators left them: accounts    *)
(* stay with their identities, seeds undo no edit, revocations are authorised, and no key   *)
(* changes its identity or comes back (identity_store.go, postgres.go, postgres_seed.go).   *)
KeysHold ==
  [][/\ KeysTypeOK' /\ RequiredAccounted' /\ ServedAsDeclared' /\ AdminEditsStand' /\ RevokeAuthorised'
     /\ IdentityStays /\ RevokedStaysRevoked]_ks
===============================================================================
