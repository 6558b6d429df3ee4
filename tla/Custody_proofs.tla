--------------------------- MODULE Custody_proofs ---------------------------
(***************************************************************************)
(* Keys stay with their identities and accounts, and edits, revocations    *)
(* and declarations stand, for any processes, keys, teams, declarations,   *)
(* seed files and imported stores.  An operation of the key store is a     *)
(* function from store to store, so the invariant is stated of a store s,  *)
(* and each operation is shown to keep it before its actions are.          *)
(*                                                                         *)
(* Stored bodies stay readable and erasable while their keys are rotated.  *)
(*                                                                         *)
(* Edits of the exporter's limits and rules never cross.                   *)
(*                                                                         *)
(* Usage is counted once, or known to be lost.  The invariant speaks of a  *)
(* history h: what each window was closed with, wherever copies of it are. *)
(*                                                                         *)
(* What the exporter takes in is counted once and gives its bytes back:    *)
(* the reserved bytes are those of the items the queue and the batch hold  *)
(* and of the batch about to be returned.                                  *)
(***************************************************************************)
EXTENDS KeyStore, BodyStore, ExportConsole, UsageWindows, ExportPipeline, FiniteSetTheorems, TLAPS

-----------------------------------------------------------------------------
(* The key store *)

Fields == {"mode", "registry", "keys", "teams", "seeds", "handles", "revoking", "minting", "edits", "mints",
           "lastEdit", "served", "revokedAs"}

\* The store has its fields, and its tables their rows.
Shaped(s) ==
  /\ DOMAIN s = Fields
  /\ DOMAIN s.keys = Hashes /\ DOMAIN s.handles = Processes
  /\ DOMAIN s.teams = TeamNames /\ DOMAIN s.lastEdit = TeamNames
  /\ s.edits \in 0..TeamEdits /\ s.mints \in 0..Mints

ModeSound(mode) == IsMode(mode) /\ (mode.required => mode.org # "")

Registered(reg) == OneToOne(reg) /\ \A b \in reg : IsBinding(b)

SeededOnce(seeds) ==
  /\ \A f \in seeds : f = Seeded(f.kind, f.id, f.value)
  /\ \A f, g \in seeds : f.kind = g.kind /\ f.id = g.id => f = g

RowsShaped(s) == \A h \in Hashes : s.keys[h] = NoKey \/ IsRow(s.keys[h])

\* What is served under required identities is of the declaration in force and
\* of the registry, which only grows.
ServedBound(s) ==
  \A a \in s.served :
    /\ s.mode.required /\ a.under = s.mode
    /\ a = [ident |-> a.ident, owner |-> a.owner, under |-> a.under]
    /\ [ident |-> a.ident, account |-> a.owner] \in s.registry

\* An edit is remembered only of a team that was seeded: a seed leaves it alone.
EditsStand(s) ==
  \A t \in TeamNames :
    s.lastEdit[t] # "unedited" => s.teams[t] = s.lastEdit[t] /\ KnownSeed(s, "team", t)

\* An administrator's revocation in flight is of a key whose team, as it was
\* read, is one the administrator is entitled to.
CallsEntitled(s) ==
  /\ s.revokedAs \subseteq Entitlement
  /\ \A call \in s.revoking :
       call.snap.hash \in Hashes /\ (~call.own => call.snap.key.team \in Entitlement)
  /\ \A opts \in s.minting : IsOptions(opts)

StoreInv(s) ==
  /\ Shaped(s) /\ ModeSound(s.mode) /\ Registered(s.registry) /\ SeededOnce(s.seeds) /\ RowsShaped(s)
  /\ s.mode.required => AllMapped(s)
  /\ ServedBound(s) /\ EditsStand(s) /\ CallsEntitled(s)

\* No key loses or changes its identity, and none that is revoked comes back.
RowsKept(s, t) ==
  \A h \in Hashes : s.keys[h] # NoKey =>
    /\ s.keys[h].ident # None => t.keys[h].ident = s.keys[h].ident
    /\ s.keys[h].revoked => t.keys[h] # NoKey /\ t.keys[h].revoked

-----------------------------------------------------------------------------
(* Rows, registry and seeds *)

LEMMA NoOrganization == NoMode.org = ""
  BY Zenon DEF NoMode

LEMMA NothingRequired == ModeSound(NoMode) /\ NoMode.required = FALSE
<1>1. NoMode.org = "" /\ NoMode.required = FALSE /\ NoMode.bindings = {}
  BY Zenon DEF NoMode
<1>2. NoMode = [org |-> NoMode.org, required |-> NoMode.required, bindings |-> NoMode.bindings]
  BY <1>1, Zenon DEF NoMode
<1> QED
  BY <1>1, <1>2, Zenon DEF ModeSound, IsMode

LEMMA RowIsAKey == \A k : IsRow(k) => k # NoKey
  BY DEF IsRow, NoKey

\* What bind accepts keeps the registry one to one.
LEMMA BindKeeps ==
  ASSUME NEW reg, NEW new, Registered(reg), Registered(new), Binds(reg, new)
  PROVE  Registered(reg \cup new)
  BY DEF Registered, OneToOne, Binds

\* A binding found is the pair itself.
LEMMA BoundPair ==
  ASSUME NEW reg, Registered(reg), NEW key, Bound(reg, key)
  PROVE  [ident |-> key.ident, account |-> key.owner] \in reg
  BY DEF Registered, IsBinding, Bound

LEMMA MappedGrows ==
  ASSUME NEW s, NEW t, AllMapped(s), t.keys = s.keys, s.registry \subseteq t.registry
  PROVE  AllMapped(t)
  BY DEF AllMapped, Bound

\* A write of one row that the trigger lets pass keeps all rows mapped.
LEMMA GuardedRow ==
  ASSUME NEW s, NEW t, NEW h \in Hashes, NEW row, IsRow(row),
         DOMAIN s.keys = Hashes,
         s.mode.required => AllMapped(s),
         t.mode = s.mode, s.registry \subseteq t.registry,
         t.keys = [s.keys EXCEPT ![h] = row],
         KeyGuard(t, s.keys[h], row)
  PROVE  t.mode.required => AllMapped(t)
<1> SUFFICES ASSUME t.mode.required, NEW g \in Hashes,
                    t.keys[g] # NoKey, ~t.keys[g].revoked \/ t.keys[g].owner # None
             PROVE  Bound(t.registry, t.keys[g])
  BY DEF AllMapped
<1>1. CASE g = h
  BY <1>1 DEF KeyGuard
<1>2. CASE g # h
  BY <1>2 DEF AllMapped, Bound
<1> QED
  BY <1>1, <1>2

\* A step that writes keys, bindings and seeds only.
LEMMA WriteKeeps ==
  ASSUME NEW s, StoreInv(s), NEW t, Shaped(t),
         t.mode = s.mode, t.teams = s.teams, t.lastEdit = s.lastEdit, t.served = s.served,
         t.revoking = s.revoking, t.revokedAs = s.revokedAs, t.minting \subseteq s.minting,
         s.registry \subseteq t.registry, Registered(t.registry),
         s.seeds \subseteq t.seeds, SeededOnce(t.seeds),
         RowsShaped(t), t.mode.required => AllMapped(t)
  PROVE  StoreInv(t)
<1>1. ServedBound(t)
  BY DEF StoreInv, ServedBound
<1>2. EditsStand(t)
  BY DEF StoreInv, EditsStand, KnownSeed
<1>3. CallsEntitled(t)
  BY DEF StoreInv, CallsEntitled
<1> QED
  BY <1>1, <1>2, <1>3 DEF StoreInv

\* One seed more, unless the store knows another one of that name.
LEMMA SeedMore ==
  ASSUME NEW s, SeededOnce(s.seeds), NEW kind, NEW x, NEW v, SameSeed(s, kind, x, v)
  PROVE  SeededOnce(s.seeds \cup {Seeded(kind, x, v)})
  BY DEF SeededOnce, SameSeed, Seeded

\* Nothing of that name is known, so any value will do.
LEMMA SeedFirst ==
  ASSUME NEW s, NEW kind, NEW x, NEW v, ~KnownSeed(s, kind, x)
  PROVE  SameSeed(s, kind, x, v)
  BY DEF KnownSeed, SameSeed

LEMMA KeptReflexive == \A s : RowsKept(s, s)
  BY DEF RowsKept

-----------------------------------------------------------------------------
(* Writing keys *)

LEMMA SeedTeamKeeps ==
  ASSUME NEW s, StoreInv(s), NEW t \in TeamNames, NEW v, SeedTeam(s, t, v).ok
  PROVE  /\ StoreInv(SeedTeam(s, t, v).st)
         /\ SeedTeam(s, t, v).st.keys = s.keys
<1>1. CASE KnownSeed(s, "team", t)
  BY <1>1 DEF SeedTeam
<1>2. CASE ~KnownSeed(s, "team", t)
  <2> DEFINE u == [s EXCEPT !.teams[t] = v, !.seeds = @ \cup {Seeded("team", t, v)}]
  <2>1. SeedTeam(s, t, v).st = u
    BY <1>2 DEF SeedTeam
  <2>2. /\ Shaped(u) /\ u.keys = s.keys /\ u.mode = s.mode /\ u.registry = s.registry
        /\ u.served = s.served /\ u.revoking = s.revoking /\ u.minting = s.minting
        /\ u.revokedAs = s.revokedAs /\ u.lastEdit = s.lastEdit
        /\ u.teams = [s.teams EXCEPT ![t] = v]
        /\ u.seeds = s.seeds \cup {Seeded("team", t, v)}
    BY DEF StoreInv, Shaped, Fields
  <2> HIDE DEF u
  <2>3. SeededOnce(u.seeds)
    BY <1>2, <2>2, SeedFirst, SeedMore DEF StoreInv
  <2>4. EditsStand(u)
    <3> SUFFICES ASSUME NEW n \in TeamNames, u.lastEdit[n] # "unedited"
                 PROVE  u.teams[n] = u.lastEdit[n] /\ KnownSeed(u, "team", n)
      BY DEF EditsStand
    <3>1. s.teams[n] = s.lastEdit[n] /\ KnownSeed(s, "team", n)
      BY <2>2 DEF StoreInv, EditsStand
    <3>2. n # t
      BY <1>2, <3>1
    <3> QED
      BY <2>2, <3>1, <3>2 DEF KnownSeed, StoreInv, Shaped
  <2>5. ServedBound(u) /\ CallsEntitled(u) /\ RowsShaped(u) /\ (u.mode.required => AllMapped(u))
    BY <2>2 DEF StoreInv, ServedBound, CallsEntitled, RowsShaped, AllMapped
  <2> QED
    BY <2>1, <2>2, <2>3, <2>4, <2>5 DEF StoreInv
<1> QED
  BY <1>1, <1>2

\* What prepareOptions accepts can be bound, and keeps the identity it was given.
LEMMA PreparedKeeps ==
  ASSUME NEW s, StoreInv(s), NEW opts, IsOptions(opts), Prepared(s, opts).ok
  PROVE  /\ Registered(s.registry \cup Prepared(s, opts).bs)
         /\ Prepared(s, opts).opts.ident = opts.ident
<1>1. CASE ~s.mode.required
  BY <1>1 DEF Prepared, StoreInv
<1>2. CASE s.mode.required
  <2> DEFINE b == [ident |-> opts.ident, account |-> AccountOf(s.registry, opts.ident)]
  <2>1. /\ Prepared(s, opts).bs = {b} /\ Binds(s.registry, {b})
        /\ Prepared(s, opts).opts = [opts EXCEPT !.owner = AccountOf(s.registry, opts.ident)]
    BY <1>2 DEF Prepared
  <2>2. Registered({b})
    BY DEF Registered, OneToOne, IsBinding
  <2>3. Registered(s.registry \cup {b})
    BY <2>1, <2>2, BindKeeps DEF StoreInv
  <2> QED
    BY <2>1, <2>3 DEF IsOptions
<1> QED
  BY <1>1, <1>2

\* The row of an upsert is a row, and takes over the mark of the row it updates.
LEMMA UpdatedIsRow ==
  ASSUME NEW s, RowsShaped(s), NEW h \in Hashes, NEW o
  PROVE  /\ IsRow(UpdatedRow(s, h, o)) /\ UpdatedRow(s, h, o).ident = o.ident
         /\ s.keys[h] # NoKey => UpdatedRow(s, h, o).revoked = s.keys[h].revoked
  BY DEF UpdatedRow, Tombstone, IsRow, RowsShaped

LEMMA WrittenKeeps ==
  ASSUME NEW s, StoreInv(s), NEW p, NEW h \in Hashes, NEW opts, IsOptions(opts), NEW upsert \in BOOLEAN,
         upsert \/ s.keys[h] = NoKey,
         Written(s, p, h, opts, upsert).ok
  PROVE  /\ StoreInv(Written(s, p, h, opts, upsert).st)
         /\ RowsKept(s, Written(s, p, h, opts, upsert).st)
<1> DEFINE kept == IF upsert THEN Preserved(s, h, opts) ELSE opts
           prep == Prepared(s, kept)
           row == UpdatedRow(s, h, prep.opts)
           t == [s EXCEPT !.registry = @ \cup prep.bs]
           u == [t EXCEPT !.keys[h] = row]
<1>1. /\ Written(s, p, h, opts, upsert).st = u
      /\ ~(upsert /\ kept.ident # None /\ IdentityClash(s, h, kept))
      /\ prep.ok /\ KeyGuard(t, s.keys[h], row)
  BY Zenon DEF Written
<1>2. IsOptions(kept)
  BY DEF Preserved, IsOptions
<1> HIDE DEF kept
<1>3. /\ Registered(s.registry \cup prep.bs)
      /\ prep.opts.ident = kept.ident
  BY <1>1, <1>2, PreparedKeeps
<1> HIDE DEF prep
<1>4. /\ IsRow(row) /\ row.ident = kept.ident
      /\ s.keys[h] # NoKey => row.revoked = s.keys[h].revoked
  BY <1>3, UpdatedIsRow DEF StoreInv
<1> HIDE DEF row
<1>5. /\ Shaped(u) /\ u.mode = s.mode /\ u.teams = s.teams /\ u.lastEdit = s.lastEdit
      /\ u.served = s.served /\ u.revoking = s.revoking /\ u.revokedAs = s.revokedAs
      /\ u.minting = s.minting /\ u.seeds = s.seeds
      /\ u.registry = s.registry \cup prep.bs
      /\ u.keys = [s.keys EXCEPT ![h] = row]
      /\ t.mode = s.mode /\ t.registry = u.registry
  BY DEF StoreInv, Shaped, Fields
<1>6. KeyGuard(u, s.keys[h], row)
  BY <1>1, <1>5 DEF KeyGuard
<1> HIDE DEF u, t
<1>7. u.mode.required => AllMapped(u)
  BY <1>4, <1>5, <1>6, GuardedRow DEF StoreInv, Shaped, Fields
<1>8. RowsShaped(u)
  BY <1>4, <1>5 DEF RowsShaped, StoreInv, Shaped
<1>9. StoreInv(u)
  BY <1>3, <1>5, <1>7, <1>8, WriteKeeps DEF StoreInv
<1>10. s.keys[h] # NoKey /\ s.keys[h].ident # None => row.ident = s.keys[h].ident
  <2> SUFFICES ASSUME s.keys[h] # NoKey, s.keys[h].ident # None
               PROVE  kept.ident = s.keys[h].ident
    BY <1>4
  <2>1. CASE s.mode.required
    BY <1>1, <1>4, <1>5, <2>1 DEF KeyGuard
  <2>2. CASE ~s.mode.required /\ opts.ident = None
    BY <2>2 DEF kept, Preserved, IsOptions
  <2>3. CASE ~s.mode.required /\ opts.ident # None
    <3>1. kept = opts
      BY <2>3 DEF kept, Preserved
    <3> QED
      BY <1>1, <2>3, <3>1 DEF IdentityClash
  <2> QED
    BY <2>1, <2>2, <2>3
<1>11. RowsKept(s, u)
  BY <1>4, <1>5, <1>10, RowIsAKey DEF RowsKept, StoreInv, Shaped
<1> QED
  BY <1>1, <1>9, <1>11

LEMMA SeedKeyKeeps ==
  ASSUME NEW s, StoreInv(s), NEW h \in Hashes, NEW raw, IsOptions(raw), SeedKey(s, h, raw).ok
  PROVE  StoreInv(SeedKey(s, h, raw).st) /\ RowsKept(s, SeedKey(s, h, raw).st)
<1> DEFINE prep == IF raw.ident = None THEN [ok |-> TRUE, opts |-> raw, bs |-> {}] ELSE Prepared(s, raw)
           o == prep.opts
           typed == IF o.ident # None THEN {Seeded("identity", h, o.ident)} ELSE {}
           t == [s EXCEPT !.registry = @ \cup prep.bs, !.seeds = @ \cup typed]
           key == Seeded("key", h, KeySeedValue(o))
           saved == [t EXCEPT !.seeds = @ \cup {key}]
           row == UpdatedRow(s, h, o)
           inserted == [saved EXCEPT !.keys[h] = row]
           st == SeedKey(s, h, raw).st
<1>1. /\ prep.ok /\ SameSeed(s, "key", h, KeySeedValue(o)) /\ IdentitySeedOK(s, h, o)
      /\ \/ st = t
         \/ st = saved
         \/ st = inserted /\ s.keys[h] = NoKey /\ KeyGuard(t, s.keys[h], row)
  BY Zenon DEF SeedKey
<1> HIDE DEF st
<1>2. Registered(s.registry \cup prep.bs)
  BY <1>1, PreparedKeeps DEF StoreInv
<1> HIDE DEF prep
<1>3. /\ IsRow(row) /\ (s.keys[h] # NoKey => row.revoked = s.keys[h].revoked)
  BY UpdatedIsRow DEF StoreInv
<1> HIDE DEF row
<1>4. SeededOnce(s.seeds \cup typed)
  BY <1>1, SeedMore DEF IdentitySeedOK, StoreInv
<1>5. SeededOnce((s.seeds \cup typed) \cup {key})
  <2>1. \A f \in s.seeds \cup typed : f.kind = "key" /\ f.id = h => f.value = KeySeedValue(o)
    BY <1>1 DEF SameSeed, Seeded
  <2> QED
    BY <1>4, <2>1 DEF SeededOnce, Seeded
<1> HIDE DEF typed, key
<1>6. /\ Shaped(t) /\ t.mode = s.mode /\ t.teams = s.teams /\ t.lastEdit = s.lastEdit
      /\ t.served = s.served /\ t.revoking = s.revoking /\ t.revokedAs = s.revokedAs
      /\ t.minting = s.minting /\ t.seeds = s.seeds \cup typed
      /\ t.registry = s.registry \cup prep.bs /\ t.keys = s.keys
  BY DEF StoreInv, Shaped, Fields
<1> HIDE DEF t
<1>7. /\ Shaped(saved) /\ saved.mode = s.mode /\ saved.teams = s.teams /\ saved.lastEdit = s.lastEdit
      /\ saved.served = s.served /\ saved.revoking = s.revoking /\ saved.revokedAs = s.revokedAs
      /\ saved.minting = s.minting /\ saved.seeds = (s.seeds \cup typed) \cup {key}
      /\ saved.registry = t.registry /\ saved.keys = s.keys
  BY <1>6 DEF Shaped, Fields
<1> HIDE DEF saved
<1>8. StoreInv(t) /\ StoreInv(saved)
  <2>1. RowsShaped(t) /\ RowsShaped(saved)
    BY <1>6, <1>7 DEF StoreInv, RowsShaped
  <2>2. (t.mode.required => AllMapped(t)) /\ (saved.mode.required => AllMapped(saved))
    BY <1>6, <1>7, MappedGrows DEF StoreInv
  <2>3. StoreInv(t)
    BY <1>2, <1>4, <1>6, <2>1, <2>2, WriteKeeps
  <2>4. StoreInv(saved)
    BY <1>2, <1>5, <1>6, <1>7, <2>1, <2>2, WriteKeeps
  <2> QED
    BY <2>3, <2>4
<1>9. RowsKept(s, t) /\ RowsKept(s, saved)
  BY <1>6, <1>7 DEF RowsKept
<1>10. ASSUME s.keys[h] = NoKey, KeyGuard(t, s.keys[h], row)
       PROVE  StoreInv(inserted) /\ RowsKept(s, inserted)
  <2>1. /\ Shaped(inserted) /\ inserted.mode = s.mode /\ inserted.teams = s.teams
        /\ inserted.lastEdit = s.lastEdit /\ inserted.served = s.served
        /\ inserted.revoking = s.revoking /\ inserted.revokedAs = s.revokedAs
        /\ inserted.minting = s.minting /\ inserted.seeds = saved.seeds
        /\ inserted.registry = t.registry /\ inserted.keys = [s.keys EXCEPT ![h] = row]
    BY <1>7 DEF Shaped, Fields
  <2> HIDE DEF inserted
  <2>2. KeyGuard(inserted, s.keys[h], row)
    BY <1>6, <1>10, <2>1 DEF KeyGuard
  <2>3. inserted.mode.required => AllMapped(inserted)
    BY <1>3, <1>6, <2>1, <2>2, GuardedRow DEF StoreInv, Shaped, Fields
  <2>4. RowsShaped(inserted)
    BY <1>3, <2>1 DEF RowsShaped, StoreInv, Shaped
  <2>5. StoreInv(inserted)
    BY <1>2, <1>5, <1>6, <1>7, <2>1, <2>3, <2>4, WriteKeeps
  <2>6. RowsKept(s, inserted)
    BY <1>10, <2>1 DEF RowsKept, StoreInv, Shaped
  <2> QED
    BY <2>5, <2>6
<1> QED
  BY <1>1, <1>8, <1>9, <1>10 DEF st

-----------------------------------------------------------------------------
(* Declaring identities and importing a store *)

LEMMA ConfigureKeeps ==
  ASSUME NEW s, StoreInv(s), NEW c \in Declarations, NEW p \in Processes, Configure(s, c).ok,
         NEW u, u = [Configure(s, c).st EXCEPT !.handles[p] = Configure(s, c).st.mode]
  PROVE  StoreInv(u) /\ RowsKept(s, u)
<1>1. CASE c.org = ""
  <2>1. Configure(s, c).st = s
    BY <1>1 DEF Configure
  <2>2. /\ Shaped(u) /\ u.mode = s.mode /\ u.registry = s.registry /\ u.keys = s.keys /\ u.teams = s.teams
        /\ u.seeds = s.seeds /\ u.revoking = s.revoking /\ u.minting = s.minting
        /\ u.lastEdit = s.lastEdit /\ u.served = s.served /\ u.revokedAs = s.revokedAs
    BY <2>1 DEF StoreInv, Shaped, Fields
  <2>3. RowsShaped(u) /\ (u.mode.required => AllMapped(u))
    BY <2>2 DEF StoreInv, RowsShaped, AllMapped
  <2>4. StoreInv(u)
    BY <2>2, <2>3, WriteKeeps DEF StoreInv
  <2> QED
    BY <2>2, <2>4 DEF RowsKept
<1>2. CASE c.org # ""
  <2> DEFINE bound == [s EXCEPT !.registry = @ \cup c.bindings]
             noted == IF s.mode.required THEN bound ELSE Annotated(bound, c.bindings)
  <2>1. /\ Configure(s, c).st = [noted EXCEPT !.mode = c]
        /\ Binds(s.registry, c.bindings) /\ ModeGuard(s, c)
        /\ c.required => AllMapped(noted)
    BY <1>2, Zenon DEF Configure
  <2>2. /\ IsMode(c) /\ Registered(c.bindings) /\ ModeSound(c)
    <3>1. IsMode(c) /\ ConfigValid(c) /\ \A b \in c.bindings : IsBinding(b)
      BY KeyStoreAssumption, Zenon
    <3>2. c # NoMode
      BY <1>2, NoOrganization
    <3> QED
      BY <1>2, <3>1, <3>2 DEF ConfigValid, Registered, ModeSound
  <2>3. Registered(s.registry \cup c.bindings)
    BY <2>1, <2>2, BindKeeps DEF StoreInv
  <2>4. /\ Shaped(bound) /\ bound.mode = s.mode /\ bound.registry = s.registry \cup c.bindings
        /\ bound.keys = s.keys /\ bound.teams = s.teams /\ bound.seeds = s.seeds
        /\ bound.revoking = s.revoking /\ bound.minting = s.minting /\ bound.lastEdit = s.lastEdit
        /\ bound.served = s.served /\ bound.revokedAs = s.revokedAs /\ bound.handles = s.handles
    BY DEF StoreInv, Shaped, Fields
  <2> HIDE DEF bound
  <2>5. /\ Shaped(noted) /\ noted.mode = s.mode /\ noted.registry = s.registry \cup c.bindings
        /\ noted.teams = s.teams /\ noted.seeds = s.seeds
        /\ noted.revoking = s.revoking /\ noted.minting = s.minting /\ noted.lastEdit = s.lastEdit
        /\ noted.served = s.served /\ noted.revokedAs = s.revokedAs
    <3>1. CASE s.mode.required
      BY <2>4, <3>1
    <3>2. CASE ~s.mode.required
      BY <2>4, <3>2 DEF Annotated, Shaped, Fields
    <3> QED
      BY <3>1, <3>2
  <2>6. \A h \in Hashes :
          \/ noted.keys[h] = s.keys[h]
          \/ /\ s.keys[h] # NoKey /\ s.keys[h].ident = None
             /\ \E i : noted.keys[h] = [s.keys[h] EXCEPT !.ident = i]
    <3>1. CASE s.mode.required
      BY <2>4, <3>1
    <3>2. CASE ~s.mode.required
      <4>1. noted.keys = [h \in Hashes |->
               IF s.keys[h] # NoKey /\ s.keys[h].ident = None /\ \E b \in c.bindings : b.account = s.keys[h].owner
               THEN [s.keys[h] EXCEPT !.ident = (CHOOSE b \in c.bindings : b.account = s.keys[h].owner).ident]
               ELSE s.keys[h]]
        BY <2>4, <3>2 DEF Annotated, Shaped, Fields
      <4> TAKE h \in Hashes
      <4>2. CASE s.keys[h] # NoKey /\ s.keys[h].ident = None /\ \E b \in c.bindings : b.account = s.keys[h].owner
        <5>1. noted.keys[h] =
                [s.keys[h] EXCEPT !.ident = (CHOOSE b \in c.bindings : b.account = s.keys[h].owner).ident]
          BY <4>1, <4>2, Zenon
        <5> QED
          BY <4>2, <5>1
      <4>3. CASE ~(s.keys[h] # NoKey /\ s.keys[h].ident = None /\ \E b \in c.bindings : b.account = s.keys[h].owner)
        BY <4>1, <4>3, Zenon
      <4> QED
        BY <4>2, <4>3
    <3> QED
      BY <3>1, <3>2
  <2> HIDE DEF noted
  <2>7. RowsShaped(noted) /\ RowsKept(s, noted)
    <3> SUFFICES ASSUME NEW h \in Hashes, s.keys[h] # NoKey
                 PROVE  /\ IsRow(noted.keys[h])
                        /\ s.keys[h].ident # None => noted.keys[h].ident = s.keys[h].ident
                        /\ s.keys[h].revoked => noted.keys[h].revoked
      BY <2>6, RowIsAKey DEF RowsShaped, RowsKept
    <3>1. IsRow(s.keys[h])
      BY DEF StoreInv, RowsShaped
    <3> QED
      BY <2>6, <3>1 DEF IsRow
  <2>8. /\ Shaped(u) /\ u.mode = c /\ u.registry = noted.registry /\ u.keys = noted.keys /\ u.teams = s.teams
        /\ u.seeds = s.seeds /\ u.revoking = s.revoking /\ u.minting = s.minting
        /\ u.lastEdit = s.lastEdit /\ u.served = s.served /\ u.revokedAs = s.revokedAs
    BY <2>1, <2>5 DEF Shaped, Fields
  <2>9. u.mode.required => AllMapped(u)
    BY <2>1, <2>8 DEF AllMapped
  <2>10. ServedBound(u)
    BY <2>1, <2>5, <2>8 DEF StoreInv, ServedBound, ModeGuard
  <2>11. EditsStand(u) /\ CallsEntitled(u)
    BY <2>8 DEF StoreInv, EditsStand, CallsEntitled, KnownSeed
  <2>12. RowsShaped(u) /\ RowsKept(s, u)
    BY <2>7, <2>8 DEF RowsShaped, RowsKept
  <2> QED
    BY <2>2, <2>3, <2>5, <2>8, <2>9, <2>10, <2>11, <2>12 DEF StoreInv
<1> QED
  BY <1>1, <1>2

LEMMA ImportKeeps ==
  ASSUME StoreInv(ks), NEW src \in SourceStores, ImportSQLite(src)
  PROVE  StoreInv(ks') /\ RowsKept(ks, ks')
<1> DEFINE staged == Staged(ks, src)
           moved == Moved(staged, src)
<1>1. /\ Stageable(ks, src) /\ Movable(staged, src)
      /\ src.mode.required => AllMapped(moved)
      /\ ModeGuard(ks, Finished(moved, src).mode)
      /\ ks' = Finished(moved, src)
  BY Zenon DEF ImportSQLite
<1>2. /\ IsMode(src.mode) /\ (src.mode.required => src.mode.org # "")
      /\ Registered(src.registry) /\ \A h \in DOMAIN src.keys : IsRow(src.keys[h])
  BY KeyStoreAssumption DEF Registered
<1>3. Registered(ks.registry \cup src.registry)
  BY <1>1, <1>2, BindKeeps DEF Stageable, StoreInv
<1>4. /\ Shaped(staged) /\ staged.registry = ks.registry \cup src.registry
      /\ staged.mode = (IF ks.mode.org = "" THEN [src.mode EXCEPT !.required = FALSE] ELSE ks.mode)
      /\ staged.keys = ks.keys /\ staged.teams = ks.teams /\ staged.seeds = ks.seeds
      /\ staged.revoking = ks.revoking /\ staged.minting = ks.minting /\ staged.lastEdit = ks.lastEdit
      /\ staged.served = ks.served /\ staged.revokedAs = ks.revokedAs
  BY DEF StoreInv, Shaped, Staged, Fields
<1> HIDE DEF staged
<1>5. /\ Shaped(moved) /\ moved.registry = staged.registry /\ moved.mode = staged.mode
      /\ moved.seeds = ks.seeds /\ moved.revoking = ks.revoking /\ moved.minting = ks.minting
      /\ moved.served = ks.served /\ moved.revokedAs = ks.revokedAs
      /\ moved.keys = [h \in Hashes |-> IF h \in DOMAIN src.keys THEN src.keys[h] ELSE ks.keys[h]]
      /\ moved.teams = [t \in TeamNames |-> IF t \in DOMAIN src.teams THEN src.teams[t] ELSE ks.teams[t]]
      /\ moved.lastEdit = [t \in TeamNames |->
            IF t \in DOMAIN src.teams THEN Noted(staged, t, src.teams[t]) ELSE ks.lastEdit[t]]
  BY <1>4 DEF Shaped, Moved, Fields
<1> HIDE DEF moved
<1>6. /\ Shaped(ks') /\ ks'.registry = ks.registry \cup src.registry
      /\ ks'.mode = (IF src.mode.org # "" THEN src.mode ELSE staged.mode)
      /\ ks'.keys = moved.keys /\ ks'.teams = moved.teams /\ ks'.lastEdit = moved.lastEdit
      /\ ks'.seeds = ks.seeds /\ ks'.revoking = ks.revoking /\ ks'.minting = ks.minting
      /\ ks'.served = ks.served /\ ks'.revokedAs = ks.revokedAs
  BY <1>1, <1>4, <1>5 DEF Finished, Shaped, Fields
<1>0. /\ \A h \in Hashes : ks'.keys[h] = IF h \in DOMAIN src.keys THEN src.keys[h] ELSE ks.keys[h]
      /\ \A t \in TeamNames :
           /\ ks'.teams[t] = IF t \in DOMAIN src.teams THEN src.teams[t] ELSE ks.teams[t]
           /\ ks'.lastEdit[t] = IF t \in DOMAIN src.teams THEN Noted(staged, t, src.teams[t]) ELSE ks.lastEdit[t]
  <2>1. /\ ks'.keys = [h \in Hashes |-> IF h \in DOMAIN src.keys THEN src.keys[h] ELSE ks.keys[h]]
        /\ ks'.teams = [t \in TeamNames |-> IF t \in DOMAIN src.teams THEN src.teams[t] ELSE ks.teams[t]]
        /\ ks'.lastEdit = [t \in TeamNames |->
              IF t \in DOMAIN src.teams THEN Noted(staged, t, src.teams[t]) ELSE ks.lastEdit[t]]
    BY <1>5, <1>6, Zenon
  <2> QED
    BY <2>1, Zenon
<1>7. /\ ModeSound(ks'.mode) /\ (ks'.mode.required => src.mode.required)
      /\ ks.mode.required => ks'.mode = ks.mode
  <2>1. ks.mode.org # "" => ks.mode = src.mode
    BY <1>1 DEF Stageable
  <2>2. ks.mode.required => ks'.mode = ks.mode
    BY <1>1 DEF ModeGuard
  <2> QED
    BY <1>2, <1>4, <1>6, <2>1, <2>2 DEF ModeSound, IsMode, StoreInv
<1>8. ks'.mode.required => AllMapped(ks')
  BY <1>1, <1>4, <1>5, <1>6, <1>7 DEF AllMapped
<1>9. \A h \in Hashes : ks.keys[h] # NoKey => ks'.keys[h] = ks.keys[h]
  <2>1. \A h \in DOMAIN src.keys : staged.keys[h] \in {NoKey, src.keys[h]}
    BY <1>1, Zenon DEF Movable
  <2> QED
    BY <1>4, <1>0, <2>1
<1>10. RowsShaped(ks') /\ RowsKept(ks, ks')
  BY <1>2, <1>0, <1>9 DEF RowsShaped, RowsKept, StoreInv
<1>11. ServedBound(ks')
  BY <1>6, <1>7 DEF ServedBound, StoreInv
<1>12. EditsStand(ks')
  <2> SUFFICES ASSUME NEW t \in TeamNames, ks'.lastEdit[t] # "unedited"
               PROVE  ks'.teams[t] = ks'.lastEdit[t] /\ KnownSeed(ks', "team", t)
    BY DEF EditsStand
  <2>1. CASE t \in DOMAIN src.teams
    <3>1. ks'.teams[t] = src.teams[t] /\ ks'.lastEdit[t] = Noted(staged, t, src.teams[t])
      BY <1>0, <2>1, Zenon
    <3>2. KnownSeed(staged, "team", t) /\ ks'.lastEdit[t] = src.teams[t]
      BY <3>1, Zenon DEF Noted
    <3>3. staged.seeds = ks'.seeds
      BY <1>4, <1>6, Zenon
    <3> QED
      BY <3>1, <3>2, <3>3, Zenon DEF KnownSeed
  <2>2. CASE t \notin DOMAIN src.teams
    <3>1. ks'.teams[t] = ks.teams[t] /\ ks'.lastEdit[t] = ks.lastEdit[t]
      BY <1>0, <2>2, Zenon
    <3>2. ks.teams[t] = ks.lastEdit[t] /\ KnownSeed(ks, "team", t)
      BY <3>1, Zenon DEF StoreInv, EditsStand
    <3>3. ks'.seeds = ks.seeds
      BY <1>6, Zenon
    <3> QED
      BY <3>1, <3>2, <3>3, Zenon DEF KnownSeed
  <2> QED
    BY <2>1, <2>2
<1>13. CallsEntitled(ks')
  BY <1>6 DEF StoreInv, CallsEntitled
<1> QED
  BY <1>3, <1>6, <1>7, <1>8, <1>10, <1>11, <1>12, <1>13 DEF StoreInv

-----------------------------------------------------------------------------
(* Actions *)

KeysInv == StoreInv(ks)

LEMMA KeysInitInv == InitKeys => KeysInv
<1> SUFFICES ASSUME InitKeys PROVE StoreInv(ks)
  BY DEF KeysInv
<1>1. /\ DOMAIN ks = Fields
      /\ ks.mode = NoMode /\ ks.registry = {} /\ ks.seeds = {} /\ ks.served = {} /\ ks.revoking = {}
      /\ ks.minting = {} /\ ks.revokedAs = {} /\ ks.edits = TeamEdits /\ ks.mints = Mints
      /\ ks.keys = [h \in Hashes |-> NoKey] /\ ks.teams = [t \in TeamNames |-> "none"]
      /\ ks.handles = [p \in Processes |-> NoMode] /\ ks.lastEdit = [t \in TeamNames |-> "unedited"]
  BY DEF InitKeys, Fields
<1>2. Shaped(ks)
  <2>1. TeamEdits \in Nat /\ Mints \in Nat
    BY KeyStoreAssumption
  <2>2. ks.edits \in 0..TeamEdits /\ ks.mints \in 0..Mints
    BY <1>1, <2>1
  <2>3. DOMAIN ks.keys = Hashes /\ DOMAIN ks.handles = Processes /\ DOMAIN ks.teams = TeamNames
        /\ DOMAIN ks.lastEdit = TeamNames
    BY <1>1
  <2> QED
    BY <1>1, <2>2, <2>3 DEF Shaped
<1>3. ModeSound(ks.mode) /\ ~ks.mode.required
  BY <1>1, NothingRequired
<1>4. Registered(ks.registry) /\ SeededOnce(ks.seeds) /\ RowsShaped(ks)
  BY <1>1 DEF Registered, OneToOne, SeededOnce, RowsShaped
<1>5. ServedBound(ks) /\ EditsStand(ks) /\ CallsEntitled(ks)
  BY <1>1 DEF ServedBound, EditsStand, CallsEntitled
<1> QED
  BY <1>2, <1>3, <1>4, <1>5 DEF StoreInv

LEMMA SeedStep ==
  ASSUME KeysInv, NEW p, NEW f \in SeedFiles, Seed(p, f)
  PROVE  KeysInv' /\ RowsKept(ks, ks')
<1> DEFINE t == CHOOSE t \in DOMAIN f.teams : TRUE
           h == CHOOSE h \in DOMAIN f.keys : TRUE
           a == IF DOMAIN f.teams = {} THEN [ok |-> TRUE, st |-> ks] ELSE SeedTeam(ks, t, f.teams[t])
           b == IF DOMAIN f.keys = {} THEN [ok |-> TRUE, st |-> a.st] ELSE SeedKey(a.st, h, f.keys[h])
<1>1. a.ok /\ b.ok /\ ks' = b.st
  BY Zenon DEF Seed
<1>2. /\ DOMAIN f.teams # {} => t \in TeamNames
      /\ DOMAIN f.keys # {} => h \in Hashes /\ IsOptions(f.keys[h])
  BY KeyStoreAssumption
<1> HIDE DEF t, h
<1>3. StoreInv(a.st) /\ a.st.keys = ks.keys
  <2>1. CASE DOMAIN f.teams = {}
    BY <2>1 DEF KeysInv
  <2>2. CASE DOMAIN f.teams # {}
    BY <1>1, <1>2, <2>2, SeedTeamKeeps DEF KeysInv
  <2> QED
    BY <2>1, <2>2
<1> HIDE DEF a
<1>4. StoreInv(b.st) /\ RowsKept(a.st, b.st)
  <2>1. CASE DOMAIN f.keys = {}
    BY <1>3, <2>1, KeptReflexive
  <2>2. CASE DOMAIN f.keys # {}
    BY <1>1, <1>2, <1>3, <2>2, SeedKeyKeeps
  <2> QED
    BY <2>1, <2>2
<1> HIDE DEF b
<1> QED
  BY <1>1, <1>3, <1>4 DEF KeysInv, RowsKept

LEMMA EnsureStep ==
  ASSUME KeysInv, NEW p, NEW f \in SeedFiles, NEW h \in DOMAIN f.keys, EnsureKey(p, f, h)
  PROVE  KeysInv' /\ RowsKept(ks, ks')
<1>1. h \in Hashes /\ IsOptions(f.keys[h])
  BY KeyStoreAssumption
<1>2. Written(ks, p, h, f.keys[h], TRUE).ok /\ ks' = Written(ks, p, h, f.keys[h], TRUE).st
  BY Zenon DEF EnsureKey
<1> QED
  BY <1>1, <1>2, WrittenKeeps DEF KeysInv

LEMMA MintCreateStep ==
  ASSUME KeysInv, NEW p, NEW h \in Hashes, MintCreate(p, h)
  PROVE  KeysInv' /\ RowsKept(ks, ks')
<1> DEFINE s == [ks EXCEPT !.minting = {}]
<1>1. PICK opts \in ks.minting : Create(s, p, h, opts).ok /\ ks' = Create(s, p, h, opts).st
  BY Zenon DEF MintCreate
<1>2. /\ Shaped(s) /\ s.mode = ks.mode /\ s.registry = ks.registry /\ s.keys = ks.keys /\ s.teams = ks.teams
      /\ s.seeds = ks.seeds /\ s.revoking = ks.revoking /\ s.minting = {}
      /\ s.lastEdit = ks.lastEdit /\ s.served = ks.served /\ s.revokedAs = ks.revokedAs
  BY DEF KeysInv, StoreInv, Shaped, Fields
<1> HIDE DEF s
<1>3. RowsShaped(s) /\ (s.mode.required => AllMapped(s))
  BY <1>2 DEF KeysInv, StoreInv, RowsShaped, AllMapped
<1>4. StoreInv(s)
  BY <1>2, <1>3, WriteKeeps DEF KeysInv, StoreInv
<1>5. s.keys[h] = NoKey /\ Written(s, p, h, opts, FALSE).ok /\ ks' = Written(s, p, h, opts, FALSE).st
  BY <1>1, Zenon DEF Create
<1>6. IsOptions(opts)
  BY DEF KeysInv, StoreInv, CallsEntitled
<1>7. StoreInv(ks') /\ RowsKept(s, ks')
  BY <1>4, <1>5, <1>6, WrittenKeeps
<1> QED
  BY <1>2, <1>7 DEF KeysInv, RowsKept

\* What is left alone by the calls that only read, mint or forget.
SameRows == ks'.mode = ks.mode /\ ks'.registry = ks.registry /\ ks'.keys = ks.keys /\ ks'.seeds = ks.seeds

LEMMA MintStep ==
  ASSUME KeysInv, NEW opts, IsOptions(opts), Mint(opts)
  PROVE  KeysInv' /\ RowsKept(ks, ks')
<1>1. /\ Shaped(ks') /\ SameRows /\ ks'.teams = ks.teams /\ ks'.lastEdit = ks.lastEdit
      /\ ks'.served = ks.served /\ ks'.revoking = ks.revoking /\ ks'.revokedAs = ks.revokedAs
      /\ ks'.minting = {opts}
  <2>1. ks.mints > 0 /\ ks' = [ks EXCEPT !.minting = {opts}, !.mints = @ - 1]
    BY DEF Mint
  <2>2. Mints \in Nat
    BY KeyStoreAssumption
  <2>3. ks.mints \in 0..Mints /\ ks.mints - 1 \in 0..Mints
    BY <2>1, <2>2 DEF KeysInv, StoreInv, Shaped
  <2>4. Shaped(ks)
    BY DEF KeysInv, StoreInv
  <2> DEFINE one == {opts}
  <2> HIDE DEF one
  <2>5. ks' = [ks EXCEPT !.minting = one, !.mints = @ - 1]
    BY <2>1 DEF one
  <2>6. /\ Shaped(ks') /\ SameRows /\ ks'.teams = ks.teams /\ ks'.lastEdit = ks.lastEdit
        /\ ks'.served = ks.served /\ ks'.revoking = ks.revoking /\ ks'.revokedAs = ks.revokedAs
        /\ ks'.minting = one
    BY <2>3, <2>4, <2>5 DEF SameRows, Shaped, Fields
  <2> QED
    BY <2>6 DEF one
<1>2. RowsShaped(ks') /\ (ks'.mode.required => AllMapped(ks')) /\ ServedBound(ks') /\ EditsStand(ks')
  BY <1>1 DEF KeysInv, StoreInv, SameRows, RowsShaped, AllMapped, ServedBound, EditsStand, KnownSeed
<1>3. CallsEntitled(ks')
  BY <1>1 DEF KeysInv, StoreInv, CallsEntitled
<1> QED
  BY <1>1, <1>2, <1>3 DEF KeysInv, StoreInv, SameRows, RowsKept

\* Every minting call carries options.
LEMMA MintingStep ==
  ASSUME KeysInv, NEW t,
         \/ MintCLI(t) \/ MintService(t) \/ MintForOwner(t, LegacyOwner)
         \/ \E b \in ks.registry : MintForAccount(t, b)
  PROVE  KeysInv' /\ RowsKept(ks, ks')
<1>1. ASSUME NEW team, NEW ident, NEW owner
      PROVE  IsOptions([team |-> team, ident |-> ident, owner |-> owner])
  BY DEF IsOptions
<1>2. \E team, ident, owner : Mint([team |-> team, ident |-> ident, owner |-> owner])
  BY Zenon DEF MintCLI, MintService, MintForOwner, MintForAccount
<1> QED
  BY <1>1, <1>2, MintStep

LEMMA RefusedStep ==
  ASSUME KeysInv, NEW p, MintRefused(p) \/ Restart(p)
  PROVE  KeysInv' /\ RowsKept(ks, ks')
<1>1. ks' = [ks EXCEPT !.minting = {}] \/ ks' = [ks EXCEPT !.handles[p] = NoMode]
  BY Zenon DEF MintRefused, Restart
<1>2. /\ Shaped(ks') /\ SameRows /\ ks'.teams = ks.teams /\ ks'.lastEdit = ks.lastEdit
      /\ ks'.served = ks.served /\ ks'.revoking = ks.revoking /\ ks'.revokedAs = ks.revokedAs
      /\ ks'.minting \subseteq ks.minting
  BY <1>1 DEF SameRows, KeysInv, StoreInv, Shaped, Fields
<1>3. RowsShaped(ks') /\ (ks'.mode.required => AllMapped(ks'))
  BY <1>2 DEF KeysInv, StoreInv, SameRows, RowsShaped, AllMapped
<1>4. StoreInv(ks')
  BY <1>2, <1>3, WriteKeeps DEF KeysInv, StoreInv, SameRows
<1> QED
  BY <1>2, <1>4 DEF KeysInv, SameRows, RowsKept

LEMMA ConfigureStep ==
  ASSUME KeysInv, NEW p \in Processes, NEW c \in Declarations, ConfigureIdentity(p, c)
  PROVE  KeysInv' /\ RowsKept(ks, ks')
<1>1. /\ Configure(ks, c).ok
      /\ ks' = [Configure(ks, c).st EXCEPT !.handles[p] = Configure(ks, c).st.mode]
  BY Zenon DEF ConfigureIdentity
<1> QED
  BY <1>1, ConfigureKeeps DEF KeysInv

\* What Resolve remembers is the pair the registry holds, under the mode in force.
LEMMA ResolveStep ==
  ASSUME KeysInv, NEW p, NEW h \in Hashes, Resolve(p, h)
  PROVE  KeysInv' /\ RowsKept(ks, ks')
<1> DEFINE pair == [ident |-> ks.keys[h].ident, owner |-> ks.keys[h].owner, under |-> ks.handles[p]]
           more == IF ks.mode.required THEN {pair} ELSE {}
<1>1. Readable(ks, h) /\ Configured(ks, p) /\ ks' = [ks EXCEPT !.served = @ \cup more]
  BY Zenon DEF Resolve
<1>2. ASSUME NEW a \in more
      PROVE  /\ ks.mode.required /\ a.under = ks.mode
             /\ a = [ident |-> a.ident, owner |-> a.owner, under |-> a.under]
             /\ [ident |-> a.ident, account |-> a.owner] \in ks.registry
  <2>1. ks.mode.required /\ a = pair
    BY <1>2
  <2>2. ks.handles[p] = ks.mode /\ Bound(ks.registry, ks.keys[h])
    BY <1>1, <2>1 DEF Readable, Configured
  <2>3. [ident |-> ks.keys[h].ident, account |-> ks.keys[h].owner] \in ks.registry
    BY <2>2, BoundPair DEF KeysInv, StoreInv
  <2> QED
    BY <2>1, <2>2, <2>3
<1> HIDE DEF more
<1>3. /\ Shaped(ks') /\ SameRows /\ ks'.teams = ks.teams /\ ks'.lastEdit = ks.lastEdit
      /\ ks'.served = ks.served \cup more /\ ks'.revoking = ks.revoking /\ ks'.revokedAs = ks.revokedAs
      /\ ks'.minting = ks.minting
  BY <1>1 DEF SameRows, KeysInv, StoreInv, Shaped, Fields
<1>4. ServedBound(ks')
  BY <1>2, <1>3 DEF SameRows, KeysInv, StoreInv, ServedBound
<1>5. RowsShaped(ks') /\ (ks'.mode.required => AllMapped(ks')) /\ EditsStand(ks') /\ CallsEntitled(ks')
  BY <1>3 DEF KeysInv, StoreInv, SameRows, RowsShaped, AllMapped, EditsStand, KnownSeed, CallsEntitled
<1> QED
  BY <1>3, <1>4, <1>5 DEF KeysInv, StoreInv, SameRows, RowsKept

\* A live row that is marked revoked was bound, and stays what it was otherwise.
LEMMA RevokedRow ==
  ASSUME KeysInv, NEW h \in Hashes, ks.keys[h] # NoKey, ~ks.keys[h].revoked, NEW t,
         t.mode = ks.mode, t.registry = ks.registry,
         t.keys = [ks.keys EXCEPT ![h] = [@ EXCEPT !.revoked = TRUE]]
  PROVE  RowsShaped(t) /\ (t.mode.required => AllMapped(t)) /\ RowsKept(ks, t)
<1> DEFINE row == [ks.keys[h] EXCEPT !.revoked = TRUE]
<1>1. IsRow(ks.keys[h])
  BY DEF KeysInv, StoreInv, RowsShaped
<1>2. IsRow(row) /\ row.ident = ks.keys[h].ident /\ row.owner = ks.keys[h].owner /\ row.revoked
  <2> DEFINE k == ks.keys[h]
  <2> HIDE DEF k
  <2>0. row = [k EXCEPT !.revoked = TRUE] /\ IsRow(k)
    BY <1>1 DEF k
  <2> HIDE DEF row
  <2>1. row = [team |-> k.team, owner |-> k.owner, ident |-> k.ident, revoked |-> TRUE]
    BY <2>0 DEF IsRow
  <2>2. row.team = k.team /\ row.ident = k.ident /\ row.owner = k.owner /\ row.revoked = TRUE
    BY <2>1
  <2> QED
    BY <2>1, <2>2 DEF IsRow, k
<1>3. t.keys = [ks.keys EXCEPT ![h] = row] /\ DOMAIN ks.keys = Hashes
  BY DEF KeysInv, StoreInv, Shaped
<1> HIDE DEF row
<1>4. RowsShaped(t)
  BY <1>2, <1>3 DEF KeysInv, StoreInv, RowsShaped
<1>5. RowsKept(ks, t)
  BY <1>2, <1>3, RowIsAKey DEF RowsKept
<1>6. t.mode.required => AllMapped(t)
  <2> SUFFICES ASSUME ks.mode.required, NEW g \in Hashes,
                      t.keys[g] # NoKey, ~t.keys[g].revoked \/ t.keys[g].owner # None
               PROVE  Bound(t.registry, t.keys[g])
    BY DEF AllMapped
  <2>1. AllMapped(ks)
    BY DEF KeysInv, StoreInv
  <2>2. CASE g = h
    BY <1>2, <1>3, <2>1, <2>2 DEF AllMapped, Bound
  <2>3. CASE g # h
    BY <1>3, <2>1, <2>3 DEF AllMapped
  <2> QED
    BY <2>2, <2>3
<1> QED
  BY <1>4, <1>5, <1>6

LEMMA RevokeStep ==
  ASSUME KeysInv, NEW h \in Hashes, Revoke(h)
  PROVE  KeysInv' /\ RowsKept(ks, ks')
<1>1. /\ ks.keys[h] # NoKey /\ ~ks.keys[h].revoked
      /\ ks' = [ks EXCEPT !.keys[h].revoked = TRUE]
  BY DEF Revoke
<1>2. /\ Shaped(ks') /\ ks'.mode = ks.mode /\ ks'.registry = ks.registry /\ ks'.seeds = ks.seeds
      /\ ks'.teams = ks.teams /\ ks'.lastEdit = ks.lastEdit
      /\ ks'.served = ks.served /\ ks'.revoking = ks.revoking /\ ks'.revokedAs = ks.revokedAs
      /\ ks'.minting = ks.minting
      /\ ks'.keys = [ks.keys EXCEPT ![h] = [@ EXCEPT !.revoked = TRUE]]
  BY <1>1 DEF KeysInv, StoreInv, Shaped, Fields
<1>3. RowsShaped(ks') /\ (ks'.mode.required => AllMapped(ks')) /\ RowsKept(ks, ks')
  BY <1>1, <1>2, RevokedRow
<1>4. StoreInv(ks')
  BY <1>2, <1>3, WriteKeeps DEF KeysInv, StoreInv
<1> QED
  BY <1>3, <1>4 DEF KeysInv

\* A revocation call that starts has read a key, an administrator's one of an
\* entitled team.
LEMMA RevokingStep ==
  ASSUME KeysInv, NEW p, NEW h \in Hashes, RevokeOwn(p, h) \/ RevokeLookup(p, h)
  PROVE  KeysInv' /\ RowsKept(ks, ks')
<1>1. PICK call : /\ ks' = [ks EXCEPT !.revoking = {call}]
                  /\ call.snap = Snapshot(ks, h) /\ call.own \in BOOLEAN
                  /\ ~call.own => ks.keys[h].team \in Entitlement
  <2>1. CASE RevokeOwn(p, h)
    <3> DEFINE call == [own |-> TRUE, snap |-> Snapshot(ks, h)]
    <3>1. ks' = [ks EXCEPT !.revoking = {call}]
      BY <2>1, Zenon DEF RevokeOwn
    <3>2. call.snap = Snapshot(ks, h) /\ call.own = TRUE
      BY Zenon
    <3> QED
      BY <3>1, <3>2, Zenon
  <2>2. CASE RevokeLookup(p, h)
    <3> DEFINE call == [own |-> FALSE, snap |-> Snapshot(ks, h)]
    <3>1. ks' = [ks EXCEPT !.revoking = {call}] /\ ks.keys[h].team \in Entitlement
      BY <2>2, Zenon DEF RevokeLookup
    <3>2. call.snap = Snapshot(ks, h) /\ call.own = FALSE
      BY Zenon
    <3> QED
      BY <3>1, <3>2, Zenon
  <2> QED
    BY <2>1, <2>2
<1>2. call.snap.hash = h /\ call.snap.key = ks.keys[h]
  BY <1>1 DEF Snapshot
<1> DEFINE calls == {call}
<1>3. \A c \in calls : c.snap.hash \in Hashes /\ (~c.own => c.snap.key.team \in Entitlement)
  BY <1>1, <1>2
<1>4. ks' = [ks EXCEPT !.revoking = calls]
  BY <1>1
<1> HIDE DEF calls
<1>5. /\ Shaped(ks') /\ SameRows /\ ks'.teams = ks.teams /\ ks'.lastEdit = ks.lastEdit
      /\ ks'.served = ks.served /\ ks'.revoking = calls /\ ks'.revokedAs = ks.revokedAs
      /\ ks'.minting = ks.minting
  BY <1>4 DEF SameRows, KeysInv, StoreInv, Shaped, Fields
<1>6. RowsShaped(ks') /\ (ks'.mode.required => AllMapped(ks')) /\ ServedBound(ks') /\ EditsStand(ks')
  BY <1>5 DEF KeysInv, StoreInv, SameRows, RowsShaped, AllMapped, ServedBound, EditsStand, KnownSeed
<1>7. CallsEntitled(ks')
  BY <1>3, <1>5 DEF KeysInv, StoreInv, CallsEntitled
<1> QED
  BY <1>5, <1>6, <1>7 DEF KeysInv, StoreInv, SameRows, RowsKept

\* The key is still the one that was read, so its team is still the one that
\* was checked.
LEMMA RevokeSnapshotStep ==
  ASSUME KeysInv, RevokeSnapshot
  PROVE  KeysInv' /\ RowsKept(ks, ks')
<1>1. PICK call \in ks.revoking :
        ks' = IF UnchangedSince(ks, call.snap)
              THEN [ks EXCEPT !.revoking = {}, !.keys[call.snap.hash].revoked = TRUE,
                              !.revokedAs = @ \cup IF call.own THEN {} ELSE {ks.keys[call.snap.hash].team}]
              ELSE [ks EXCEPT !.revoking = {}]
  BY DEF RevokeSnapshot
<1> DEFINE h == call.snap.hash
           team == IF call.own THEN {} ELSE {ks.keys[h].team}
<1>2. h \in Hashes /\ (~call.own => call.snap.key.team \in Entitlement)
  BY DEF KeysInv, StoreInv, CallsEntitled
<1>3. CASE UnchangedSince(ks, call.snap)
  <2>1. Readable(ks, h) /\ Snapshot(ks, h) = call.snap
    BY <1>3 DEF UnchangedSince
  <2>2. ks.keys[h] # NoKey /\ ~ks.keys[h].revoked
    BY <2>1 DEF Readable
  <2>3. ks.keys[h] = call.snap.key
    <3>1. Snapshot(ks, h).key = ks.keys[h]
      BY DEF Snapshot
    <3> QED
      BY <2>1, <3>1
  <2>4. team \subseteq Entitlement
    BY <1>2, <2>3
  <2>5. ks' = [ks EXCEPT !.revoking = {}, !.keys[h].revoked = TRUE, !.revokedAs = @ \cup team]
    BY <1>1, <1>3
  <2> HIDE DEF h, team
  <2>6. /\ Shaped(ks') /\ ks'.mode = ks.mode /\ ks'.registry = ks.registry /\ ks'.seeds = ks.seeds
        /\ ks'.teams = ks.teams /\ ks'.lastEdit = ks.lastEdit
        /\ ks'.served = ks.served /\ ks'.revoking = {} /\ ks'.revokedAs = ks.revokedAs \cup team
        /\ ks'.minting = ks.minting
        /\ ks'.keys = [ks.keys EXCEPT ![h] = [@ EXCEPT !.revoked = TRUE]]
    BY <2>5 DEF KeysInv, StoreInv, Shaped, Fields
  <2>7. h \in Hashes
    BY <1>2 DEF h
  <2>8. RowsShaped(ks') /\ (ks'.mode.required => AllMapped(ks')) /\ RowsKept(ks, ks')
    BY <2>2, <2>6, <2>7, RevokedRow
  <2>9. ServedBound(ks') /\ EditsStand(ks') /\ CallsEntitled(ks')
    BY <2>4, <2>6 DEF KeysInv, StoreInv, ServedBound, EditsStand, KnownSeed, CallsEntitled
  <2> QED
    BY <2>6, <2>8, <2>9 DEF KeysInv, StoreInv
<1>4. CASE ~UnchangedSince(ks, call.snap)
  <2>1. ks' = [ks EXCEPT !.revoking = {}]
    BY <1>1, <1>4
  <2>2. /\ Shaped(ks') /\ SameRows /\ ks'.teams = ks.teams /\ ks'.lastEdit = ks.lastEdit
        /\ ks'.served = ks.served /\ ks'.revoking = {} /\ ks'.revokedAs = ks.revokedAs
        /\ ks'.minting = ks.minting
    BY <2>1 DEF SameRows, KeysInv, StoreInv, Shaped, Fields
  <2>3. RowsShaped(ks') /\ (ks'.mode.required => AllMapped(ks')) /\ ServedBound(ks') /\ EditsStand(ks')
        /\ CallsEntitled(ks')
    BY <2>2 DEF KeysInv, StoreInv, SameRows, RowsShaped, AllMapped, ServedBound, EditsStand, KnownSeed,
                CallsEntitled
  <2> QED
    BY <2>2, <2>3 DEF KeysInv, StoreInv, SameRows, RowsKept
<1> QED
  BY <1>3, <1>4

LEMMA TeamStep ==
  ASSUME KeysInv, NEW t \in TeamNames, UpsertTeam(t, "edited") \/ DeleteTeam(t)
  PROVE  KeysInv' /\ RowsKept(ks, ks')
<1>1. PICK v : /\ ks.edits > 0
               /\ ks' = [ks EXCEPT !.edits = @ - 1, !.teams[t] = v, !.lastEdit[t] = Noted(ks, t, v)]
  BY Zenon DEF UpsertTeam, DeleteTeam
<1> DEFINE note == Noted(ks, t, v)
<1>2. note # "unedited" => note = v /\ KnownSeed(ks, "team", t)
  BY DEF Noted
<1> HIDE DEF note
<1>3. ks.edits \in 0..TeamEdits /\ ks.edits - 1 \in 0..TeamEdits
  <2>1. TeamEdits \in Nat
    BY KeyStoreAssumption
  <2> QED
    BY <1>1, <2>1 DEF KeysInv, StoreInv, Shaped
<1>4. /\ Shaped(ks') /\ SameRows /\ ks'.teams = [ks.teams EXCEPT ![t] = v]
      /\ ks'.lastEdit = [ks.lastEdit EXCEPT ![t] = note]
      /\ ks'.served = ks.served /\ ks'.revoking = ks.revoking /\ ks'.revokedAs = ks.revokedAs
      /\ ks'.minting = ks.minting
  BY <1>1, <1>3 DEF SameRows, KeysInv, StoreInv, Shaped, Fields, note
<1>5. EditsStand(ks')
  BY <1>2, <1>4 DEF KeysInv, StoreInv, Shaped, SameRows, EditsStand, KnownSeed
<1>6. RowsShaped(ks') /\ (ks'.mode.required => AllMapped(ks')) /\ ServedBound(ks') /\ CallsEntitled(ks')
  BY <1>4 DEF KeysInv, StoreInv, SameRows, RowsShaped, AllMapped, ServedBound, CallsEntitled
<1> QED
  BY <1>4, <1>5, <1>6 DEF KeysInv, StoreInv, SameRows, RowsKept

-----------------------------------------------------------------------------
(* Every step *)

LEMMA KeysStep ==
  ASSUME KeysInv, NextKeys
  PROVE  KeysInv' /\ RowsKept(ks, ks')
<1>1. CASE \E p \in Processes, f \in SeedFiles : Seed(p, f) \/ \E h \in DOMAIN f.keys : EnsureKey(p, f, h)
  BY <1>1, SeedStep, EnsureStep
<1>2. CASE \E p \in Processes, h \in Hashes :
             Resolve(p, h) \/ RevokeLookup(p, h) \/ RevokeOwn(p, h) \/ MintCreate(p, h)
  BY <1>2, ResolveStep, RevokingStep, MintCreateStep
<1>3. CASE \E p \in Processes : MintRefused(p) \/ Restart(p) \/ \E c \in Declarations : ConfigureIdentity(p, c)
  BY <1>3, RefusedStep, ConfigureStep
<1>4. CASE \E t \in TeamNames :
             \/ MintCLI(t) \/ MintService(t) \/ MintForOwner(t, LegacyOwner)
             \/ \E b \in ks.registry : MintForAccount(t, b)
  BY <1>4, MintingStep
<1>5. CASE \E t \in TeamNames : UpsertTeam(t, "edited") \/ DeleteTeam(t)
  BY <1>5, TeamStep
<1>6. CASE \E h \in Hashes : Revoke(h)
  BY <1>6, RevokeStep
<1>7. CASE RevokeSnapshot
  BY <1>7, RevokeSnapshotStep
<1>8. CASE \E src \in SourceStores : ImportSQLite(src)
  BY <1>8, ImportKeeps DEF KeysInv
<1> QED
  BY <1>1, <1>2, <1>3, <1>4, <1>5, <1>6, <1>7, <1>8, Zenon DEF NextKeys

\* What the invariant says of a store is what the run checks.
LEMMA KeysInvHolds ==
  ASSUME KeysInv
  PROVE  KeysTypeOK /\ RequiredAccounted /\ ServedAsDeclared /\ AdminEditsStand /\ RevokeAuthorised
<1> USE DEF KeysInv, StoreInv
<1>1. KeysTypeOK
  BY DEF KeysTypeOK, Shaped, Registered, SeededOnce
<1>2. RequiredAccounted
  BY BoundPair DEF RequiredAccounted, AllMapped
<1>3. ServedAsDeclared
  <2> SUFFICES ASSUME NEW a \in ks.served, NEW b \in ks.served
               PROVE  a.under = b.under /\ ((a.ident = b.ident \/ a.owner = b.owner) => a = b)
    BY DEF ServedAsDeclared
  <2>1. /\ a.under = ks.mode /\ b.under = ks.mode
        /\ a = [ident |-> a.ident, owner |-> a.owner, under |-> a.under]
        /\ b = [ident |-> b.ident, owner |-> b.owner, under |-> b.under]
        /\ [ident |-> a.ident, account |-> a.owner] \in ks.registry
        /\ [ident |-> b.ident, account |-> b.owner] \in ks.registry
    BY DEF ServedBound
  <2>2. a.ident = b.ident \/ a.owner = b.owner => a.ident = b.ident /\ a.owner = b.owner
    BY <2>1 DEF Registered, OneToOne
  <2> QED
    BY <2>1, <2>2
<1>4. AdminEditsStand
  BY DEF AdminEditsStand, EditsStand
<1>5. RevokeAuthorised
  BY DEF RevokeAuthorised, CallsEntitled
<1> QED
  BY <1>1, <1>2, <1>3, <1>4, <1>5

\* Whatever processes seed, mint, resolve, revoke, declare and import, in any
\* order and with any files: under required identities every live key is
\* booked on the account of its own identity, what is served is of one
\* declaration with one account per identity, no seed undoes an edit, a
\* revocation is of an entitled team, no key changes its identity, and none
\* that is revoked comes back (postgres.go, postgres_seed.go,
\* identity_store.go, import_identity.go).
THEOREM KeysStayWithTheirIdentities == KeysSpec => KeysHold
<1> DEFINE KeysKeep == /\ KeysTypeOK' /\ RequiredAccounted' /\ ServedAsDeclared' /\ AdminEditsStand'
                       /\ RevokeAuthorised' /\ IdentityStays /\ RevokedStaysRevoked
<1>1. InitKeys => KeysInv
  BY KeysInitInv
<1>2. KeysInv /\ [NextKeys]_ks => KeysInv'
  <2>1. CASE NextKeys
    BY <2>1, KeysStep
  <2>2. CASE UNCHANGED ks
    BY <2>2, Zenon DEF KeysInv
  <2> QED
    BY <2>1, <2>2
<1>3. KeysInv /\ KeysInv' /\ [NextKeys]_ks => [KeysKeep]_ks
  <2> SUFFICES ASSUME KeysInv, KeysInv', NextKeys PROVE KeysKeep
    OBVIOUS
  <2>1. KeysTypeOK' /\ RequiredAccounted' /\ ServedAsDeclared' /\ AdminEditsStand' /\ RevokeAuthorised'
    BY KeysInvHolds, PTL
  <2>2. IdentityStays /\ RevokedStaysRevoked
    BY KeysStep DEF RowsKept, IdentityStays, RevokedStaysRevoked
  <2> QED
    BY <2>1, <2>2
<1> QED
  BY <1>1, <1>2, <1>3, PTL DEF KeysSpec, KeysHold

-----------------------------------------------------------------------------
(* Stored bodies *)

BodyFields == {"offered", "ch", "rows", "now", "master", "wraps", "faults", "erased", "runs"}

RowFields == {"there", "key", "wrap", "expires"}
RunFields == {"stage", "listed", "left", "rewrapped", "skipped", "failed"}
IsStored(w) == DOMAIN w = RowFields /\ w.there \in BOOLEAN /\ w.key \in Nat
IsRun(u) == DOMAIN u = RunFields /\ u.failed \in Nat

BodiesShaped ==
  /\ DOMAIN bs = BodyFields /\ DOMAIN bs.rows = Refs /\ DOMAIN bs.runs = Rotations
  /\ \A r \in Refs : IsStored(bs.rows[r])
  /\ \A x \in Rotations : IsRun(bs.runs[x])

Jobs == [ref : Refs, expires : Nat]
Waits(q, r) == \E i \in 1..Len(q) : q[i].ref = r

\* The queue holds accepted bodies in the order they were offered.
InOrder(q, n) ==
  /\ n \in Nat /\ q \in Seq(Jobs)
  /\ \A i, j \in 1..Len(q) : i < j => q[i].ref < q[j].ref
  /\ \A i \in 1..Len(q) : q[i].ref <= n /\ ~BodyTooLarge(q[i].ref)

\* A body that was handed out and is not waiting for the worker: it is never
\* put again.
Seen(r) == r <= bs.offered /\ ~Waits(bs.ch, r)

RowsSeen == \A r \in Refs : bs.rows[r].there \/ r \in bs.erased => Seen(r)

\* No rotation retires this key.
Fresh(k) == \A x \in Rotations : k # RotationOf[x].old

\* A row under a key to be retired is as it was sealed: whoever lists it and
\* finds it under that key again finds the very bytes it listed.
FirstWraps == \A r \in Refs : bs.rows[r].there /\ ~Fresh(bs.rows[r].key) => bs.rows[r].wrap = 1

\* What a run has dealt with is not under its old key, unless it failed there.
RunKeeps(x) ==
  /\ bs.runs[x].stage = "done" => bs.runs[x].failed = 0 /\ bs.runs[x].left = {}
  /\ \A r \in Refs : bs.runs[x].listed[r].there =>
       /\ Seen(r)
       /\ bs.runs[x].listed[r].key = RotationOf[x].old => bs.runs[x].listed[r].wrap = 1
       /\ bs.rows[r].there /\ bs.runs[x].listed[r].key # RotationOf[x].old => bs.rows[r].key # RotationOf[x].old
       /\ bs.rows[r].there /\ r \notin bs.runs[x].left /\ bs.runs[x].failed = 0
            => bs.rows[r].key # RotationOf[x].old

BodiesInv ==
  /\ BodiesShaped /\ BodyTypeOK /\ bs.master \in MasterKeys /\ InOrder(bs.ch, bs.offered)
  /\ RowsSeen /\ bs.erased \subseteq Refs /\ ErasedStaysGone /\ FirstWraps
  /\ \A x \in Rotations : RunKeeps(x)

\* What a step may do to the rows: put one that was waiting, remove some, and
\* move one to a later key that is not to be retired.
RowsMove ==
  \A r \in Refs : bs'.rows[r].there =>
    \/ bs'.rows[r] = bs.rows[r]
    \/ ~Seen(r) /\ bs'.rows[r].wrap = 1
    \/ bs.rows[r].there /\ bs'.rows[r].key >= bs.rows[r].key /\ Fresh(bs'.rows[r].key)

LEMMA BodiesKept ==
  ASSUME BodiesInv, BodiesShaped', BodyTypeOK', bs'.master \in MasterKeys, InOrder(bs'.ch, bs'.offered),
         \A r \in Refs : Seen(r) => Seen(r)',
         \A r \in Refs : bs'.rows[r].there => Seen(r)',
         bs'.erased \subseteq Refs,
         \A r \in bs'.erased : r \in bs.erased \/ (bs.rows[r].there /\ ~bs'.rows[r].there),
         RowsMove,
         \A x \in Rotations : bs'.runs[x] = bs.runs[x] \/ RunKeeps(x)'
  PROVE  BodiesInv' /\ KeysMoveForward
<1>1. RowsSeen'
  BY DEF BodiesInv, RowsSeen
<1>2. ErasedStaysGone'
  BY DEF BodiesInv, RowsMove, RowsSeen, ErasedStaysGone
<1>3. FirstWraps'
  BY DEF BodiesInv, RowsMove, FirstWraps, Fresh
<1>4. \A x \in Rotations : RunKeeps(x)'
  <2> SUFFICES ASSUME NEW x \in Rotations, bs'.runs[x] = bs.runs[x]
               PROVE  RunKeeps(x)'
    OBVIOUS
  <2>1. RunKeeps(x)
    BY DEF BodiesInv
  <2>2. ASSUME NEW r \in Refs, bs.runs[x].listed[r].there, bs'.rows[r].there
        PROVE  \/ bs'.rows[r].key = bs.rows[r].key /\ bs.rows[r].there
               \/ bs'.rows[r].key # RotationOf[x].old
    <3>1. Seen(r)
      BY <2>1, <2>2 DEF RunKeeps
    <3> QED
      BY <2>2, <3>1 DEF RowsMove, Fresh
  <2> QED
    BY <2>1, <2>2 DEF RunKeeps
<1>5. KeysMoveForward
  <2> SUFFICES ASSUME NEW r \in Refs, bs.rows[r].there, bs'.rows[r].there
               PROVE  bs'.rows[r].key >= bs.rows[r].key
    BY DEF KeysMoveForward
  <2>1. Seen(r) /\ bs.rows[r].key \in Nat
    BY DEF BodiesInv, RowsSeen, BodiesShaped, IsStored
  <2> QED
    BY <2>1 DEF RowsMove
<1> QED
  BY <1>1, <1>2, <1>3, <1>4, <1>5 DEF BodiesInv

LEMMA BodiesInit == InitBodies => BodiesInv
<1> SUFFICES ASSUME InitBodies PROVE BodiesInv
  OBVIOUS
<1> DEFINE run == [stage |-> "idle", listed |-> [r \in Refs |-> NoRow], left |-> {},
                   rewrapped |-> 0, skipped |-> 0, failed |-> 0]
<1>1. /\ DOMAIN bs = BodyFields /\ bs.offered = 0 /\ bs.ch = <<>> /\ bs.now = 0 /\ bs.master = 1
      /\ bs.erased = {} /\ bs.rows = [r \in Refs |-> NoRow] /\ bs.runs = [x \in Rotations |-> run]
  BY DEF InitBodies, BodyFields
<1>2. IsStored(NoRow) /\ NoRow.there = FALSE
  BY DEF IsStored, NoRow, RowFields
<1>3. IsRun(run) /\ run.listed = [r \in Refs |-> NoRow] /\ run.stage = "idle"
  BY DEF IsRun, RunFields
<1> HIDE DEF run
<1>4. BodiesShaped
  BY <1>1, <1>2, <1>3 DEF BodiesShaped
<1>5. bs.now \in 0..LastTick /\ bs.master \in MasterKeys /\ InOrder(bs.ch, bs.offered)
      /\ Len(bs.ch) <= BodyQueueCap
  BY <1>1, BodyAssumption DEF InOrder
<1>6. \A r \in Refs : ~bs.rows[r].there
  BY <1>1, <1>2
<1>7. \A x \in Rotations : RunKeeps(x)
  BY <1>1, <1>2, <1>3 DEF RunKeeps
<1> QED
  BY <1>1, <1>4, <1>5, <1>6, <1>7 DEF BodiesInv, BodyTypeOK, RowsSeen, ErasedStaysGone, FirstWraps

\* The queue, what was offered, the rows and the runs are left alone.
SameQueue == bs'.ch = bs.ch /\ bs'.offered = bs.offered

LEMMA SameQueueKeeps ==
  ASSUME BodiesInv, SameQueue
  PROVE  InOrder(bs'.ch, bs'.offered) /\ Len(bs'.ch) <= BodyQueueCap /\ \A r \in Refs : Seen(r)' <=> Seen(r)
  BY DEF BodiesInv, SameQueue, Seen, BodyTypeOK

LEMMA RefsAreNumbers == \A job \in Jobs : job.ref \in Refs /\ job.ref \in Nat
  BY BodyAssumption DEF Jobs

LEMMA AppendInOrder ==
  ASSUME NEW q, NEW n, InOrder(q, n), NEW job \in Jobs, job.ref = n + 1, ~BodyTooLarge(job.ref)
  PROVE  /\ InOrder(Append(q, job), n + 1) /\ Len(Append(q, job)) = Len(q) + 1
         /\ \A r : Waits(Append(q, job), r) => Waits(q, r) \/ r = job.ref
<1> DEFINE a == Append(q, job)
<1>1. q \in Seq(Jobs) /\ n \in Nat /\ Len(q) \in Nat
  BY DEF InOrder
<1>2. /\ a \in Seq(Jobs) /\ Len(a) = Len(q) + 1 /\ a[Len(q) + 1] = job
      /\ \A i \in 1..Len(q) : a[i] = q[i]
  BY <1>1
<1> HIDE DEF a
<1>3. \A i \in 1..Len(q) : q[i].ref \in Nat /\ q[i].ref <= n /\ ~BodyTooLarge(q[i].ref)
  <2>1. \A i \in 1..Len(q) : q[i] \in Jobs
    BY <1>1
  <2> QED
    BY <2>1, RefsAreNumbers DEF InOrder
<1>4. \A i \in 1..Len(a) : i \in 1..Len(q) \/ i = Len(q) + 1
  BY <1>1, <1>2
<1>5. \A i \in 1..Len(a) : a[i].ref <= n + 1 /\ ~BodyTooLarge(a[i].ref)
  BY <1>1, <1>2, <1>3, <1>4
<1>6. ASSUME NEW i \in 1..Len(a), NEW j \in 1..Len(a), i < j
      PROVE  a[i].ref < a[j].ref
  <2>1. i \in 1..Len(q)
    BY <1>1, <1>2, <1>6
  <2>2. CASE j \in 1..Len(q)
    BY <1>2, <1>6, <2>1, <2>2 DEF InOrder
  <2>3. CASE j = Len(q) + 1
    BY <1>1, <1>2, <1>3, <2>1, <2>3
  <2> QED
    BY <1>4, <2>2, <2>3
<1>7. \A r : Waits(a, r) => Waits(q, r) \/ r = job.ref
  BY <1>2, <1>4 DEF Waits
<1>8. InOrder(a, n + 1)
  BY <1>1, <1>2, <1>5, <1>6 DEF InOrder
<1> QED
  BY <1>2, <1>7, <1>8 DEF a

LEMMA TailInOrder ==
  ASSUME NEW q, NEW n, InOrder(q, n), q # <<>>
  PROVE  /\ InOrder(Tail(q), n) /\ Len(Tail(q)) < Len(q)
         /\ \A r : Waits(Tail(q), r) => Waits(q, r)
         /\ Head(q).ref \in Refs /\ Head(q).ref <= n /\ ~BodyTooLarge(Head(q).ref)
         /\ Waits(q, Head(q).ref) /\ ~Waits(Tail(q), Head(q).ref)
<1> DEFINE t == Tail(q)
<1>1. q \in Seq(Jobs) /\ n \in Nat /\ Len(q) \in Nat /\ Len(q) > 0 /\ Head(q) = q[1]
  BY DEF InOrder
<1>2. t \in Seq(Jobs) /\ Len(t) = Len(q) - 1 /\ \A i \in 1..Len(t) : t[i] = q[i + 1]
  BY <1>1
<1> HIDE DEF t
<1>3. \A i \in 1..Len(t) : i + 1 \in 1..Len(q) /\ 1 < i + 1
  BY <1>1, <1>2
<1>4. 1 \in 1..Len(q)
  BY <1>1
<1>5. \A i \in 1..Len(q) : q[i].ref \in Refs /\ q[i].ref \in Nat
  <2>1. \A i \in 1..Len(q) : q[i] \in Jobs
    BY <1>1
  <2> QED
    BY <2>1, RefsAreNumbers
<1>6. ASSUME NEW i \in 1..Len(t), NEW j \in 1..Len(t), i < j
      PROVE  t[i].ref < t[j].ref
  <2>1. i + 1 \in 1..Len(q) /\ j + 1 \in 1..Len(q) /\ i + 1 < j + 1
    BY <1>3, <1>6
  <2>2. q[i + 1].ref < q[j + 1].ref
    BY <2>1 DEF InOrder
  <2> QED
    BY <1>2, <2>2
<1>7. InOrder(t, n)
  BY <1>1, <1>2, <1>3, <1>6 DEF InOrder
<1>8. ~Waits(t, q[1].ref)
  <2> SUFFICES ASSUME NEW i \in 1..Len(t), t[i].ref = q[1].ref PROVE FALSE
    BY DEF Waits
  <2>1. q[1].ref < q[i + 1].ref
    BY <1>3, <1>4 DEF InOrder
  <2> QED
    BY <1>2, <1>4, <1>5, <2>1
<1>9. \A r : Waits(t, r) => Waits(q, r)
  BY <1>2, <1>3 DEF Waits
<1>10. q[1].ref \in Refs /\ q[1].ref <= n /\ ~BodyTooLarge(q[1].ref) /\ Waits(q, q[1].ref)
  BY <1>4, <1>5 DEF InOrder, Waits
<1> QED
  BY <1>1, <1>2, <1>7, <1>8, <1>9, <1>10 DEF t

LEMMA CaptureStep ==
  ASSUME BodiesInv, NEW r \in Refs, Capture(r) \/ CaptureDropped(r)
  PROVE  BodiesInv' /\ KeysMoveForward
<1> DEFINE job == [ref |-> r, expires |-> bs.now + Ttl]
<1>1. /\ bs.offered = r - 1 /\ r \in Nat /\ bs.now \in Nat /\ Ttl \in Nat /\ bs.offered \in Nat
      /\ Len(bs.ch) \in Nat /\ BodyQueueCap \in Nat /\ Len(bs.ch) <= BodyQueueCap
  BY BodyAssumption DEF Capture, CaptureDropped, Captured, BodiesInv, BodyTypeOK, InOrder
<1>2. /\ BodiesShaped' /\ bs'.rows = bs.rows /\ bs'.runs = bs.runs /\ bs'.erased = bs.erased
      /\ bs'.master = bs.master /\ bs'.now = bs.now /\ bs'.offered = r
      /\ \/ bs'.ch = bs.ch
         \/ bs'.ch = Append(bs.ch, job) /\ ~BodyTooLarge(r) /\ Len(bs.ch) < BodyQueueCap
  BY DEF Capture, CaptureDropped, BodiesInv, BodiesShaped, BodyFields
<1>3. job \in Jobs /\ job.ref = r
  BY <1>1 DEF Jobs
<1> HIDE DEF job
<1>4. /\ InOrder(bs'.ch, bs'.offered) /\ Len(bs'.ch) <= BodyQueueCap
      /\ \A q : Waits(bs'.ch, q) => Waits(bs.ch, q) \/ q = r
  <2>1. InOrder(bs.ch, bs.offered)
    BY DEF BodiesInv
  <2>2. CASE bs'.ch = bs.ch
    <3>1. \A i \in 1..Len(bs.ch) : bs.ch[i].ref \in Nat
      <4>1. \A i \in 1..Len(bs.ch) : bs.ch[i] \in Jobs
        BY <2>1 DEF InOrder
      <4> QED
        BY <4>1, RefsAreNumbers
    <3>2. \A i \in 1..Len(bs.ch) : bs.ch[i].ref <= r
      BY <1>1, <2>1, <3>1 DEF InOrder
    <3> QED
      BY <1>1, <1>2, <2>1, <2>2, <3>2 DEF InOrder
  <2>3. CASE bs'.ch = Append(bs.ch, job) /\ ~BodyTooLarge(r) /\ Len(bs.ch) < BodyQueueCap
    <3>1. job.ref = bs.offered + 1 /\ bs.offered + 1 = r
      BY <1>1, <1>3
    <3> QED
      BY <1>1, <1>2, <1>3, <2>1, <2>3, <3>1, AppendInOrder
  <2> QED
    BY <1>2, <2>2, <2>3
<1>5. \A q \in Refs : Seen(q) => Seen(q)'
  <2> SUFFICES ASSUME NEW q \in Refs, Seen(q) PROVE Seen(q)'
    OBVIOUS
  <2>1. q \in Nat /\ q <= r - 1 /\ ~Waits(bs.ch, q)
    BY <1>1, BodyAssumption DEF Seen
  <2> QED
    BY <1>1, <1>2, <1>4, <2>1 DEF Seen
<1>6. BodyTypeOK' /\ RowsMove
  BY <1>2, <1>4 DEF BodiesInv, BodyTypeOK, RowsMove
<1>7. \A q \in Refs : bs'.rows[q].there => Seen(q)'
  BY <1>2, <1>5 DEF BodiesInv, RowsSeen
<1> QED
  BY <1>2, <1>4, <1>5, <1>6, <1>7, BodiesKept DEF BodiesInv

LEMMA WorkerStep ==
  ASSUME BodiesInv, PutBody \/ PutFails
  PROVE  BodiesInv' /\ KeysMoveForward
<1> DEFINE job == Head(bs.ch)
           sealed == [there |-> TRUE, key |-> bs.master, wrap |-> 1, expires |-> job.expires]
<1>0. PICK r : r = job.ref
  OBVIOUS
<1>1. bs.ch # <<>>
  BY DEF PutBody, PutFails
<1>2. /\ BodiesShaped' /\ bs'.runs = bs.runs /\ bs'.erased = bs.erased
      /\ bs'.master = bs.master /\ bs'.now = bs.now /\ bs'.offered = bs.offered /\ bs'.ch = Tail(bs.ch)
      /\ \A q \in Refs : \/ bs'.rows[q] = bs.rows[q]
                         \/ q = r /\ bs'.rows[q] = sealed
  <2>1. IsStored(sealed)
    BY BodyAssumption DEF IsStored, RowFields, BodiesInv
  <2>2. CASE PutBody
    <3> DEFINE row == IF bs.rows[r].there THEN bs.rows[r] ELSE sealed
    <3>1. bs' = [bs EXCEPT !.ch = Tail(@), !.rows[r] = row]
      BY <1>0, <2>2 DEF PutBody, SealEnvelope
    <3>2. \A q \in Refs : q = r => IsStored(row) /\ row \in {bs.rows[q], sealed}
      BY <2>1 DEF BodiesInv, BodiesShaped
    <3> HIDE DEF row, sealed
    <3>3. /\ DOMAIN bs' = BodyFields /\ bs'.runs = bs.runs /\ bs'.erased = bs.erased
          /\ bs'.master = bs.master /\ bs'.now = bs.now /\ bs'.offered = bs.offered /\ bs'.ch = Tail(bs.ch)
          /\ bs'.rows = [bs.rows EXCEPT ![r] = row]
      BY <3>1 DEF BodiesInv, BodiesShaped, BodyFields
    <3> QED
      BY <3>2, <3>3 DEF BodiesInv, BodiesShaped
  <2>3. CASE PutFails
    BY <2>3 DEF PutFails, BodiesInv, BodiesShaped, BodyFields
  <2> QED
    BY <2>2, <2>3
<1>3. /\ InOrder(bs'.ch, bs'.offered) /\ Len(bs'.ch) <= BodyQueueCap
      /\ r \in Refs /\ ~Seen(r) /\ Seen(r)' /\ ~BodyTooLarge(r)
      /\ \A q \in Refs : Seen(q) => Seen(q)'
  <2>1. InOrder(bs.ch, bs.offered) /\ Len(bs.ch) \in Nat /\ Len(bs.ch) <= BodyQueueCap /\ BodyQueueCap \in Nat
    BY BodyAssumption DEF BodiesInv, InOrder, BodyTypeOK
  <2>2. /\ InOrder(bs'.ch, bs.offered) /\ Len(bs'.ch) < Len(bs.ch)
        /\ \A q : Waits(bs'.ch, q) => Waits(bs.ch, q)
        /\ r \in Refs /\ r <= bs.offered /\ ~BodyTooLarge(r) /\ Waits(bs.ch, r) /\ ~Waits(bs'.ch, r)
    <3> DEFINE tail == Tail(bs.ch)
    <3>1. /\ InOrder(tail, bs.offered) /\ Len(tail) < Len(bs.ch)
          /\ \A q : Waits(tail, q) => Waits(bs.ch, q)
          /\ job.ref \in Refs /\ job.ref <= bs.offered /\ ~BodyTooLarge(job.ref)
          /\ Waits(bs.ch, job.ref) /\ ~Waits(tail, job.ref)
      BY <1>1, <2>1, TailInOrder
    <3>2. bs'.ch = tail
      BY <1>2
    <3> HIDE DEF job, tail
    <3> QED
      BY <1>0, <3>1, <3>2
  <2>3. Len(bs'.ch) <= BodyQueueCap
    BY <2>1, <2>2 DEF InOrder
  <2> QED
    BY <1>2, <2>2, <2>3 DEF Seen
<1>4. sealed.there /\ sealed.key \in MasterKeys /\ sealed.wrap = 1
  BY DEF BodiesInv
<1> HIDE DEF sealed
<1>5. SizeOfBody[r] <= MaxBodyBytes
  BY <1>3, BodyAssumption DEF BodyTooLarge
<1>6. BodyTypeOK'
  BY <1>2, <1>3, <1>4, <1>5 DEF BodiesInv, BodyTypeOK
<1>7. RowsMove
  BY <1>2, <1>3, <1>4 DEF RowsMove
<1>8. \A q \in Refs : bs'.rows[q].there => Seen(q)'
  BY <1>2, <1>3 DEF BodiesInv, RowsSeen
<1> QED
  BY <1>2, <1>3, <1>6, <1>7, <1>8, BodiesKept DEF BodiesInv

\* Rows leave the store: by erasure, which is remembered, or by the purge.
LEMMA RemovalStep ==
  ASSUME BodiesInv, Purge \/ \E r \in Refs : Erase(r)
  PROVE  BodiesInv' /\ KeysMoveForward
<1>1. IsStored(NoRow) /\ NoRow.there = FALSE
  BY DEF IsStored, NoRow, RowFields
<1>2. /\ BodiesShaped' /\ bs'.runs = bs.runs /\ bs'.master = bs.master /\ bs'.now = bs.now /\ SameQueue
      /\ bs'.erased \subseteq Refs
      /\ \A r \in bs'.erased : r \in bs.erased \/ (bs.rows[r].there /\ ~bs'.rows[r].there)
      /\ \A r \in Refs : bs'.rows[r] = bs.rows[r] \/ bs'.rows[r] = NoRow
  <2>1. CASE Purge
    <3> DEFINE rows == [r \in Refs |-> IF r \in KeptByPurge THEN bs.rows[r] ELSE NoRow]
    <3>1. bs' = [bs EXCEPT !.rows = rows]
      BY <2>1 DEF Purge
    <3>2. DOMAIN rows = Refs /\ \A r \in Refs : rows[r] = bs.rows[r] \/ rows[r] = NoRow
      OBVIOUS
    <3> HIDE DEF rows
    <3>3. /\ DOMAIN bs' = BodyFields /\ bs'.runs = bs.runs /\ bs'.erased = bs.erased
          /\ bs'.master = bs.master /\ bs'.now = bs.now /\ SameQueue /\ bs'.rows = rows
      BY <3>1 DEF BodiesInv, BodiesShaped, BodyFields, SameQueue
    <3> QED
      BY <1>1, <3>2, <3>3 DEF BodiesInv, BodiesShaped
  <2>2. CASE \E r \in Refs : Erase(r)
    <3>1. PICK r \in Refs : Erase(r)
      BY <2>2
    <3>2. /\ DOMAIN bs' = BodyFields /\ bs'.runs = bs.runs /\ bs'.erased = bs.erased \cup {r}
          /\ bs'.master = bs.master /\ bs'.now = bs.now /\ SameQueue
          /\ bs'.rows = [bs.rows EXCEPT ![r] = NoRow] /\ bs.rows[r].there
      BY <3>1 DEF Erase, BodiesInv, BodiesShaped, BodyFields, SameQueue
    <3> QED
      BY <1>1, <3>2 DEF BodiesInv, BodiesShaped
  <2> QED
    BY <2>1, <2>2
<1>3. /\ InOrder(bs'.ch, bs'.offered) /\ Len(bs'.ch) <= BodyQueueCap /\ \A r \in Refs : Seen(r)' <=> Seen(r)
  BY <1>2, SameQueueKeeps
<1>4. BodyTypeOK' /\ RowsMove
  BY <1>1, <1>2, <1>3 DEF BodiesInv, BodyTypeOK, RowsMove
<1>5. \A r \in Refs : bs'.rows[r].there => Seen(r)'
  BY <1>1, <1>2, <1>3 DEF BodiesInv, RowsSeen
<1> QED
  BY <1>2, <1>3, <1>4, <1>5, BodiesKept DEF BodiesInv

LEMMA TickStep ==
  ASSUME BodiesInv, Clock \/ \E k \in MasterKeys : DeployKey(k)
  PROVE  BodiesInv' /\ KeysMoveForward
<1>1. bs.now \in 0..LastTick /\ LastTick \in Nat
  BY BodyAssumption DEF BodiesInv, BodyTypeOK
<1>2. /\ BodiesShaped' /\ bs'.runs = bs.runs /\ bs'.rows = bs.rows /\ bs'.erased = bs.erased /\ SameQueue
      /\ bs'.master \in MasterKeys /\ bs'.now \in 0..LastTick
  BY <1>1 DEF Clock, DeployKey, BodiesInv, BodiesShaped, BodyFields, SameQueue
<1>3. /\ InOrder(bs'.ch, bs'.offered) /\ Len(bs'.ch) <= BodyQueueCap /\ \A r \in Refs : Seen(r)' <=> Seen(r)
  BY <1>2, SameQueueKeeps
<1>4. BodyTypeOK' /\ RowsMove
  BY <1>2, <1>3 DEF BodiesInv, BodyTypeOK, RowsMove
<1>5. \A r \in Refs : bs'.rows[r].there => Seen(r)'
  BY <1>2, <1>3 DEF BodiesInv, RowsSeen
<1> QED
  BY <1>2, <1>3, <1>4, <1>5, BodiesKept DEF BodiesInv

-----------------------------------------------------------------------------
(* The rotation command *)

\* A step of run x that leaves the rows alone.
LEMMA RunStep ==
  ASSUME BodiesInv, NEW x \in Rotations, NEW run, IsRun(run),
         DOMAIN bs' = BodyFields, SameQueue, bs'.rows = bs.rows, bs'.erased = bs.erased,
         bs'.master = bs.master, bs'.now = bs.now,
         bs'.runs = [bs.runs EXCEPT ![x] = run],
         RunKeeps(x)'
  PROVE  BodiesInv' /\ KeysMoveForward
<1>1. BodiesShaped' /\ \A y \in Rotations : bs'.runs[y] = bs.runs[y] \/ RunKeeps(y)'
  BY DEF BodiesInv, BodiesShaped
<1>2. /\ InOrder(bs'.ch, bs'.offered) /\ Len(bs'.ch) <= BodyQueueCap /\ \A r \in Refs : Seen(r)' <=> Seen(r)
  BY SameQueueKeeps
<1>3. BodyTypeOK' /\ RowsMove
  BY <1>2 DEF BodiesInv, BodyTypeOK, RowsMove
<1>4. \A r \in Refs : bs'.rows[r].there => Seen(r)'
  BY <1>2 DEF BodiesInv, RowsSeen
<1> QED
  BY <1>1, <1>2, <1>3, <1>4, BodiesKept DEF BodiesInv

LEMMA ListStep ==
  ASSUME BodiesInv, NEW x \in Rotations, ListWrappedKeys(x)
  PROVE  BodiesInv' /\ KeysMoveForward
<1> DEFINE old == bs.runs[x]
           run == [old EXCEPT !.stage = "rewrapping", !.listed = bs.rows, !.left = Rows]
<1>1. /\ DOMAIN bs' = BodyFields /\ SameQueue /\ bs'.rows = bs.rows /\ bs'.erased = bs.erased
      /\ bs'.master = bs.master /\ bs'.now = bs.now /\ bs'.runs = [bs.runs EXCEPT ![x] = run]
  BY DEF ListWrappedKeys, RunOf, BodiesInv, BodiesShaped, BodyFields, SameQueue
<1>2. IsRun(old)
  BY DEF BodiesInv, BodiesShaped
<1> HIDE DEF old
<1>3. IsRun(run) /\ run.stage = "rewrapping" /\ run.listed = bs.rows /\ run.left = Rows
  BY <1>2 DEF IsRun, RunFields
<1> HIDE DEF run
<1>4. bs'.runs[x] = run
  BY <1>1 DEF BodiesInv, BodiesShaped
<1>5. RunKeeps(x)'
  <2>1. \A r \in Refs : Seen(r)' <=> Seen(r)
    BY <1>1, SameQueueKeeps
  <2>2. \A r \in Refs : bs.rows[r].there => Seen(r) /\ r \in Rows
    BY DEF BodiesInv, RowsSeen, Rows
  <2>3. \A r \in Refs : bs.rows[r].there /\ bs.rows[r].key = RotationOf[x].old => bs.rows[r].wrap = 1
    BY DEF BodiesInv, FirstWraps, Fresh
  <2> QED
    BY <1>1, <1>3, <1>4, <2>1, <2>2, <2>3 DEF RunKeeps
<1> QED
  BY <1>1, <1>3, <1>5, RunStep

\* A row is passed over: it was under another key when it was listed, or the
\* store failed, which the exit code tells.
LEMMA PassStep ==
  ASSUME BodiesInv, NEW x \in Rotations, NEW r \in Refs, Skip(x, r) \/ UpdateFails(x, r)
  PROVE  BodiesInv' /\ KeysMoveForward
<1> DEFINE old == bs.runs[x]
<1>1. IsRun(old)
  BY DEF BodiesInv, BodiesShaped
<1>2. PICK run : /\ bs'.runs = [bs.runs EXCEPT ![x] = run] /\ DOMAIN bs' = BodyFields /\ SameQueue
                 /\ bs'.rows = bs.rows /\ bs'.erased = bs.erased
                 /\ bs'.master = bs.master /\ bs'.now = bs.now
                 /\ IsRun(run) /\ run.stage = old.stage /\ run.listed = old.listed /\ run.left = old.left \ {r}
                 /\ \/ run.failed = old.failed /\ old.listed[r].key # RotationOf[x].old
                    \/ run.failed = old.failed + 1
  <2>1. CASE Skip(x, r)
    <3> DEFINE run == [old EXCEPT !.left = @ \ {r}, !.skipped = @ + 1]
    <3>1. /\ bs'.runs = [bs.runs EXCEPT ![x] = run] /\ DOMAIN bs' = BodyFields /\ SameQueue
          /\ bs'.rows = bs.rows /\ bs'.erased = bs.erased /\ bs'.master = bs.master /\ bs'.now = bs.now
          /\ old.listed[r].key # RotationOf[x].old
      BY <2>1 DEF Skip, Unwraps, RunOf, BodiesInv, BodiesShaped, BodyFields, SameQueue
    <3> HIDE DEF old
    <3>2. /\ IsRun(run) /\ run.stage = old.stage /\ run.listed = old.listed /\ run.left = old.left \ {r}
          /\ run.failed = old.failed
      BY <1>1 DEF IsRun, RunFields
    <3> HIDE DEF run
    <3> QED
      BY <3>1, <3>2
  <2>2. CASE UpdateFails(x, r)
    <3> DEFINE run == [old EXCEPT !.left = @ \ {r}, !.failed = @ + 1]
    <3>1. /\ bs'.runs = [bs.runs EXCEPT ![x] = run] /\ DOMAIN bs' = BodyFields /\ SameQueue
          /\ bs'.rows = bs.rows /\ bs'.erased = bs.erased /\ bs'.master = bs.master /\ bs'.now = bs.now
      BY <2>2 DEF UpdateFails, RunOf, BodiesInv, BodiesShaped, BodyFields, SameQueue
    <3> HIDE DEF old
    <3>2. /\ IsRun(run) /\ run.stage = old.stage /\ run.listed = old.listed /\ run.left = old.left \ {r}
          /\ run.failed = old.failed + 1
      BY <1>1 DEF IsRun, RunFields
    <3> HIDE DEF run
    <3> QED
      BY <3>1, <3>2
  <2> QED
    BY <2>1, <2>2
<1>3. bs'.runs[x] = run /\ old.stage = "rewrapping" /\ old.failed \in Nat
  BY <1>1, <1>2 DEF BodiesInv, BodiesShaped, Skip, UpdateFails, RunOf, IsRun
<1>4. RunKeeps(x)'
  <2>1. \A q \in Refs : Seen(q)' <=> Seen(q)
    BY <1>2, SameQueueKeeps
  <2>2. RunKeeps(x)
    BY DEF BodiesInv
  <2>3. run.failed = 0 => old.failed = 0 /\ old.listed[r].key # RotationOf[x].old
    BY <1>2, <1>3
  <2> QED
    BY <1>2, <1>3, <2>1, <2>2, <2>3 DEF RunKeeps
<1> QED
  BY <1>2, <1>4, RunStep

LEMMA EndStep ==
  ASSUME BodiesInv, NEW x \in Rotations, EndRewrap(x)
  PROVE  BodiesInv' /\ KeysMoveForward
<1> DEFINE old == bs.runs[x]
           stage == IF ExitCode(x) = 0 THEN "done" ELSE "failed"
           run == [old EXCEPT !.stage = stage]
<1>1. /\ DOMAIN bs' = BodyFields /\ SameQueue /\ bs'.rows = bs.rows /\ bs'.erased = bs.erased
      /\ bs'.master = bs.master /\ bs'.now = bs.now /\ bs'.runs = [bs.runs EXCEPT ![x] = run]
      /\ old.left = {}
  BY DEF EndRewrap, RunOf, BodiesInv, BodiesShaped, BodyFields, SameQueue
<1>2. IsRun(old)
  BY DEF BodiesInv, BodiesShaped
<1>3. stage = "done" => old.failed = 0
  BY <1>2 DEF ExitCode, RunOf, IsRun
<1> HIDE DEF old, stage
<1>4. /\ IsRun(run) /\ run.stage = stage /\ run.listed = old.listed /\ run.left = old.left
      /\ run.failed = old.failed
  BY <1>2 DEF IsRun, RunFields
<1> HIDE DEF run
<1>5. bs'.runs[x] = run
  BY <1>1 DEF BodiesInv, BodiesShaped
<1>6. RunKeeps(x)'
  <2>1. \A q \in Refs : Seen(q)' <=> Seen(q)
    BY <1>1, SameQueueKeeps
  <2>2. RunKeeps(x)
    BY DEF BodiesInv
  <2> QED
    BY <1>1, <1>3, <1>4, <1>5, <2>1, <2>2 DEF RunKeeps, old
<1> QED
  BY <1>1, <1>4, <1>6, RunStep

\* The compare-and-swap: a row that is not as it was listed was moved or
\* removed by someone else, and in either case is not under the old key.
LEMMA UpdateStep ==
  ASSUME BodiesInv, NEW x \in Rotations, NEW r \in Refs, UpdateWrappedKey(x, r)
  PROVE  BodiesInv' /\ KeysMoveForward
<1> DEFINE old == bs.runs[x]
           was == bs.rows[r]
<1>1. IsRun(old) /\ IsStored(was) /\ RunKeeps(x)
  BY DEF BodiesInv, BodiesShaped
<1>2. old.stage = "rewrapping" /\ old.listed[r].key = RotationOf[x].old
  BY DEF UpdateWrappedKey, Unwraps, RunOf
<1>3. CASE ~Matches(x, r)
  <2> DEFINE run == [old EXCEPT !.left = @ \ {r}]
  <2>1. /\ DOMAIN bs' = BodyFields /\ SameQueue /\ bs'.rows = bs.rows /\ bs'.erased = bs.erased
        /\ bs'.master = bs.master /\ bs'.now = bs.now /\ bs'.runs = [bs.runs EXCEPT ![x] = run]
    BY <1>3 DEF UpdateWrappedKey, RunOf, BodiesInv, BodiesShaped, BodyFields, SameQueue
  <2>2. old.listed[r].there /\ was.there => was.key # RotationOf[x].old
    <3> SUFFICES ASSUME old.listed[r].there, was.there, was.key = RotationOf[x].old PROVE FALSE
      OBVIOUS
    <3>1. was.wrap = 1
      BY DEF BodiesInv, FirstWraps, Fresh
    <3>2. old.listed[r].wrap = 1
      BY <1>1, <1>2 DEF RunKeeps
    <3> QED
      BY <1>2, <1>3, <3>1, <3>2 DEF Matches, SameWrap, RunOf
  <2> HIDE DEF old
  <2>3. /\ IsRun(run) /\ run.stage = old.stage /\ run.listed = old.listed /\ run.left = old.left \ {r}
        /\ run.failed = old.failed
    BY <1>1 DEF IsRun, RunFields
  <2> HIDE DEF run
  <2>4. bs'.runs[x] = run
    BY <2>1 DEF BodiesInv, BodiesShaped
  <2>5. RunKeeps(x)'
    <3>1. \A q \in Refs : Seen(q)' <=> Seen(q)
      BY <2>1, SameQueueKeeps
    <3> QED
      BY <1>1, <1>2, <2>1, <2>2, <2>3, <2>4, <3>1 DEF RunKeeps, old
  <2> QED
    BY <2>1, <2>3, <2>5, RunStep
<1>4. CASE Matches(x, r)
  <2> DEFINE run == [old EXCEPT !.left = @ \ {r}, !.rewrapped = @ + 1]
             row == [was EXCEPT !.there = TRUE, !.key = RotationOf[x].new, !.wrap = bs.wraps + 2]
  <2>1. /\ DOMAIN bs' = BodyFields /\ SameQueue /\ bs'.rows = [bs.rows EXCEPT ![r] = row]
        /\ bs'.erased = bs.erased /\ bs'.master = bs.master /\ bs'.now = bs.now
        /\ bs'.runs = [bs.runs EXCEPT ![x] = run]
    BY <1>4 DEF UpdateWrappedKey, RunOf, BodiesInv, BodiesShaped, BodyFields, SameQueue
  <2>2. was.there /\ was.key = RotationOf[x].old
    BY <1>2, <1>4 DEF Matches, SameWrap, RunOf
  <2>3. /\ RotationOf[x].new \in MasterKeys /\ RotationOf[x].new \in Nat /\ Fresh(RotationOf[x].new)
        /\ RotationOf[x].old < RotationOf[x].new /\ RotationOf[x].old \in Nat
    BY BodyAssumption, RotationAssumption DEF Fresh
  <2> HIDE DEF old, was
  <2>4. /\ IsRun(run) /\ run.stage = old.stage /\ run.listed = old.listed /\ run.left = old.left \ {r}
        /\ run.failed = old.failed
    BY <1>1 DEF IsRun, RunFields
  <2>5. IsStored(row) /\ row.there = TRUE /\ row.key = RotationOf[x].new
    BY <1>1, <2>3 DEF IsStored, RowFields
  <2> HIDE DEF run, row
  <2>6. /\ bs'.runs[x] = run /\ \A y \in Rotations : y # x => bs'.runs[y] = bs.runs[y]
        /\ bs'.rows[r] = row /\ \A q \in Refs : q # r => bs'.rows[q] = bs.rows[q]
    BY <2>1 DEF BodiesInv, BodiesShaped
  <2>7. BodiesShaped'
    BY <2>1, <2>4, <2>5, <2>6 DEF BodiesInv, BodiesShaped
  <2>8. /\ InOrder(bs'.ch, bs'.offered) /\ Len(bs'.ch) <= BodyQueueCap /\ \A q \in Refs : Seen(q)' <=> Seen(q)
    BY <2>1, SameQueueKeeps
  <2>9. BodyTypeOK'
    BY <2>1, <2>2, <2>3, <2>5, <2>6, <2>8 DEF BodiesInv, BodyTypeOK, was
  <2>10. RowsMove
    BY <2>2, <2>3, <2>5, <2>6 DEF RowsMove, was
  <2>11. \A q \in Refs : bs'.rows[q].there => Seen(q)'
    BY <2>2, <2>6, <2>8 DEF BodiesInv, RowsSeen, was
  <2>12. RunKeeps(x)'
    <3>1. row.key # RotationOf[x].old
      BY <2>3, <2>5
    <3> QED
      BY <1>1, <1>2, <2>4, <2>6, <2>8, <3>1 DEF RunKeeps, old
  <2>13. \A q \in bs'.erased : q \in bs.erased
    BY <2>1
  <2> QED
    BY <2>1, <2>6, <2>7, <2>8, <2>9, <2>10, <2>11, <2>12, <2>13, BodiesKept DEF BodiesInv
<1> QED
  BY <1>3, <1>4

LEMMA BodiesStep ==
  ASSUME BodiesInv, NextBodies
  PROVE  BodiesInv' /\ KeysMoveForward
<1>1. CASE PutBody \/ PutFails
  BY <1>1, WorkerStep
<1>2. CASE Purge \/ \E r \in Refs : Erase(r)
  BY <1>2, RemovalStep
<1>3. CASE Clock \/ \E k \in MasterKeys : DeployKey(k)
  BY <1>3, TickStep
<1>4. CASE \E r \in Refs : Capture(r) \/ CaptureDropped(r)
  BY <1>4, CaptureStep
<1>5. CASE \E r \in Refs, x \in Rotations : Skip(x, r) \/ UpdateWrappedKey(x, r) \/ UpdateFails(x, r)
  BY <1>5, PassStep, UpdateStep
<1>6. CASE \E x \in Rotations : ListWrappedKeys(x) \/ EndRewrap(x)
  BY <1>6, ListStep, EndStep
<1> QED
  BY <1>1, <1>2, <1>3, <1>4, <1>5, <1>6, Zenon DEF NextBodies

\* However many rotations run while gateways capture, erase and purge: the key
\* a row is wrapped under only moves forward, an erased body stays gone, and a
\* run that exits with success leaves no row it found under the key that is
\* about to be retired (bodies.go, recorder.go, the compare-and-swap of
\* UpdateWrappedKey).
THEOREM BodiesStaySafe == BodiesSpec => BodiesHold
<1> DEFINE BodiesKeep == BodyTypeOK' /\ KeysMoveForward /\ ErasedStaysGone' /\ RetireIsSafe'
<1>1. InitBodies => BodiesInv
  BY BodiesInit
<1>2. BodiesInv /\ [NextBodies]_bs => BodiesInv'
  <2>1. CASE NextBodies
    BY <2>1, BodiesStep
  <2>2. CASE UNCHANGED bs
    BY <2>2 DEF BodiesInv, BodiesShaped, BodyTypeOK, RowsSeen, ErasedStaysGone, FirstWraps, RunKeeps, Seen
  <2> QED
    BY <2>1, <2>2
<1>3. BodiesInv /\ BodiesInv' /\ [NextBodies]_bs => [BodiesKeep]_bs
  <2> SUFFICES ASSUME BodiesInv, BodiesInv', NextBodies PROVE BodiesKeep
    OBVIOUS
  <2>1. KeysMoveForward
    BY BodiesStep
  <2>2. RetireIsSafe'
    BY DEF BodiesInv, RunKeeps, RetireIsSafe, RunOf
  <2> QED
    BY <2>1, <2>2 DEF BodiesInv
<1> QED
  BY <1>1, <1>2, <1>3, PTL DEF BodiesSpec, BodiesHold

-----------------------------------------------------------------------------
(* The console *)

DocKinds == {"limits", "rules"}
LimitRecs == [paused : BOOLEAN, signals : SUBSET STRING, cap : Nat]
ConsoleFields == {"up", "ceiling", "lock", "faults", "crashes", "hands", "blind", "file", "live", "hand", "byHand", "calls"}
CallFields == {"stage", "kind", "want", "seen", "prior", "turns"}

ConsoleShaped(s) ==
  /\ DOMAIN s = ConsoleFields /\ DOMAIN s.file = DocKinds /\ DOMAIN s.live = DocKinds /\ DOMAIN s.hand = DocKinds
  /\ DOMAIN s.calls = Editors /\ \A e \in Editors : DOMAIN s.calls[e] = CallFields

\* Limits are limits, and the ones in force keep the ceiling's cap.
LimitsTyped(s) ==
  /\ s.ceiling \in ConsoleCeilings /\ s.file.limits \in LimitRecs /\ s.live.limits \in LimitRecs
  /\ s.live.limits.cap <= s.ceiling.cap
  /\ \A e \in Editors : /\ s.calls[e].kind \in DocKinds
                        /\ s.calls[e].kind = "limits" => s.calls[e].want \in LimitRecs /\ s.calls[e].prior \in LimitRecs

\* The lock is held by the one editor that is changing something, and by nobody while
\* the process is down.
Working(s, e) == s.calls[e].stage \in {"persisting", "installing"}
LockHeld(s) ==
  /\ s.lock \subseteq Editors /\ \A e \in Editors : e \in s.lock <=> Working(s, e)
  /\ \A e, f \in s.lock : e = f
  /\ ~s.up => s.lock = {} /\ \A e \in Editors : s.calls[e].stage = "idle"

\* Unless an edit of the limits is half done, memory and file agree.
Installing(s) == \E e \in Editors : s.calls[e].stage = "installing" /\ s.calls[e].kind = "limits"
FileAgrees(s) ==
  s.up /\ ~s.hand.limits /\ ~Installing(s) => s.live.limits = Loaded(s.ceiling, s.file.limits)

\* What an editor that holds the lock works with: the revision it saw is what it replaces,
\* the file it saved loads as what is in force, and the limits it writes load as themselves.
EditSound(s, e) ==
  LET c == s.calls[e]
  IN  /\ c.kind = "limits" => /\ c.seen = s.live.limits /\ Loaded(s.ceiling, c.prior) = s.live.limits
                              /\ Loaded(s.ceiling, c.want) = c.want /\ c.want.cap <= s.ceiling.cap
      /\ c.kind = "rules" => /\ c.seen = c.prior
                             /\ ~ContentRules => ContentOf(c.want) \cup ContentOf(c.prior) \subseteq s.byHand
EditsSound(s) == \A e \in Editors : Working(s, e) => EditSound(s, e)

ContentSound(s) == ~ContentRules => ContentOf(s.live.rules) \cup ContentOf(s.file.rules) \subseteq s.byHand

ConsoleSound(s) ==
  /\ ConsoleShaped(s) /\ LimitsTyped(s) /\ LockHeld(s) /\ FileAgrees(s) /\ EditsSound(s) /\ ContentSound(s) /\ ~s.blind
ConsoleInv == ConsoleSound(ec)

-----------------------------------------------------------------------------
(* What the limits' operators do. *)

LEMMA NormalizedIsALimit ==
  ASSUME NEW c \in ConsoleCeilings, NEW l \in LimitRecs
  PROVE  LET n == Normalize(c, l)
         IN  /\ n \in LimitRecs /\ n.cap <= l.cap /\ n.paused = l.paused
             /\ n.signals = (IF l.signals = c.signals THEN {} ELSE l.signals)
             /\ n.cap = (IF l.cap = c.cap THEN 0 ELSE l.cap)
<1> DEFINE g == IF l.signals = c.signals THEN {} ELSE l.signals
           k == IF l.cap = c.cap THEN 0 ELSE l.cap
<1>1. l.signals \in SUBSET STRING /\ l.cap \in Nat /\ l.paused \in BOOLEAN
  BY DEF LimitRecs
<1>2. g \in SUBSET STRING /\ k \in Nat /\ k <= l.cap
  BY <1>1
<1>3. Normalize(c, l) = [l EXCEPT !.signals = g, !.cap = k]
  BY DEF Normalize, LimitRecs
<1> HIDE DEF g, k
<1>4. LET n == [l EXCEPT !.signals = g, !.cap = k]
      IN  n \in LimitRecs /\ n.paused = l.paused /\ n.signals = g /\ n.cap = k
  BY <1>1, <1>2 DEF LimitRecs
<1> QED
  BY <1>2, <1>3, <1>4 DEF g, k

LEMMA LoadedIsALimit ==
  ASSUME NEW c \in ConsoleCeilings, NEW l \in LimitRecs
  PROVE  Loaded(c, l) \in LimitRecs /\ Loaded(c, l).cap <= c.cap
<1> DEFINE d == Clamp(c, l)
<1>1. d \in LimitRecs /\ d.cap <= c.cap /\ c.cap \in Nat
  BY ConsoleAssumption DEF Clamp, LimitRecs
<1> HIDE DEF d
<1>2. Normalize(c, d) \in LimitRecs /\ Normalize(c, d).cap <= d.cap
  BY <1>1, NormalizedIsALimit
<1>3. Normalize(c, d).cap \in Nat /\ d.cap \in Nat
  BY <1>1, <1>2 DEF LimitRecs
<1> QED
  BY <1>1, <1>2, <1>3 DEF Loaded, d

\* Normalized limits load as they are, within the ceiling's cap.
LEMMA NormalizedLoads ==
  ASSUME NEW c \in ConsoleCeilings, NEW l \in LimitRecs, Normalizable(c, l)
  PROVE  LET n == Normalize(c, l) IN n \in LimitRecs /\ n.cap <= c.cap /\ Loaded(c, n) = n
<1> DEFINE n == Normalize(c, l)
           k == Clamp(c, n)
<1>1. /\ n \in LimitRecs /\ n.cap <= l.cap /\ n.paused = l.paused /\ n.cap \in Nat /\ l.cap \in Nat
      /\ n.signals = (IF l.signals = c.signals THEN {} ELSE l.signals)
      /\ n.cap = (IF l.cap = c.cap THEN 0 ELSE l.cap)
  <2>1. n \in LimitRecs
    BY NormalizedIsALimit
  <2>2. n.cap \in Nat /\ l.cap \in Nat
    BY <2>1 DEF LimitRecs
  <2> QED
    BY <2>1, <2>2, NormalizedIsALimit
<1>2. c.cap \in Nat
  BY ConsoleAssumption
<1>3. n.signals \subseteq c.signals /\ n.cap <= c.cap /\ (n.cap # 0 => MayContent(c))
  <2> HIDE DEF n
  <2> QED
    BY <1>1, <1>2 DEF Normalizable
<1> HIDE DEF n
<1>4. k \in LimitRecs /\ k.paused = n.paused /\ k.signals = n.signals /\ k.cap = n.cap
  BY <1>1, <1>2, <1>3 DEF Clamp, LimitRecs
<1>5. k = n
  BY <1>1, <1>4 DEF LimitRecs
<1>6. Normalize(c, n) = n
  <2> DEFINE m == Normalize(c, n)
  <2>1. m \in LimitRecs /\ m.paused = n.paused
        /\ m.signals = (IF n.signals = c.signals THEN {} ELSE n.signals)
        /\ m.cap = (IF n.cap = c.cap THEN 0 ELSE n.cap)
    BY <1>1, NormalizedIsALimit
  <2> HIDE DEF m
  <2>2. m.signals = n.signals /\ m.cap = n.cap
    BY <1>1, <1>2, <1>3, <2>1
  <2>3. m = n
    BY <1>1, <2>1, <2>2 DEF LimitRecs
  <2> QED
    BY <2>3 DEF m
<1>7. Loaded(c, n) = n
  BY <1>5, <1>6 DEF Loaded
<1> QED
  BY <1>1, <1>3, <1>7 DEF n

LEMMA NoLimitLoads ==
  ASSUME NEW c \in ConsoleCeilings
  PROVE  NoLimit \in LimitRecs /\ Loaded(c, NoLimit) = NoLimit /\ NoLimit.cap = 0
<1>1. NoLimit \in LimitRecs /\ NoLimit.cap = 0 /\ NoLimit.signals = {} /\ NoLimit.paused = FALSE
  BY DEF NoLimit, LimitRecs
<1>2. Normalizable(c, NoLimit)
  BY <1>1 DEF Normalizable
<1>3. Normalize(c, NoLimit) = NoLimit
  <2> DEFINE m == Normalize(c, NoLimit)
  <2>1. m \in LimitRecs /\ m.paused = FALSE /\ m.signals = {} /\ m.cap = 0
    BY <1>1, NormalizedIsALimit
  <2> HIDE DEF m
  <2>2. m = NoLimit
    BY <1>1, <2>1 DEF LimitRecs
  <2> QED
    BY <2>2 DEF m
<1> QED
  BY <1>1, <1>2, <1>3, NormalizedLoads

\* A clamped limit carries no signal of the ceiling that the stored limit did not.
LEMMA LoadingNarrows ==
  ASSUME NEW c \in ConsoleCeilings, NEW l \in LimitRecs, NEW x \in c.signals, Carries(Loaded(c, l), x)
  PROVE  Carries(l, x)
<1> DEFINE k == Clamp(c, l)
           kept == l.signals \cap c.signals
<1>1. /\ k \in LimitRecs /\ k.paused = (l.paused \/ (l.signals # {} /\ kept = {})) /\ k.signals = kept
  BY ConsoleAssumption DEF Clamp, LimitRecs
<1> HIDE DEF k
<1>2. /\ Normalize(c, k).paused = k.paused
      /\ Normalize(c, k).signals = (IF k.signals = c.signals THEN {} ELSE k.signals)
  <2>1. k \in LimitRecs
    BY <1>1
  <2> QED
    BY <2>1, NormalizedIsALimit
<1>3. ~Normalize(c, k).paused /\ (Normalize(c, k).signals = {} \/ x \in Normalize(c, k).signals)
  BY DEF Carries, Loaded, k
<1> QED
  BY <1>1, <1>2, <1>3 DEF Carries, LimitRecs

\* Normalizing rules adds no content.
LEMMA NormalRulesContent ==
  ASSUME NEW rules
  PROVE  ContentOf(NormalizeRules(rules)) = ContentOf(rules)
<1> DEFINE n == NormalizeRules(rules)
<1>1. DOMAIN n = DOMAIN rules /\ \A m \in DOMAIN rules : n[m] = IF rules[m] = "unsampled" THEN "sampled" ELSE rules[m]
  BY DEF NormalizeRules
<1>2. \A m \in DOMAIN rules : /\ n[m] \in ContentShapes <=> rules[m] \in ContentShapes
                              /\ n[m] \in ContentShapes => n[m] = rules[m]
  BY <1>1 DEF ContentShapes
<1> HIDE DEF n
<1> QED
  BY <1>1, <1>2 DEF ContentOf, n
-----------------------------------------------------------------------------
(* The steps *)

LEMMA ConsoleStarts == InitConsole => ConsoleInv
<1> SUFFICES ASSUME NEW ceiling \in ConsoleCeilings, NEW rules,
                    ec = [up |-> TRUE, ceiling |-> ceiling, lock |-> {}, faults |-> 0, crashes |-> 0, hands |-> 0,
                          blind |-> FALSE, file |-> [limits |-> NoLimit, rules |-> rules],
                          live |-> [limits |-> NoLimit, rules |-> rules],
                          hand |-> [limits |-> FALSE, rules |-> FALSE], byHand |-> ContentOf(rules),
                          calls |-> [e \in Editors |-> [stage |-> "idle", kind |-> "rules", want |-> rules,
                                                        seen |-> rules, prior |-> rules, turns |-> 0]]]
             PROVE  ConsoleSound(ec)
  BY DEF InitConsole, ConsoleInv
<1>1. ConsoleShaped(ec)
  BY DEF ConsoleShaped, ConsoleFields, DocKinds, CallFields
<1>2. /\ ec.up = TRUE /\ ec.ceiling = ceiling /\ ec.lock = {} /\ ec.blind = FALSE /\ ec.file.limits = NoLimit
      /\ ec.live.limits = NoLimit /\ ec.file.rules = rules /\ ec.live.rules = rules /\ ec.byHand = ContentOf(rules)
      /\ \A e \in Editors : ec.calls[e].stage = "idle" /\ ec.calls[e].kind = "rules"
  OBVIOUS
<1>3. LimitsTyped(ec)
  <2>1. NoLimit \in LimitRecs /\ NoLimit.cap = 0 /\ ceiling.cap \in Nat
    BY NoLimitLoads, ConsoleAssumption
  <2> QED
    BY <1>2, <2>1 DEF LimitsTyped, DocKinds
<1>4. LockHeld(ec) /\ EditsSound(ec)
  BY <1>2 DEF LockHeld, EditsSound, Working
<1>5. FileAgrees(ec)
  BY <1>2, NoLimitLoads DEF FileAgrees
<1>6. ContentSound(ec)
  BY <1>2 DEF ContentSound
<1> QED
  BY <1>1, <1>2, <1>3, <1>4, <1>5, <1>6 DEF ConsoleSound

\* What Answer leaves behind: the editor is idle and the lock, if it had it, free.
LEMMA Answered ==
  ASSUME ConsoleShaped(ec), NEW e \in Editors
  PROVE  LET b == Answer(e)
         IN  /\ ConsoleShaped(b) /\ b.up = ec.up /\ b.ceiling = ec.ceiling /\ b.lock = ec.lock \ {e} /\ b.blind = ec.blind
             /\ b.file = ec.file /\ b.live = ec.live /\ b.hand = ec.hand /\ b.byHand = ec.byHand
             /\ b.calls[e].stage = "idle" /\ b.calls[e].kind = ec.calls[e].kind
             /\ b.calls[e].want = ec.calls[e].want /\ b.calls[e].prior = ec.calls[e].prior
             /\ \A f \in Editors \ {e} : b.calls[f] = ec.calls[f]
  BY DEF Answer, ConsoleShaped, ConsoleFields, CallFields

\* An editor that leaves without having changed anything.
LEMMA LeavesKeep ==
  ASSUME ConsoleSound(ec), NEW e \in Editors, ~(ec.calls[e].stage = "installing" /\ ec.calls[e].kind = "limits"),
         NEW b, ConsoleShaped(b), b.up = ec.up, b.ceiling = ec.ceiling, b.lock = ec.lock \ {e}, b.blind = ec.blind,
         b.file = ec.file, b.live = ec.live, b.hand = ec.hand, b.byHand = ec.byHand,
         b.calls[e].stage = "idle", b.calls[e].kind = ec.calls[e].kind,
         b.calls[e].want = ec.calls[e].want, b.calls[e].prior = ec.calls[e].prior,
         \A f \in Editors \ {e} : b.calls[f] = ec.calls[f]
  PROVE  ConsoleSound(b)
<1>1. LimitsTyped(b)
  BY DEF ConsoleSound, LimitsTyped
<1>2. LockHeld(b)
  BY DEF ConsoleSound, LockHeld, Working
<1>3. Installing(b) <=> Installing(ec)
  BY DEF Installing
<1>4. FileAgrees(b)
  BY <1>3 DEF ConsoleSound, FileAgrees
<1>5. EditsSound(b)
  BY DEF ConsoleSound, EditsSound, EditSound, Working
<1> QED
  BY <1>1, <1>2, <1>4, <1>5 DEF ConsoleSound, ContentSound

LEMMA LeaveSteps ==
  ASSUME ConsoleInv, NEW e \in Editors, Turned(e) \/ AuditNotReady(e) \/ PersistFails(e)
  PROVE  ConsoleInv'
<1> DEFINE a == Answer(e)
           b == ec'
<1>1. ConsoleSound(ec) /\ ConsoleShaped(ec)
  BY DEF ConsoleInv, ConsoleSound
<1>2. ec.calls[e].stage # "installing"
  BY DEF Turned, AuditNotReady, PersistFails, MayEnter, EStage
<1>3. b = a \/ b = [a EXCEPT !.faults = @ + 1]
  BY DEF Turned, AuditNotReady, PersistFails
<1>4. /\ ConsoleShaped(a) /\ a.up = ec.up /\ a.ceiling = ec.ceiling /\ a.lock = ec.lock \ {e} /\ a.blind = ec.blind
      /\ a.file = ec.file /\ a.live = ec.live /\ a.hand = ec.hand /\ a.byHand = ec.byHand
      /\ a.calls[e].stage = "idle" /\ a.calls[e].kind = ec.calls[e].kind
      /\ a.calls[e].want = ec.calls[e].want /\ a.calls[e].prior = ec.calls[e].prior
      /\ \A f \in Editors \ {e} : a.calls[f] = ec.calls[f]
  BY <1>1, Answered
<1> HIDE DEF a, b
<1>5. /\ ConsoleShaped(b) /\ b.up = a.up /\ b.ceiling = a.ceiling /\ b.lock = a.lock /\ b.blind = a.blind
      /\ b.file = a.file /\ b.live = a.live /\ b.hand = a.hand /\ b.byHand = a.byHand /\ b.calls = a.calls
  BY <1>3, <1>4 DEF ConsoleShaped, ConsoleFields
<1>6. ConsoleSound(b)
  BY <1>1, <1>2, <1>4, <1>5, LeavesKeep
<1> QED
  BY <1>6 DEF b, ConsoleInv, ConsoleSound, ConsoleShaped, LimitsTyped, LockHeld, FileAgrees, EditsSound, EditSound,
              ContentSound, Working, Installing

LEMMA ReadKeeps ==
  ASSUME ConsoleInv, NEW e \in Editors, NEW kind \in DocKinds, NEW doc \in Documents(kind), ReadRevision(e, kind, doc)
  PROVE  ConsoleInv'
<1> DEFINE b == ec'
           c == [stage |-> "previewed", kind |-> kind, want |-> doc, seen |-> Current(kind), prior |-> ec.file[kind], turns |-> 1]
<1>1. ConsoleSound(ec) /\ ConsoleShaped(ec)
  BY DEF ConsoleInv, ConsoleSound
<1>2. ec.up /\ ec.calls[e].stage = "idle" /\ b = [ec EXCEPT !.calls[e] = c]
  BY DEF ReadRevision, EStage
<1>3. /\ DOMAIN c = CallFields /\ c.stage = "previewed" /\ c.kind = kind /\ c.want = doc /\ c.prior = ec.file[kind]
  BY DEF CallFields
<1> HIDE DEF b, c
<1>4. /\ ConsoleShaped(b) /\ b.up = ec.up /\ b.ceiling = ec.ceiling /\ b.lock = ec.lock /\ b.blind = ec.blind
      /\ b.file = ec.file /\ b.live = ec.live /\ b.hand = ec.hand /\ b.byHand = ec.byHand
      /\ b.calls[e] = c /\ \A f \in Editors \ {e} : b.calls[f] = ec.calls[f]
  BY <1>1, <1>2, <1>3 DEF ConsoleShaped, ConsoleFields
<1>5. LimitsTyped(b)
  <2>1. kind = "limits" => doc \in LimitRecs /\ ec.file[kind] \in LimitRecs
    BY <1>1, ConsoleAssumption DEF ConsoleSound, LimitsTyped, Documents, LimitRecs
  <2> QED
    BY <1>1, <1>3, <1>4, <2>1 DEF ConsoleSound, LimitsTyped
<1>6. LockHeld(b)
  BY <1>1, <1>2, <1>3, <1>4 DEF ConsoleSound, LockHeld, Working
<1>7. FileAgrees(b)
  <2>1. Installing(b) <=> Installing(ec)
    BY <1>2, <1>3, <1>4 DEF Installing
  <2> QED
    BY <1>1, <1>4, <2>1 DEF ConsoleSound, FileAgrees
<1>8. EditsSound(b)
  BY <1>1, <1>3, <1>4 DEF ConsoleSound, EditsSound, EditSound, Working
<1>9. ConsoleSound(b)
  BY <1>1, <1>4, <1>5, <1>6, <1>7, <1>8 DEF ConsoleSound, ContentSound
<1> QED
  BY <1>9 DEF b, ConsoleInv, ConsoleSound, ConsoleShaped, LimitsTyped, LockHeld, FileAgrees, EditsSound, EditSound,
              ContentSound, Working, Installing
\* putLimits and putRules, up to the lock: what the edit replaces is what its author saw.
LEMMA EnterKeeps ==
  ASSUME ConsoleInv, NEW e \in Editors, Enter(e)
  PROVE  ConsoleInv'
<1> DEFINE b == ec'
           k == ec.calls[e]
           w == Normalized(k.kind, k.want)
           c == [k EXCEPT !.stage = "persisting", !.prior = ec.file[k.kind], !.want = w]
<1>1. ConsoleSound(ec) /\ ConsoleShaped(ec)
  BY DEF ConsoleInv, ConsoleSound
<1>2. /\ ec.up /\ k.stage = "previewed" /\ ec.lock = {} /\ k.seen = Current(k.kind)
      /\ k.kind = "rules" \/ Loaded(ec.ceiling, ec.file.limits) = ec.live.limits
      /\ Acceptable(e)
  BY DEF Enter, MayEnter, EStage, OfKind, CheckRevision, StateFileMatches
<1>3. b = [ec EXCEPT !.lock = @ \cup {e}, !.calls[e] = c]
  BY <1>1 DEF Enter, OfKind, ConsoleShaped, ConsoleFields
<1>4. k.kind \in DocKinds /\ DOMAIN k = CallFields
  BY <1>1 DEF ConsoleSound, LimitsTyped, ConsoleShaped
<1> HIDE DEF b, k, w
<1>5. /\ DOMAIN c = CallFields /\ c.stage = "persisting" /\ c.kind = k.kind /\ c.want = w /\ c.prior = ec.file[k.kind]
      /\ c.seen = k.seen
  BY <1>4 DEF CallFields
<1> HIDE DEF c
<1>6. /\ ConsoleShaped(b) /\ b.up = ec.up /\ b.ceiling = ec.ceiling /\ b.lock = {e} /\ b.blind = ec.blind
      /\ b.file = ec.file /\ b.live = ec.live /\ b.hand = ec.hand /\ b.byHand = ec.byHand
      /\ b.calls[e] = c /\ \A f \in Editors \ {e} : b.calls[f] = ec.calls[f]
  BY <1>1, <1>2, <1>3, <1>5 DEF ConsoleShaped, ConsoleFields
<1>7. k.kind = "limits" => /\ w \in LimitRecs /\ w.cap <= ec.ceiling.cap /\ Loaded(ec.ceiling, w) = w
                           /\ ec.file[k.kind] = ec.file.limits /\ k.seen = ec.live.limits
  <2> SUFFICES ASSUME k.kind = "limits"
               PROVE  /\ w \in LimitRecs /\ w.cap <= ec.ceiling.cap /\ Loaded(ec.ceiling, w) = w
                      /\ ec.file[k.kind] = ec.file.limits /\ k.seen = ec.live.limits
    OBVIOUS
  <2>1. ec.ceiling \in ConsoleCeilings /\ k.want \in LimitRecs
    BY <1>1 DEF ConsoleSound, LimitsTyped, k
  <2>2. w = Normalize(ec.ceiling, k.want) /\ Normalizable(ec.ceiling, k.want)
    BY <1>2 DEF w, Normalized, Acceptable, OfKind, k
  <2>3. k.seen = ec.live.limits /\ ec.file[k.kind] = ec.file.limits
    BY <1>2 DEF Current
  <2> QED
    BY <2>1, <2>2, <2>3, NormalizedLoads
<1>8. k.kind = "rules" => /\ k.seen = ec.file.rules /\ ec.file[k.kind] = ec.file.rules
                          /\ ~ContentRules => ContentOf(w) \subseteq ec.byHand /\ ContentOf(ec.file.rules) \subseteq ec.byHand
  <2> SUFFICES ASSUME k.kind = "rules"
               PROVE  /\ k.seen = ec.file.rules /\ ec.file[k.kind] = ec.file.rules
                      /\ ~ContentRules => ContentOf(w) \subseteq ec.byHand /\ ContentOf(ec.file.rules) \subseteq ec.byHand
    OBVIOUS
  <2>1. w = NormalizeRules(k.want) /\ ContentGate(ec.file.rules, k.want)
    BY <1>2 DEF w, Normalized, Acceptable, OfKind, k
  <2>2. ContentOf(w) = ContentOf(k.want)
    BY <2>1, NormalRulesContent
  <2>3. ~ContentRules => ContentOf(ec.file.rules) \subseteq ec.byHand
    BY <1>1 DEF ConsoleSound, ContentSound
  <2>4. k.seen = ec.file.rules
    BY <1>2 DEF Current
  <2> QED
    BY <2>1, <2>2, <2>3, <2>4 DEF ContentGate
<1>9. LimitsTyped(b)
  BY <1>1, <1>4, <1>5, <1>6, <1>7 DEF ConsoleSound, LimitsTyped
<1>10. LockHeld(b)
  BY <1>1, <1>2, <1>5, <1>6 DEF ConsoleSound, LockHeld, Working
<1>11. FileAgrees(b)
  <2>1. Installing(b) <=> Installing(ec)
    BY <1>2, <1>5, <1>6 DEF Installing, k
  <2> QED
    BY <1>1, <1>6, <2>1 DEF ConsoleSound, FileAgrees
<1>12. EditsSound(b)
  <2>1. EditSound(b, e)
    BY <1>2, <1>4, <1>5, <1>6, <1>7, <1>8 DEF EditSound, DocKinds
  <2>2. ASSUME NEW f \in Editors \ {e} PROVE ~Working(b, f)
    BY <1>1, <1>2, <1>6 DEF ConsoleSound, LockHeld, Working
  <2> QED
    BY <2>1, <2>2 DEF EditsSound
<1>13. ConsoleSound(b)
  BY <1>1, <1>6, <1>9, <1>10, <1>11, <1>12 DEF ConsoleSound, ContentSound
<1> QED
  BY <1>13 DEF b, ConsoleInv, ConsoleSound, ConsoleShaped, LimitsTyped, LockHeld, FileAgrees, EditsSound, EditSound,
              ContentSound, Working, Installing

\* commitFile: the file first.
LEMMA PersistKeeps ==
  ASSUME ConsoleInv, NEW e \in Editors, Persist(e)
  PROVE  ConsoleInv'
<1> DEFINE b == ec'
           k == ec.calls[e]
           c == [k EXCEPT !.stage = "installing"]
           d == [ec.file EXCEPT ![k.kind] = k.want]
<1>1. ConsoleSound(ec) /\ ConsoleShaped(ec)
  BY DEF ConsoleInv, ConsoleSound
<1>2. k.stage = "persisting" /\ b = [ec EXCEPT !.file = d, !.calls[e] = c]
  BY <1>1 DEF Persist, EStage, OfKind, ConsoleShaped, ConsoleFields
<1>3. k.kind \in DocKinds /\ DOMAIN k = CallFields /\ DOMAIN ec.file = DocKinds /\ EditSound(ec, e)
  BY <1>1, <1>2 DEF ConsoleSound, LimitsTyped, ConsoleShaped, EditsSound, Working
<1> HIDE DEF b, k
<1>4. /\ DOMAIN c = CallFields /\ c.stage = "installing" /\ c.kind = k.kind /\ c.want = k.want /\ c.prior = k.prior
      /\ c.seen = k.seen
  BY <1>3 DEF CallFields
<1>5. /\ DOMAIN d = DocKinds /\ d.limits = (IF k.kind = "limits" THEN k.want ELSE ec.file.limits)
      /\ d.rules = (IF k.kind = "rules" THEN k.want ELSE ec.file.rules)
  BY <1>3 DEF DocKinds
<1> HIDE DEF c, d
<1>6. /\ ConsoleShaped(b) /\ b.up = ec.up /\ b.ceiling = ec.ceiling /\ b.lock = ec.lock /\ b.blind = ec.blind
      /\ b.file = d /\ b.live = ec.live /\ b.hand = ec.hand /\ b.byHand = ec.byHand
      /\ b.calls[e] = c /\ \A f \in Editors \ {e} : b.calls[f] = ec.calls[f]
  BY <1>1, <1>2, <1>4, <1>5 DEF ConsoleShaped, ConsoleFields
<1>7. LimitsTyped(b)
  BY <1>1, <1>3, <1>4, <1>5, <1>6 DEF ConsoleSound, LimitsTyped, k
<1>8. LockHeld(b)
  BY <1>1, <1>2, <1>4, <1>6 DEF ConsoleSound, LockHeld, Working, k
<1>9. FileAgrees(b)
  <2>1. CASE k.kind = "limits"
    BY <1>4, <1>6, <2>1 DEF FileAgrees, Installing
  <2>2. CASE k.kind # "limits"
    <3>1. ~Installing(b) => ~Installing(ec)
      BY <1>4, <1>6, <2>2 DEF Installing, k
    <3> QED
      BY <1>1, <1>5, <1>6, <2>2, <3>1 DEF ConsoleSound, FileAgrees
  <2> QED
    BY <2>1, <2>2
<1>10. EditsSound(b)
  <2>1. EditSound(b, e)
    BY <1>3, <1>4, <1>6 DEF EditSound, k
  <2>2. ASSUME NEW f \in Editors \ {e} PROVE Working(b, f) => EditSound(b, f)
    BY <1>1, <1>6 DEF ConsoleSound, EditsSound, EditSound, Working
  <2> QED
    BY <2>1, <2>2 DEF EditsSound
<1>11. ContentSound(b)
  BY <1>1, <1>3, <1>5, <1>6 DEF ConsoleSound, ContentSound, EditSound, k
<1>12. ConsoleSound(b)
  BY <1>1, <1>6, <1>7, <1>8, <1>9, <1>10, <1>11 DEF ConsoleSound
<1> QED
  BY <1>12 DEF b, ConsoleInv, ConsoleSound, ConsoleShaped, LimitsTyped, LockHeld, FileAgrees, EditsSound, EditSound,
              ContentSound, Working, Installing

\* An editor that leaves from installing: nobody else works, and what is in the file
\* and in force must be justified by what it worked with.
LEMMA InstallingLeaves ==
  ASSUME ConsoleSound(ec), NEW e \in Editors, ec.calls[e].stage = "installing",
         NEW b, ConsoleShaped(b), b.up = ec.up, b.ceiling = ec.ceiling, b.lock = ec.lock \ {e}, b.byHand = ec.byHand,
         b.calls[e].stage = "idle", b.calls[e].kind = ec.calls[e].kind,
         b.calls[e].want = ec.calls[e].want, b.calls[e].prior = ec.calls[e].prior,
         \A f \in Editors \ {e} : b.calls[f] = ec.calls[f],
         b.file.limits \in LimitRecs, b.live.limits \in LimitRecs, b.live.limits.cap <= b.ceiling.cap,
         FileAgrees(b), ContentSound(b), ~b.blind
  PROVE  ConsoleSound(b)
<1>1. LimitsTyped(b)
  BY DEF ConsoleSound, LimitsTyped
<1>2. e \in ec.lock /\ \A f \in Editors \ {e} : ~Working(ec, f)
  BY DEF ConsoleSound, LockHeld, Working
<1>3. LockHeld(b)
  BY <1>2 DEF ConsoleSound, LockHeld, Working
<1>4. EditsSound(b)
  BY <1>2 DEF EditsSound, Working
<1> QED
  BY <1>1, <1>3, <1>4 DEF ConsoleSound

LEMMA InstallKeeps ==
  ASSUME ConsoleInv, NEW e \in Editors, Install(e)
  PROVE  ConsoleInv'
<1> DEFINE a == Answer(e)
           b == ec'
           k == ec.calls[e]
           l == [ec.live EXCEPT ![k.kind] = k.want]
           h == [ec.hand EXCEPT ![k.kind] = ec.file[k.kind] # k.want]
           x == ec.blind \/ k.seen # Replaced(e)
<1>1. ConsoleSound(ec) /\ ConsoleShaped(ec)
  BY DEF ConsoleInv, ConsoleSound
<1>2. /\ ConsoleShaped(a) /\ a.up = ec.up /\ a.ceiling = ec.ceiling /\ a.lock = ec.lock \ {e} /\ a.blind = ec.blind
      /\ a.file = ec.file /\ a.live = ec.live /\ a.hand = ec.hand /\ a.byHand = ec.byHand
      /\ a.calls[e].stage = "idle" /\ a.calls[e].kind = k.kind
      /\ a.calls[e].want = k.want /\ a.calls[e].prior = k.prior
      /\ \A f \in Editors \ {e} : a.calls[f] = ec.calls[f]
  BY <1>1, Answered
<1>3. k.stage = "installing"
      /\ b = [a EXCEPT !.live[k.kind] = k.want, !.hand[k.kind] = ec.file[k.kind] # k.want, !.blind = @ \/ k.seen # Replaced(e)]
  BY DEF Install, EStage, OfKind
<1>4. k.kind \in DocKinds /\ DOMAIN ec.live = DocKinds /\ DOMAIN ec.hand = DocKinds /\ EditSound(ec, e) /\ ~ec.blind
  BY <1>1, <1>3 DEF ConsoleSound, LimitsTyped, ConsoleShaped, EditsSound, Working
<1>5. x = FALSE
  BY <1>4 DEF EditSound, Replaced, OfKind, DocKinds
<1> HIDE DEF a, b, k
<1>6. b = [a EXCEPT !.live = l, !.hand = h, !.blind = x]
  BY <1>2, <1>3 DEF ConsoleShaped, ConsoleFields
<1>7. /\ DOMAIN l = DocKinds /\ l.limits = (IF k.kind = "limits" THEN k.want ELSE ec.live.limits)
      /\ l.rules = (IF k.kind = "rules" THEN k.want ELSE ec.live.rules)
      /\ DOMAIN h = DocKinds /\ (k.kind # "limits" => h.limits = ec.hand.limits)
  BY <1>4 DEF DocKinds
<1>8. k.kind = "limits" => h.limits = (ec.file.limits # k.want)
  BY <1>4 DEF DocKinds
<1> HIDE DEF l, h, x
<1>9. /\ ConsoleShaped(b) /\ b.up = ec.up /\ b.ceiling = ec.ceiling /\ b.lock = ec.lock \ {e} /\ b.blind = x
      /\ b.file = ec.file /\ b.live = l /\ b.hand = h /\ b.byHand = ec.byHand /\ b.calls = a.calls
  BY <1>2, <1>6, <1>7 DEF ConsoleShaped, ConsoleFields
<1>10. b.file.limits \in LimitRecs /\ b.live.limits \in LimitRecs /\ b.live.limits.cap <= b.ceiling.cap
  BY <1>1, <1>4, <1>7, <1>9 DEF ConsoleSound, LimitsTyped, EditSound, k
<1>11. FileAgrees(b)
  <2>1. CASE k.kind = "limits"
    BY <1>4, <1>7, <1>8, <1>9, <2>1 DEF FileAgrees, EditSound, k
  <2>2. CASE k.kind # "limits"
    <3>1. ~Installing(b) => ~Installing(ec)
      BY <1>2, <1>9, <2>2 DEF Installing, k
    <3> QED
      BY <1>1, <1>7, <1>9, <2>2, <3>1 DEF ConsoleSound, FileAgrees
  <2> QED
    BY <2>1, <2>2
<1>12. ContentSound(b)
  <2> SUFFICES ASSUME ~ContentRules PROVE ContentOf(b.live.rules) \cup ContentOf(b.file.rules) \subseteq b.byHand
    BY DEF ContentSound
  <2>1. ContentOf(ec.live.rules) \subseteq ec.byHand /\ ContentOf(ec.file.rules) \subseteq ec.byHand
    BY <1>1 DEF ConsoleSound, ContentSound
  <2>2. k.kind = "rules" => ContentOf(k.want) \subseteq ec.byHand
    BY <1>4 DEF EditSound, k
  <2> QED
    BY <1>7, <1>9, <2>1, <2>2
<1>13. ~b.blind
  BY <1>5, <1>9
<1>14. ConsoleSound(b)
  <2>1. /\ ConsoleShaped(b) /\ b.up = ec.up /\ b.ceiling = ec.ceiling /\ b.lock = ec.lock \ {e} /\ b.byHand = ec.byHand
        /\ b.calls[e].stage = "idle" /\ b.calls[e].kind = k.kind
        /\ b.calls[e].want = k.want /\ b.calls[e].prior = k.prior
        /\ \A f \in Editors \ {e} : b.calls[f] = ec.calls[f]
    BY <1>2, <1>9
  <2>2. k.stage = "installing"
    BY <1>3
  <2> QED
    BY <1>1, <1>10, <1>11, <1>12, <1>13, <2>1, <2>2, InstallingLeaves DEF k
<1> QED
  BY <1>14 DEF b, ConsoleInv, ConsoleSound, ConsoleShaped, LimitsTyped, LockHeld, FileAgrees, EditsSound, EditSound,
              ContentSound, Working, Installing

LEMMA InstallFailsKeeps ==
  ASSUME ConsoleInv, NEW e \in Editors, InstallFails(e) \/ RestoreFails(e)
  PROVE  ConsoleInv'
<1> DEFINE a == Answer(e)
           b == ec'
           k == ec.calls[e]
           d == [ec.file EXCEPT ![k.kind] = k.prior]
           h == [ec.hand EXCEPT ![k.kind] = TRUE]
<1>1. ConsoleSound(ec) /\ ConsoleShaped(ec)
  BY DEF ConsoleInv, ConsoleSound
<1>2. /\ ConsoleShaped(a) /\ a.up = ec.up /\ a.ceiling = ec.ceiling /\ a.lock = ec.lock \ {e} /\ a.blind = ec.blind
      /\ a.file = ec.file /\ a.live = ec.live /\ a.hand = ec.hand /\ a.byHand = ec.byHand
      /\ a.calls[e].stage = "idle" /\ a.calls[e].kind = k.kind
      /\ a.calls[e].want = k.want /\ a.calls[e].prior = k.prior
      /\ \A f \in Editors \ {e} : a.calls[f] = ec.calls[f]
  BY <1>1, Answered
<1>3. /\ k.stage = "installing"
      /\ \/ b = [a EXCEPT !.file = d, !.faults = @ + 1]
         \/ b = [a EXCEPT !.hand[k.kind] = TRUE, !.faults = @ + 2]
  BY DEF InstallFails, RestoreFails, Restored, EStage, OfKind
<1>4. /\ k.kind \in DocKinds /\ DOMAIN ec.file = DocKinds /\ DOMAIN ec.hand = DocKinds /\ EditSound(ec, e) /\ ~ec.blind
      /\ k.kind = "limits" => k.prior \in LimitRecs
  BY <1>1, <1>3 DEF ConsoleSound, LimitsTyped, ConsoleShaped, EditsSound, Working
<1> HIDE DEF a, b, k
<1>5. b = [a EXCEPT !.file = d, !.faults = @ + 1] \/ b = [a EXCEPT !.hand = h, !.faults = @ + 2]
  BY <1>2, <1>3 DEF ConsoleShaped, ConsoleFields
<1>6. /\ DOMAIN d = DocKinds /\ d.limits = (IF k.kind = "limits" THEN k.prior ELSE ec.file.limits)
      /\ d.rules = (IF k.kind = "rules" THEN k.prior ELSE ec.file.rules)
      /\ DOMAIN h = DocKinds /\ (k.kind # "limits" => h.limits = ec.hand.limits) /\ (k.kind = "limits" => h.limits = TRUE)
  BY <1>4 DEF DocKinds
<1> HIDE DEF d, h
<1>7. /\ ConsoleShaped(b) /\ b.up = ec.up /\ b.ceiling = ec.ceiling /\ b.lock = ec.lock \ {e} /\ b.blind = ec.blind
      /\ b.live = ec.live /\ b.byHand = ec.byHand /\ b.calls = a.calls
      /\ (b.file = d /\ b.hand = ec.hand) \/ (b.file = ec.file /\ b.hand = h)
  <2>1. CASE b = [a EXCEPT !.file = d, !.faults = @ + 1]
    BY <1>2, <1>6, <2>1 DEF ConsoleShaped, ConsoleFields
  <2>2. CASE b = [a EXCEPT !.hand = h, !.faults = @ + 2]
    BY <1>2, <1>6, <2>2 DEF ConsoleShaped, ConsoleFields
  <2> QED
    BY <1>5, <2>1, <2>2
<1>8. b.file.limits \in LimitRecs /\ b.live.limits \in LimitRecs /\ b.live.limits.cap <= b.ceiling.cap
  BY <1>1, <1>4, <1>6, <1>7 DEF ConsoleSound, LimitsTyped
<1>9. FileAgrees(b)
  <2>1. CASE k.kind = "limits"
    BY <1>4, <1>6, <1>7, <2>1 DEF FileAgrees, EditSound, k
  <2>2. CASE k.kind # "limits"
    <3>1. ~Installing(b) => ~Installing(ec)
      BY <1>2, <1>7, <2>2 DEF Installing, k
    <3> QED
      BY <1>1, <1>6, <1>7, <2>2, <3>1 DEF ConsoleSound, FileAgrees
  <2> QED
    BY <2>1, <2>2
<1>10. ContentSound(b)
  BY <1>1, <1>4, <1>6, <1>7 DEF ConsoleSound, ContentSound, EditSound, k
<1>11. ConsoleSound(b)
  BY <1>1, <1>2, <1>3, <1>4, <1>7, <1>8, <1>9, <1>10, InstallingLeaves DEF k
<1> QED
  BY <1>11 DEF b, ConsoleInv, ConsoleSound, ConsoleShaped, LimitsTyped, LockHeld, FileAgrees, EditsSound, EditSound,
              ContentSound, Working, Installing

\* A file changed by hand, checked as the policy loader checks it.
LEMMA HandEditKeeps ==
  ASSUME ConsoleInv, NEW kind \in DocKinds, NEW doc \in Documents(kind), HandEdit(kind, doc)
  PROVE  ConsoleInv'
<1> DEFINE b == ec'
           d == [ec.file EXCEPT ![kind] = doc]
           h == [ec.hand EXCEPT ![kind] = TRUE]
           y == IF kind = "rules" THEN ec.byHand \cup ContentOf(doc) ELSE ec.byHand
<1>1. ConsoleSound(ec) /\ ConsoleShaped(ec) /\ DOMAIN ec.file = DocKinds /\ DOMAIN ec.hand = DocKinds
  BY DEF ConsoleInv, ConsoleSound, ConsoleShaped
<1>2. b = [ec EXCEPT !.file = d, !.hand = h, !.hands = @ + 1, !.byHand = y]
  BY <1>1 DEF HandEdit, ConsoleShaped, ConsoleFields
<1>3. /\ DOMAIN d = DocKinds /\ d.limits = (IF kind = "limits" THEN doc ELSE ec.file.limits)
      /\ d.rules = (IF kind = "rules" THEN doc ELSE ec.file.rules)
      /\ DOMAIN h = DocKinds /\ (kind # "limits" => h.limits = ec.hand.limits) /\ (kind = "limits" => h.limits = TRUE)
  BY <1>1 DEF DocKinds
<1>4. ec.byHand \subseteq y /\ (kind = "rules" => ContentOf(doc) \subseteq y)
  OBVIOUS
<1>5. kind = "limits" => doc \in LimitRecs
  BY ConsoleAssumption DEF Documents, LimitRecs
<1> HIDE DEF b, d, h, y
<1>6. /\ ConsoleShaped(b) /\ b.up = ec.up /\ b.ceiling = ec.ceiling /\ b.lock = ec.lock /\ b.blind = ec.blind
      /\ b.file = d /\ b.live = ec.live /\ b.hand = h /\ b.byHand = y /\ b.calls = ec.calls
  BY <1>1, <1>2, <1>3 DEF ConsoleShaped, ConsoleFields
<1>7. LimitsTyped(b)
  BY <1>1, <1>3, <1>5, <1>6 DEF ConsoleSound, LimitsTyped
<1>8. LockHeld(b)
  BY <1>1, <1>6 DEF ConsoleSound, LockHeld, Working
<1>9. FileAgrees(b)
  <2>1. CASE kind = "limits"
    BY <1>3, <1>6, <2>1 DEF FileAgrees
  <2>2. CASE kind # "limits"
    BY <1>1, <1>3, <1>6, <2>2 DEF ConsoleSound, FileAgrees, Installing
  <2> QED
    BY <2>1, <2>2
<1>10. EditsSound(b)
  BY <1>1, <1>4, <1>6 DEF ConsoleSound, EditsSound, EditSound, Working
<1>11. ContentSound(b)
  BY <1>1, <1>3, <1>4, <1>6 DEF ConsoleSound, ContentSound
<1>12. ConsoleSound(b)
  BY <1>1, <1>6, <1>7, <1>8, <1>9, <1>10, <1>11 DEF ConsoleSound
<1> QED
  BY <1>12 DEF b, ConsoleInv, ConsoleSound, ConsoleShaped, LimitsTyped, LockHeld, FileAgrees, EditsSound, EditSound,
              ContentSound, Working, Installing

LEMMA WatchReloadKeeps ==
  ASSUME ConsoleInv, WatchReload
  PROVE  ConsoleInv'
<1> DEFINE b == ec'
           l == [ec.live EXCEPT !.rules = ec.file.rules]
           h == [ec.hand EXCEPT !.rules = FALSE]
<1>1. ConsoleSound(ec) /\ ConsoleShaped(ec) /\ DOMAIN ec.live = DocKinds /\ DOMAIN ec.hand = DocKinds
  BY DEF ConsoleInv, ConsoleSound, ConsoleShaped
<1>2. b = [ec EXCEPT !.live = l, !.hand = h]
  BY <1>1 DEF WatchReload, ConsoleShaped, ConsoleFields
<1>3. /\ DOMAIN l = DocKinds /\ l.limits = ec.live.limits /\ l.rules = ec.file.rules
      /\ DOMAIN h = DocKinds /\ h.limits = ec.hand.limits
  BY <1>1 DEF DocKinds
<1> HIDE DEF b, l, h
<1>4. /\ ConsoleShaped(b) /\ b.up = ec.up /\ b.ceiling = ec.ceiling /\ b.lock = ec.lock /\ b.blind = ec.blind
      /\ b.file = ec.file /\ b.live = l /\ b.hand = h /\ b.byHand = ec.byHand /\ b.calls = ec.calls
  BY <1>1, <1>2, <1>3 DEF ConsoleShaped, ConsoleFields
<1>5. LimitsTyped(b)
  BY <1>1, <1>3, <1>4 DEF ConsoleSound, LimitsTyped
<1>6. LockHeld(b)
  BY <1>1, <1>4 DEF ConsoleSound, LockHeld, Working
<1>7. FileAgrees(b)
  BY <1>1, <1>3, <1>4 DEF ConsoleSound, FileAgrees, Installing
<1>8. EditsSound(b)
  BY <1>1, <1>3, <1>4 DEF ConsoleSound, EditsSound, EditSound, Working
<1>9. ContentSound(b)
  BY <1>1, <1>3, <1>4 DEF ConsoleSound, ContentSound
<1>10. ConsoleSound(b)
  BY <1>1, <1>4, <1>5, <1>6, <1>7, <1>8, <1>9 DEF ConsoleSound
<1> QED
  BY <1>10 DEF b, ConsoleInv, ConsoleSound, ConsoleShaped, LimitsTyped, LockHeld, FileAgrees, EditsSound, EditSound,
              ContentSound, Working, Installing

\* The process dies, and every edit with it.
LEMMA ConsoleCrashKeeps ==
  ASSUME ConsoleInv, ConsoleCrash
  PROVE  ConsoleInv'
<1> DEFINE b == ec'
           g == [e \in Editors |-> [ec.calls[e] EXCEPT !.stage = "idle"]]
<1>1. ConsoleSound(ec) /\ ConsoleShaped(ec) /\ \A e \in Editors : DOMAIN ec.calls[e] = CallFields
  BY DEF ConsoleInv, ConsoleSound, ConsoleShaped
<1>2. b = [ec EXCEPT !.up = FALSE, !.crashes = @ + 1, !.lock = {}, !.calls = g]
  BY DEF ConsoleCrash
<1>3. /\ DOMAIN g = Editors
      /\ \A e \in Editors : /\ DOMAIN g[e] = CallFields /\ g[e].stage = "idle" /\ g[e].kind = ec.calls[e].kind
                            /\ g[e].want = ec.calls[e].want /\ g[e].prior = ec.calls[e].prior
  BY <1>1 DEF CallFields
<1> HIDE DEF b, g
<1>4. /\ ConsoleShaped(b) /\ b.up = FALSE /\ b.ceiling = ec.ceiling /\ b.lock = {} /\ b.blind = ec.blind
      /\ b.file = ec.file /\ b.live = ec.live /\ b.hand = ec.hand /\ b.byHand = ec.byHand /\ b.calls = g
  BY <1>1, <1>2, <1>3 DEF ConsoleShaped, ConsoleFields
<1>5. LimitsTyped(b)
  BY <1>1, <1>3, <1>4 DEF ConsoleSound, LimitsTyped
<1>6. LockHeld(b) /\ EditsSound(b) /\ FileAgrees(b)
  BY <1>3, <1>4 DEF LockHeld, EditsSound, FileAgrees, Working
<1>7. ContentSound(b)
  BY <1>1, <1>4 DEF ConsoleSound, ContentSound
<1>8. ConsoleSound(b)
  BY <1>1, <1>4, <1>5, <1>6, <1>7 DEF ConsoleSound
<1> QED
  BY <1>8 DEF b, ConsoleInv, ConsoleSound, ConsoleShaped, LimitsTyped, LockHeld, FileAgrees, EditsSound, EditSound,
              ContentSound, Working, Installing

\* A start reads both files: what comes into force is what the limits' file loads as.
LEMMA LoadKeeps ==
  ASSUME ConsoleInv, NEW ceiling \in ConsoleCeilings, LoadLimits(ceiling)
  PROVE  /\ ConsoleInv'
         /\ \A s \in ec'.ceiling.signals : Carries(ec'.live.limits, s) => Carries(ec.file.limits, s)
<1> DEFINE b == ec'
           l == [limits |-> Loaded(ceiling, ec.file.limits), rules |-> ec.file.rules]
           h == [limits |-> FALSE, rules |-> FALSE]
<1>1. ConsoleSound(ec) /\ ConsoleShaped(ec) /\ ~ec.up /\ ec.file.limits \in LimitRecs
  BY DEF ConsoleInv, ConsoleSound, LimitsTyped, LoadLimits
<1>2. b = [ec EXCEPT !.up = TRUE, !.ceiling = ceiling, !.hand = h, !.live = l]
  BY DEF LoadLimits
<1>3. DOMAIN l = DocKinds /\ l.limits = Loaded(ceiling, ec.file.limits) /\ l.rules = ec.file.rules /\ DOMAIN h = DocKinds
  BY DEF DocKinds
<1>4. Loaded(ceiling, ec.file.limits) \in LimitRecs /\ Loaded(ceiling, ec.file.limits).cap <= ceiling.cap
  BY <1>1, LoadedIsALimit
<1> HIDE DEF b, l, h
<1>5. /\ ConsoleShaped(b) /\ b.up = TRUE /\ b.ceiling = ceiling /\ b.lock = ec.lock /\ b.blind = ec.blind
      /\ b.file = ec.file /\ b.live = l /\ b.hand = h /\ b.byHand = ec.byHand /\ b.calls = ec.calls
  BY <1>1, <1>2, <1>3 DEF ConsoleShaped, ConsoleFields
<1>6. ec.lock = {} /\ \A e \in Editors : ec.calls[e].stage = "idle"
  BY <1>1 DEF ConsoleSound, LockHeld
<1>7. LimitsTyped(b)
  BY <1>1, <1>3, <1>4, <1>5 DEF ConsoleSound, LimitsTyped
<1>8. LockHeld(b) /\ EditsSound(b) /\ FileAgrees(b)
  BY <1>3, <1>5, <1>6 DEF LockHeld, EditsSound, FileAgrees, Working
<1>9. ContentSound(b)
  BY <1>1, <1>3, <1>5 DEF ConsoleSound, ContentSound
<1>10. ConsoleSound(b)
  BY <1>1, <1>5, <1>7, <1>8, <1>9 DEF ConsoleSound
<1>11. \A s \in b.ceiling.signals : Carries(b.live.limits, s) => Carries(ec.file.limits, s)
  BY <1>1, <1>3, <1>5, LoadingNarrows
<1> QED
  BY <1>10, <1>11 DEF b, ConsoleInv, ConsoleSound, ConsoleShaped, LimitsTyped, LockHeld, FileAgrees, EditsSound, EditSound,
              ContentSound, Working, Installing

\* Every step of the console keeps the invariant.
LEMMA ConsoleSteps ==
  ASSUME ConsoleInv, [NextConsole]_ec
  PROVE  ConsoleInv'
<1>1. CASE UNCHANGED ec
  BY <1>1 DEF ConsoleInv, ConsoleSound, ConsoleShaped, LimitsTyped, LockHeld, FileAgrees, EditsSound, EditSound,
              ContentSound, Working, Installing
<1>2. CASE WatchReload
  BY <1>2, WatchReloadKeeps
<1>3. CASE ConsoleCrash
  BY <1>3, ConsoleCrashKeeps
<1>4. ASSUME NEW ceiling \in ConsoleCeilings, LoadLimits(ceiling) PROVE ConsoleInv'
  BY <1>4, LoadKeeps
<1>5. ASSUME NEW kind \in DocKinds, NEW doc \in Documents(kind), HandEdit(kind, doc) PROVE ConsoleInv'
  BY <1>5, HandEditKeeps
<1>6. ASSUME NEW kind \in DocKinds, NEW doc \in Documents(kind), NEW e \in Editors, ReadRevision(e, kind, doc)
      PROVE  ConsoleInv'
  BY <1>6, ReadKeeps
<1>7. ASSUME NEW e \in Editors, Enter(e) PROVE ConsoleInv'
  BY <1>7, EnterKeeps
<1>8. ASSUME NEW e \in Editors, Turned(e) \/ AuditNotReady(e) \/ PersistFails(e) PROVE ConsoleInv'
  BY <1>8, LeaveSteps
<1>9. ASSUME NEW e \in Editors, Persist(e) PROVE ConsoleInv'
  BY <1>9, PersistKeeps
<1>10. ASSUME NEW e \in Editors, Install(e) PROVE ConsoleInv'
  BY <1>10, InstallKeeps
<1>11. ASSUME NEW e \in Editors, InstallFails(e) \/ RestoreFails(e) PROVE ConsoleInv'
  BY <1>11, InstallFailsKeeps
<1> QED
  BY <1>1, <1>2, <1>3, <1>4, <1>5, <1>6, <1>7, <1>8, <1>9, <1>10, <1>11 DEF NextConsole, DocKinds

\* The invariant gives the parts of ConsoleHolds that speak of one state.
LEMMA ConsoleStates ==
  ASSUME ConsoleInv
  PROVE  ConsoleTypeOK /\ NoBlindOverwrite /\ DiskAgrees /\ ContentByHandOnly
<1>1. LimitsTyped(ec) /\ LockHeld(ec) /\ FileAgrees(ec) /\ ContentSound(ec) /\ ~ec.blind
  BY DEF ConsoleInv, ConsoleSound
<1>2. Cardinality(ec.lock) <= 1
  <2>1. CASE ec.lock = {}
    BY <2>1, FS_EmptySet
  <2>2. CASE ec.lock # {}
    <3>1. PICK e \in ec.lock : ec.lock = {e}
      BY <1>1, <2>2 DEF LockHeld
    <3>2. Cardinality({e}) = 1
      BY FS_Singleton
    <3> QED
      BY <3>1, <3>2
  <2> QED
    BY <2>1, <2>2
<1>3. \A e \in Editors : ec.calls[e].stage \in {"persisting", "installing"} => ec.lock = {e}
  BY <1>1 DEF LockHeld, Working
<1>4. ConsoleTypeOK
  BY <1>1, <1>2, <1>3 DEF ConsoleTypeOK, EStage, LimitsTyped
<1>5. NoBlindOverwrite /\ ContentByHandOnly
  BY <1>1 DEF NoBlindOverwrite, ContentByHandOnly, ContentSound
<1>6. DiskAgrees
  <2>1. ec.lock = {} => ~Installing(ec)
    BY <1>1 DEF LockHeld, Working, Installing
  <2> QED
    BY <1>1, <2>1 DEF DiskAgrees, FileAgrees
<1> QED
  BY <1>4, <1>5, <1>6

\* Only a start brings the process up.
LEMMA OnlyLoadsStart ==
  ASSUME ConsoleInv, [NextConsole]_ec
  PROVE  RestartNeverWidens
<1> SUFFICES ASSUME ~ec.up, ec'.up
             PROVE  \A s \in ec'.ceiling.signals : Carries(ec'.live.limits, s) => Carries(ec.file.limits, s)
  BY DEF RestartNeverWidens
<1>1. ConsoleShaped(ec) /\ \A e \in Editors : ec.calls[e].stage = "idle"
  BY DEF ConsoleInv, ConsoleSound, LockHeld
<1>2. \A e \in Editors : ~(Enter(e) \/ Turned(e) \/ AuditNotReady(e) \/ Persist(e) \/ PersistFails(e) \/ Install(e)
                          \/ InstallFails(e) \/ RestoreFails(e))
  BY <1>1 DEF Enter, Turned, AuditNotReady, Persist, PersistFails, Install, InstallFails, RestoreFails, MayEnter, EStage
<1>3. ~WatchReload /\ ~ConsoleCrash /\ \A e \in Editors, kind \in DocKinds : \A doc : ~ReadRevision(e, kind, doc)
  BY DEF WatchReload, ConsoleCrash, ReadRevision
<1>4. ASSUME NEW kind, NEW doc, HandEdit(kind, doc) PROVE FALSE
  <2>1. ec'.up = ec.up
    BY <1>1, <1>4 DEF HandEdit, ConsoleShaped, ConsoleFields
  <2> QED
    BY <2>1
<1>5. ASSUME NEW ceiling \in ConsoleCeilings, LoadLimits(ceiling)
      PROVE  \A s \in ec'.ceiling.signals : Carries(ec'.live.limits, s) => Carries(ec.file.limits, s)
  BY <1>5, LoadKeeps
<1>6. ec' # ec
  OBVIOUS
<1> QED
  BY <1>2, <1>3, <1>4, <1>5, <1>6 DEF NextConsole, DocKinds

(* Edits of the exporter's limits and rules never cross: whoever edits, in whatever order, *)
(* with failing writes, files changed by hand, deaths and restarts under other ceilings,   *)
(* at most one editor is inside the lock, it replaces only what it saw, between edits the  *)
(* limits in force are the ones a restart would load, content rules come by hand only, and *)
(* no restart carries a signal the stored limit did not (putLimits, putRules, commitFile,  *)
(* loadState).                                                                             *)
THEOREM EditsNeverCross == ConsoleSpec => ConsoleHolds
<1>1. InitConsole => ConsoleInv
  BY ConsoleStarts
<1>2. ConsoleInv /\ [NextConsole]_ec => ConsoleInv'
  BY ConsoleSteps
<1>3. ConsoleInv /\ ConsoleInv' /\ [NextConsole]_ec =>
        [/\ ConsoleTypeOK' /\ NoBlindOverwrite' /\ DiskAgrees' /\ ContentByHandOnly' /\ RestartNeverWidens]_ec
  <2>1. ConsoleInv => ConsoleTypeOK /\ NoBlindOverwrite /\ DiskAgrees /\ ContentByHandOnly
    BY ConsoleStates
  <2>2. ConsoleInv' => ConsoleTypeOK' /\ NoBlindOverwrite' /\ DiskAgrees' /\ ContentByHandOnly'
    BY <2>1, PTL
  <2> QED
    BY <2>2, OnlyLoadsStart
<1> QED
  BY <1>1, <1>2, <1>3, PTL DEF ConsoleSpec, ConsoleHolds

-----------------------------------------------------------------------------
(* The usage reports *)

UsageFields == {"made", "bucket", "start", "now", "buf", "tick", "wire", "pg", "mem", "acked", "dropped", "overflowed",
                "lost", "faults", "asked", "answer", "ackedThen"}
UsageShaped(s) == DOMAIN s = UsageFields /\ DOMAIN s.pg = Starts /\ DOMAIN s.mem = Starts

Windows == [start : Starts, end : Nat, uses : SUBSET (1..Uses)]

\* h gives each start the usage of the one window that was ever closed with it.
History(s, h) ==
  /\ h \in [Starts -> SUBSET (1..s.made)]
  /\ \A x, y \in Starts : x # y => h[x] \cap h[y] = {}
  /\ \A x \in Starts : h[x] \cap s.bucket = {} /\ (x >= s.start => h[x] = {})

\* A window wherever it is: closed before the open one, with what it was closed with.
Closed(w, s, h) == w \in Windows /\ w.start < w.end /\ w.start < s.start /\ w.uses = h[w.start]

\* The backlog is in the order its windows were closed.
BufSound(s, h) ==
  /\ s.buf \in Seq(Windows) /\ Len(s.buf) <= BufferCap
  /\ \A i \in 1..Len(s.buf) : Closed(s.buf[i], s, h)
  /\ \A i, j \in 1..Len(s.buf) : i < j => s.buf[i].start < s.buf[j].start

\* The durable rows of a window are what it was closed with, and memory holds no others.
RowsSound(s, h) ==
  \A x \in Starts : /\ s.pg[x] = <<>> \/ s.pg[x] = <<h[x]>>
                    /\ s.mem[x] = <<>> \/ s.mem[x] = s.pg[x]
                    /\ x >= s.start => s.pg[x] = <<>>

Durable(s, h, u) == \E x \in Starts : s.pg[x] = <<h[x]>> /\ u \in h[x]

\* What is dropped is neither open nor in the backlog any more.
DropsSound(s) ==
  /\ s.overflowed \subseteq s.dropped /\ s.dropped \cap s.bucket = {} /\ s.dropped \cap Backlog(s.buf) = {}
  /\ s.dropped \subseteq s.overflowed \/ Cardinality(s.dropped \ s.overflowed) > EntryBound

UsesSound(s, h) ==
  /\ \A u \in s.acked : Durable(s, h, u)
  /\ \A u \in 1..s.made : u \in s.bucket \/ u \in Backlog(s.buf) \/ Durable(s, h, u) \/ u \in s.dropped \/ u \in s.lost

UsageTypes(s) ==
  /\ s.made \in 0..Uses /\ s.start \in Nat \ {0} /\ s.faults \in 0..WireFaults
  /\ s.tick \in {"idle", "posting", "waiting"} /\ (s.tick = "waiting" => s.buf # <<>>)
  /\ s.acked \subseteq 1..Uses /\ s.dropped \subseteq 1..s.made /\ s.lost \subseteq 1..Uses

\* The c first uses are in closed windows.  Beside these windows only a fault moves the
\* start on, or lets a tick find a backlog.
ClockSound(s, c) ==
  /\ c \in 0..s.made /\ s.bucket = (c + 1)..s.made
  /\ s.start <= Instants + c + s.faults
  /\ (s.tick = "idle" /\ s.buf # <<>>) => s.start + 1 <= Instants + c + s.faults

AnswerSound(s) == s.answer.degraded \/ s.ackedThen \subseteq s.answer.uses

UsageSound(s, h, c) ==
  /\ UsageShaped(s) /\ UsageTypes(s) /\ History(s, h) /\ (\A w \in s.wire : Closed(w, s, h)) /\ BufSound(s, h)
  /\ RowsSound(s, h) /\ DropsSound(s) /\ UsesSound(s, h) /\ ClockSound(s, c) /\ AnswerSound(s)

UsageInv == \E h, c : UsageSound(us, h, c)

-----------------------------------------------------------------------------
(* Backlogs and rows *)

LEMMA BacklogTail ==
  ASSUME NEW buf \in Seq(Windows), buf # <<>>
  PROVE  /\ Tail(buf) \in Seq(Windows) /\ Len(Tail(buf)) = Len(buf) - 1 /\ Len(buf) \in Nat \ {0}
         /\ \A i \in 1..(Len(buf) - 1) : Tail(buf)[i] = buf[i + 1]
         /\ Head(buf) = buf[1] /\ Backlog(buf) = Head(buf).uses \cup Backlog(Tail(buf))
<1>1. /\ Tail(buf) \in Seq(Windows) /\ Len(Tail(buf)) = Len(buf) - 1 /\ Len(buf) \in Nat \ {0}
      /\ \A i \in 1..(Len(buf) - 1) : Tail(buf)[i] = buf[i + 1]
      /\ Head(buf) = buf[1]
  OBVIOUS
<1>2. DOMAIN buf = 1..Len(buf) /\ DOMAIN Tail(buf) = 1..(Len(buf) - 1)
  BY <1>1
<1>3. ASSUME NEW u \in Backlog(buf) PROVE u \in Head(buf).uses \cup Backlog(Tail(buf))
  <2>1. PICK i \in 1..Len(buf) : u \in buf[i].uses
    BY <1>2, <1>3 DEF Backlog
  <2>2. CASE i = 1
    BY <1>1, <2>1, <2>2
  <2>3. CASE i # 1
    <3>1. i - 1 \in 1..(Len(buf) - 1) /\ Tail(buf)[i - 1] = buf[i]
      BY <1>1, <2>1, <2>3
    <3> QED
      BY <1>2, <2>1, <3>1 DEF Backlog
  <2> QED
    BY <2>2, <2>3
<1>4. ASSUME NEW u \in Backlog(Tail(buf)) PROVE u \in Backlog(buf)
  <2>1. PICK i \in 1..(Len(buf) - 1) : u \in Tail(buf)[i].uses
    BY <1>2, <1>4 DEF Backlog
  <2>2. i + 1 \in 1..Len(buf) /\ u \in buf[i + 1].uses
    BY <1>1, <2>1
  <2> QED
    BY <1>2, <2>2 DEF Backlog
<1>5. Head(buf).uses \subseteq Backlog(buf)
  BY <1>1, <1>2 DEF Backlog
<1> QED
  BY <1>1, <1>3, <1>4, <1>5

LEMMA BacklogAppend ==
  ASSUME NEW buf \in Seq(Windows), NEW w \in Windows
  PROVE  /\ Append(buf, w) \in Seq(Windows) /\ Len(Append(buf, w)) = Len(buf) + 1 /\ Len(buf) \in Nat
         /\ \A i \in 1..Len(buf) : Append(buf, w)[i] = buf[i]
         /\ Append(buf, w)[Len(buf) + 1] = w /\ Backlog(Append(buf, w)) = Backlog(buf) \cup w.uses
<1> DEFINE d == Append(buf, w)
<1>1. /\ d \in Seq(Windows) /\ Len(d) = Len(buf) + 1 /\ Len(buf) \in Nat
      /\ \A i \in 1..Len(buf) : d[i] = buf[i]
      /\ d[Len(buf) + 1] = w
  OBVIOUS
<1>2. DOMAIN buf = 1..Len(buf) /\ DOMAIN d = 1..(Len(buf) + 1)
  BY <1>1
<1> HIDE DEF d
<1>3. ASSUME NEW u \in Backlog(d) PROVE u \in Backlog(buf) \cup w.uses
  BY <1>1, <1>2, <1>3 DEF Backlog
<1>4. ASSUME NEW u \in Backlog(buf) PROVE u \in Backlog(d)
  BY <1>1, <1>2, <1>4 DEF Backlog
<1>5. w.uses \subseteq Backlog(d)
  BY <1>1, <1>2 DEF Backlog
<1>6. Backlog(d) = Backlog(buf) \cup w.uses
  BY <1>3, <1>4, <1>5
<1> QED
  BY <1>1, <1>6 DEF d

LEMMA BacklogEmpty == Backlog(<<>>) = {}
  BY DEF Backlog

\* What rows hold.
LEMMA RowUses ==
  ASSUME NEW rows, NEW h, \A x \in Starts : rows[x] = <<>> \/ rows[x] = <<h[x]>>
  PROVE  \A u : u \in UsesOf(rows) <=> \E x \in Starts : rows[x] = <<h[x]>> /\ u \in h[x]
<1>1. \A x \in Starts : UNION Range(rows[x]) = IF rows[x] = <<h[x]>> THEN h[x] ELSE {}
  <2> TAKE x \in Starts
  <2>1. CASE rows[x] = <<h[x]>>
    <3>1. Range(<<h[x]>>) = {h[x]}
      BY DEF Range
    <3> QED
      BY <2>1, <3>1
  <2>2. CASE rows[x] # <<h[x]>>
    <3>1. Range(<<>>) = {}
      BY DEF Range
    <3> QED
      BY <2>2, <3>1
  <2> QED
    BY <2>1, <2>2
<1> QED
  BY <1>1 DEF UsesOf

\* The head of the backlog shares no usage with the rest of it.
LEMMA HeadApart ==
  ASSUME NEW s, NEW h, History(s, h), BufSound(s, h), s.buf # <<>>
  PROVE  /\ Closed(Head(s.buf), s, h) /\ Head(s.buf).uses \cap Backlog(Tail(s.buf)) = {}
         /\ Head(s.buf).uses \cap s.bucket = {}
<1> DEFINE n == Len(s.buf)
<1>1. /\ n \in Nat \ {0} /\ Head(s.buf) = s.buf[1] /\ DOMAIN Tail(s.buf) = 1..(n - 1)
      /\ \A i \in 1..(n - 1) : Tail(s.buf)[i] = s.buf[i + 1]
  BY BacklogTail DEF BufSound
<1>2. \A i \in 1..n : Closed(s.buf[i], s, h) /\ s.buf[i].start \in Starts
  BY DEF BufSound, Closed, Windows
<1>3. ASSUME NEW i \in 1..(n - 1) PROVE Tail(s.buf)[i].uses \cap Head(s.buf).uses = {}
  <2>1. i + 1 \in 1..n /\ 1 \in 1..n /\ 1 < i + 1
    BY <1>1
  <2>2. s.buf[1].start < s.buf[i + 1].start
    BY <2>1 DEF BufSound
  <2>3. s.buf[1].start # s.buf[i + 1].start
    BY <1>2, <2>1, <2>2 DEF Starts
  <2>4. h[s.buf[1].start] \cap h[s.buf[i + 1].start] = {}
    BY <1>2, <2>1, <2>3 DEF History
  <2> QED
    BY <1>1, <1>2, <2>1, <2>4 DEF Closed
<1>4. Head(s.buf).uses \cap Backlog(Tail(s.buf)) = {}
  BY <1>1, <1>3 DEF Backlog
<1> QED
  BY <1>1, <1>2, <1>4 DEF Closed, History

\* The backlog without its head is one.
LEMMA TailSound ==
  ASSUME NEW s, NEW h, BufSound(s, h), s.buf # <<>>
  PROVE  /\ Tail(s.buf) \in Seq(Windows) /\ Len(Tail(s.buf)) <= BufferCap /\ Len(Tail(s.buf)) < Len(s.buf)
         /\ \A i \in 1..Len(Tail(s.buf)) : Closed(Tail(s.buf)[i], s, h)
         /\ \A i, j \in 1..Len(Tail(s.buf)) : i < j => Tail(s.buf)[i].start < Tail(s.buf)[j].start
<1> DEFINE n == Len(s.buf)
           t == Tail(s.buf)
<1>1. n \in Nat \ {0} /\ t \in Seq(Windows) /\ Len(t) = n - 1 /\ \A i \in 1..(n - 1) : t[i] = s.buf[i + 1]
  BY BacklogTail DEF BufSound
<1>2. n <= BufferCap /\ BufferCap \in Nat
  BY UsageAssumption DEF BufSound
<1> HIDE DEF n, t
<1>3. \A i \in 1..(n - 1) : i + 1 \in 1..n
  BY <1>1
<1>4. \A i \in 1..(n - 1) : Closed(t[i], s, h)
  BY <1>1, <1>3 DEF BufSound, n
<1>5. ASSUME NEW i \in 1..(n - 1), NEW j \in 1..(n - 1), i < j PROVE t[i].start < t[j].start
  <2>1. i + 1 \in 1..n /\ j + 1 \in 1..n /\ i + 1 < j + 1
    BY <1>3, <1>5
  <2> QED
    BY <1>1, <2>1 DEF BufSound, n
<1>6. \A i \in 1..Len(t) : Closed(t[i], s, h)
  BY <1>1, <1>4
<1>7. \A i, j \in 1..Len(t) : i < j => t[i].start < t[j].start
  BY <1>1, <1>5
<1>8. Len(t) <= BufferCap /\ Len(t) < n
  BY <1>1, <1>2
<1> QED
  BY <1>1, <1>6, <1>7, <1>8 DEF n, t

-----------------------------------------------------------------------------
(* The steps *)

LEMMA UsageStarts == InitUsage => UsageInv
<1> SUFFICES ASSUME InitUsage PROVE UsageInv
  OBVIOUS
<1> DEFINE none == [x \in Starts |-> {}]
<1>1. UsageShaped(us)
  BY DEF InitUsage, UsageShaped, UsageFields
<1>2. /\ us.made = 0 /\ us.bucket = {} /\ us.start = 1 /\ us.buf = <<>> /\ us.tick = "idle" /\ us.wire = {}
      /\ us.acked = {} /\ us.dropped = {} /\ us.overflowed = {} /\ us.lost = {} /\ us.faults = 0
      /\ us.ackedThen = {} /\ \A x \in Starts : us.pg[x] = <<>> /\ us.mem[x] = <<>>
  BY DEF InitUsage
<1>3. UsageTypes(us)
  BY <1>2, UsageAssumption DEF UsageTypes
<1>4. none \in [Starts -> SUBSET (1..us.made)] /\ \A x \in Starts : none[x] = {}
  OBVIOUS
<1> HIDE DEF none
<1>5. History(us, none)
  BY <1>2, <1>4 DEF History
<1>6. BufSound(us, none)
  <2>1. us.buf \in Seq(Windows) /\ Len(us.buf) = 0 /\ 1..Len(us.buf) = {}
    BY <1>2
  <2> QED
    BY <2>1, UsageAssumption DEF BufSound
<1>7. RowsSound(us, none) /\ DropsSound(us) /\ UsesSound(us, none)
  BY <1>2 DEF RowsSound, DropsSound, UsesSound
<1>8. ClockSound(us, 0)
  BY <1>2, UsageAssumption DEF ClockSound
<1>9. AnswerSound(us)
  BY <1>2 DEF AnswerSound
<1>10. UsageSound(us, none, 0)
  BY <1>1, <1>2, <1>3, <1>5, <1>6, <1>7, <1>8, <1>9 DEF UsageSound
<1> QED
  BY <1>10 DEF UsageInv

LEMMA SoundNext ==
  ASSUME NEW h, NEW c, UsageSound(us', h, c)
  PROVE  UsageInv'
<1>1. UsageSound(us, h, c)'
  BY DEF UsageSound, UsageShaped, UsageTypes, History, BufSound, Closed, RowsSound, DropsSound,
         UsesSound, Durable, ClockSound, AnswerSound
<1> QED
  BY <1>1 DEF UsageInv

\* Nothing moves but the wire, the tick, the clock and the fault count.
LEMMA WireKeeps ==
  ASSUME NEW a, NEW b, NEW h, NEW c, UsageSound(a, h, c), UsageShaped(b),
         b.made = a.made, b.bucket = a.bucket, b.start = a.start, b.buf = a.buf, b.pg = a.pg, b.mem = a.mem,
         b.acked = a.acked, b.dropped = a.dropped, b.overflowed = a.overflowed, b.lost = a.lost,
         b.answer = a.answer, b.ackedThen = a.ackedThen,
         \A w \in b.wire : Closed(w, a, h),
         b.tick \in {"idle", "posting", "waiting"}, b.tick = "waiting" => b.buf # <<>>,
         b.faults \in {a.faults, a.faults + 1}, b.faults <= WireFaults,
         b.tick = "idle" /\ b.buf # <<>> => a.tick = "idle" \/ b.faults = a.faults + 1
  PROVE  UsageSound(b, h, c)
<1>1. UsageTypes(b)
  BY UsageAssumption DEF UsageSound, UsageTypes
<1>2. History(b, h) /\ BufSound(b, h) /\ RowsSound(b, h)
  BY DEF UsageSound, History, BufSound, RowsSound, Closed
<1>3. DropsSound(b) /\ UsesSound(b, h) /\ AnswerSound(b)
  BY DEF UsageSound, DropsSound, UsesSound, AnswerSound, Durable
<1>4. \A w \in b.wire : Closed(w, b, h)
  BY DEF Closed
<1>5. ClockSound(b, c)
  BY UsageAssumption DEF UsageSound, UsageTypes, ClockSound
<1> QED
  BY <1>1, <1>2, <1>3, <1>4, <1>5 DEF UsageSound

LEMMA PostKeeps ==
  ASSUME UsageInv, Post \/ FlushDone
  PROVE  UsageInv'
<1> DEFINE b == us'
<1>1. PICK h, c : UsageSound(us, h, c)
  BY DEF UsageInv
<1>2. UsageShaped(us) /\ us.faults <= WireFaults
  BY <1>1, UsageAssumption DEF UsageSound, UsageTypes
<1>3. /\ us.tick = "posting"
      /\ \/ us.buf # <<>> /\ b = [us EXCEPT !.tick = "waiting", !.wire = @ \cup {Head(us.buf)}]
         \/ us.buf = <<>> /\ b = [us EXCEPT !.tick = "idle"]
  BY DEF Post, FlushDone
<1>4. us.buf # <<>> => Closed(Head(us.buf), us, h)
  BY <1>1, HeadApart DEF UsageSound
<1> HIDE DEF b
<1>5. /\ UsageShaped(b)
      /\ b.made = us.made /\ b.bucket = us.bucket /\ b.start = us.start /\ b.buf = us.buf /\ b.pg = us.pg /\ b.mem = us.mem
      /\ b.acked = us.acked /\ b.dropped = us.dropped /\ b.overflowed = us.overflowed /\ b.lost = us.lost
      /\ b.answer = us.answer /\ b.ackedThen = us.ackedThen /\ b.faults = us.faults
  BY <1>2, <1>3 DEF UsageShaped, UsageFields
<1>6. /\ b.tick \in {"idle", "waiting"} /\ (b.tick = "waiting" => b.buf # <<>>) /\ (b.tick = "idle" => b.buf = <<>>)
      /\ b.wire = us.wire \/ (us.buf # <<>> /\ b.wire = us.wire \cup {Head(us.buf)})
  BY <1>2, <1>3 DEF UsageShaped, UsageFields
<1>7. \A w \in b.wire : Closed(w, us, h)
  BY <1>1, <1>4, <1>6 DEF UsageSound
<1>8. UsageSound(b, h, c)
  BY <1>1, <1>2, <1>5, <1>6, <1>7, WireKeeps
<1> QED
  BY <1>8, SoundNext DEF b

LEMMA RecordUseKeeps ==
  ASSUME UsageInv, RecordUse
  PROVE  UsageInv'
<1> DEFINE b == us'
           n == us.made + 1
<1>1. PICK h, c : UsageSound(us, h, c)
  BY DEF UsageInv
<1>2. UsageShaped(us) /\ us.made \in Nat /\ us.made < Uses /\ b = [us EXCEPT !.made = n, !.bucket = @ \cup {n}]
  BY <1>1, UsageAssumption DEF UsageSound, UsageTypes, RecordUse
<1> HIDE DEF b
<1>3. /\ UsageShaped(b) /\ b.made = n /\ b.bucket = us.bucket \cup {n}
      /\ b.start = us.start /\ b.buf = us.buf /\ b.tick = us.tick /\ b.wire = us.wire /\ b.pg = us.pg /\ b.mem = us.mem
      /\ b.acked = us.acked /\ b.dropped = us.dropped /\ b.overflowed = us.overflowed /\ b.lost = us.lost
      /\ b.answer = us.answer /\ b.ackedThen = us.ackedThen /\ b.faults = us.faults
  BY <1>2 DEF UsageShaped, UsageFields
<1>4. UsageTypes(b)
  BY <1>1, <1>2, <1>3, UsageAssumption DEF UsageSound, UsageTypes
<1>5. h \in [Starts -> SUBSET (1..us.made)] /\ \A x \in Starts : n \notin h[x] /\ h[x] \subseteq 1..n
  BY <1>1, <1>2 DEF UsageSound, History
<1>6. History(b, h)
  <2>1. h \in [Starts -> SUBSET (1..n)]
    BY <1>5
  <2> QED
    BY <1>1, <1>3, <1>5, <2>1 DEF UsageSound, History
<1>7. BufSound(b, h) /\ RowsSound(b, h) /\ (\A w \in b.wire : Closed(w, b, h)) /\ AnswerSound(b)
  BY <1>1, <1>3 DEF UsageSound, BufSound, RowsSound, Closed, AnswerSound
<1>8. c \in 0..us.made /\ us.bucket = (c + 1)..us.made
  BY <1>1 DEF UsageSound, ClockSound
<1>9. ClockSound(b, c)
  <2>1. c \in 0..n /\ us.bucket \cup {n} = (c + 1)..n
    BY <1>2, <1>8
  <2> QED
    BY <1>1, <1>3, <2>1 DEF UsageSound, ClockSound
<1>10. us.dropped \subseteq 1..us.made
  BY <1>1 DEF UsageSound, UsageTypes
<1>11. DropsSound(b) /\ UsesSound(b, h)
  BY <1>1, <1>2, <1>3, <1>10 DEF UsageSound, DropsSound, UsesSound, Durable
<1>12. UsageSound(b, h, c)
  BY <1>3, <1>4, <1>6, <1>7, <1>9, <1>11 DEF UsageSound
<1> QED
  BY <1>12, SoundNext DEF b

\* post's verdict, field by field.
LEMMA Replied ==
  ASSUME UsageShaped(us), NEW code \in {"ok", "rejected", "timeout", "busy", "error"}
  PROVE  LET r == UsageReply(code)
         IN  /\ UsageShaped(r)
             /\ r.made = us.made /\ r.bucket = us.bucket /\ r.start = us.start /\ r.wire = us.wire /\ r.pg = us.pg
             /\ r.mem = us.mem /\ r.overflowed = us.overflowed /\ r.lost = us.lost /\ r.faults = us.faults
             /\ r.answer = us.answer /\ r.ackedThen = us.ackedThen
             /\ code \in {"timeout", "busy", "error"} =>
                  r.tick = "idle" /\ r.buf = us.buf /\ r.acked = us.acked /\ r.dropped = us.dropped
             /\ code \in {"ok", "rejected"} => r.tick = "posting" /\ r.buf = Tail(us.buf)
             /\ code = "ok" => r.acked = us.acked \cup Head(us.buf).uses /\ r.dropped = us.dropped
             /\ code = "rejected" => r.acked = us.acked /\ r.dropped = us.dropped \cup Head(us.buf).uses
<1> DEFINE t == IF Retryable(code) THEN "idle" ELSE "posting"
           f == IF Retryable(code) THEN us.buf ELSE Tail(us.buf)
           k == IF code = "ok" THEN us.acked \cup Head(us.buf).uses ELSE us.acked
           d == IF code # "ok" /\ ~Retryable(code) THEN us.dropped \cup Head(us.buf).uses ELSE us.dropped
           r == UsageReply(code)
<1>1. r = [us EXCEPT !.tick = t, !.buf = f, !.acked = k, !.dropped = d]
  BY DEF UsageReply
<1>2. /\ code \in {"timeout", "busy", "error"} => t = "idle" /\ f = us.buf /\ k = us.acked /\ d = us.dropped
      /\ code \in {"ok", "rejected"} => t = "posting" /\ f = Tail(us.buf)
      /\ code = "ok" => k = us.acked \cup Head(us.buf).uses /\ d = us.dropped
      /\ code = "rejected" => k = us.acked /\ d = us.dropped \cup Head(us.buf).uses
  BY DEF Retryable
<1> HIDE DEF t, f, k, d, r
<1>3. /\ UsageShaped(r)
      /\ r.made = us.made /\ r.bucket = us.bucket /\ r.start = us.start /\ r.wire = us.wire /\ r.pg = us.pg
      /\ r.mem = us.mem /\ r.overflowed = us.overflowed /\ r.lost = us.lost /\ r.faults = us.faults
      /\ r.answer = us.answer /\ r.ackedThen = us.ackedThen
      /\ r.tick = t /\ r.buf = f /\ r.acked = k /\ r.dropped = d
  BY <1>1 DEF UsageShaped, UsageFields
<1> QED
  BY <1>2, <1>3 DEF r

\* A reply that asks for a retry, or none at all: the window stays in the backlog.
LEMMA RetryKeeps ==
  ASSUME UsageInv,
         GiveUp \/ \E window \in us.wire : IngestFails(window) \/ Throttled(window)
  PROVE  UsageInv'
<1> DEFINE b == us'
<1>1. PICK h, c : UsageSound(us, h, c)
  BY DEF UsageInv
<1>2. UsageShaped(us) /\ us.faults \in Nat /\ us.tick \in {"idle", "posting", "waiting"}
      /\ (us.tick = "waiting" => us.buf # <<>>) /\ \A w \in us.wire : Closed(w, us, h)
  BY <1>1, UsageAssumption DEF UsageSound, UsageTypes
<1>3. PICK a, x : /\ b = [a EXCEPT !.wire = x, !.faults = us.faults + 1] /\ x \subseteq us.wire
                  /\ us.faults < WireFaults
                  /\ a = us \/ \E code \in {"timeout", "busy", "error"} : a = UsageReply(code)
  <2>1. CASE GiveUp
    <3> DEFINE a == UsageReply("timeout")
    <3>1. UsageShaped(a) /\ a.wire = us.wire /\ a.faults = us.faults
      BY <1>2, Replied
    <3>2. b = [a EXCEPT !.faults = us.faults + 1] /\ us.faults < WireFaults
      BY <2>1 DEF GiveUp, Fault, Faulted
    <3> HIDE DEF a, b
    <3>3. b = [a EXCEPT !.wire = us.wire, !.faults = us.faults + 1]
      BY <3>1, <3>2 DEF UsageShaped, UsageFields
    <3> QED
      BY <3>2, <3>3 DEF a
  <2>2. ASSUME NEW window \in us.wire, Throttled(window)
        PROVE  \E a, x : /\ b = [a EXCEPT !.wire = x, !.faults = us.faults + 1] /\ x \subseteq us.wire
                         /\ us.faults < WireFaults
                         /\ a = us \/ \E code \in {"timeout", "busy", "error"} : a = UsageReply(code)
    <3> DEFINE a == UsageReply("busy")
    <3>1. b = [a EXCEPT !.wire = @ \ {window}, !.faults = us.faults + 1] /\ us.faults < WireFaults
      BY <2>2 DEF Throttled, Fault, Faulted
    <3>2. a.wire = us.wire
      BY <1>2, Replied
    <3> QED
      BY <3>1, <3>2
  <2>3. ASSUME NEW window \in us.wire, IngestFails(window)
        PROVE  \E a, x : /\ b = [a EXCEPT !.wire = x, !.faults = us.faults + 1] /\ x \subseteq us.wire
                         /\ us.faults < WireFaults
                         /\ a = us \/ \E code \in {"timeout", "busy", "error"} : a = UsageReply(code)
    <3> DEFINE a == QueryAnswered(window, "error")
    <3>1. a = us \/ a = UsageReply("error")
      BY DEF QueryAnswered
    <3>2. UsageShaped(a) /\ a.wire = us.wire /\ a.faults = us.faults
      BY <1>2, <3>1, Replied
    <3>3. b = [[a EXCEPT !.wire = @ \ {window}, !.mem = @, !.pg = @] EXCEPT !.faults = us.faults + 1] /\ us.faults < WireFaults
      BY <2>3 DEF IngestFails, Ingested, Fault, Faulted
    <3> HIDE DEF a, b
    <3>4. b = [a EXCEPT !.wire = us.wire \ {window}, !.faults = us.faults + 1]
      BY <3>2, <3>3 DEF UsageShaped, UsageFields
    <3>5. us.wire \ {window} \subseteq us.wire /\ (a = us \/ \E code \in {"timeout", "busy", "error"} : a = UsageReply(code))
      BY <3>1
    <3>6. us.faults < WireFaults
      BY <3>3
    <3> QED
      BY <3>4, <3>5, <3>6
  <2> QED
    BY <2>1, <2>2, <2>3
<1>4. /\ UsageShaped(a)
      /\ a.made = us.made /\ a.bucket = us.bucket /\ a.start = us.start /\ a.buf = us.buf /\ a.pg = us.pg /\ a.mem = us.mem
      /\ a.acked = us.acked /\ a.dropped = us.dropped /\ a.overflowed = us.overflowed /\ a.lost = us.lost
      /\ a.answer = us.answer /\ a.ackedThen = us.ackedThen /\ a.tick \in {us.tick, "idle"}
  BY <1>2, <1>3, Replied
<1> HIDE DEF b
<1>5. /\ UsageShaped(b)
      /\ b.made = us.made /\ b.bucket = us.bucket /\ b.start = us.start /\ b.buf = us.buf /\ b.pg = us.pg /\ b.mem = us.mem
      /\ b.acked = us.acked /\ b.dropped = us.dropped /\ b.overflowed = us.overflowed /\ b.lost = us.lost
      /\ b.answer = us.answer /\ b.ackedThen = us.ackedThen /\ b.tick \in {us.tick, "idle"}
      /\ b.wire = x /\ b.faults = us.faults + 1
  BY <1>3, <1>4 DEF UsageShaped, UsageFields
<1>6. /\ b.faults <= WireFaults /\ b.tick \in {"idle", "posting", "waiting"} /\ (b.tick = "waiting" => b.buf # <<>>)
      /\ \A w \in b.wire : Closed(w, us, h)
  BY <1>2, <1>3, <1>5, UsageAssumption
<1>7. UsageSound(b, h, c)
  BY <1>1, <1>5, <1>6, WireKeeps
<1> QED
  BY <1>7, SoundNext DEF b

\* A window leaves the backlog from its head, or the rows change and the backlog does not.
LEMMA PopKeeps ==
  ASSUME NEW a, NEW b, NEW h, NEW c, UsageSound(a, h, c), UsageShaped(b),
         b.made = a.made, b.bucket = a.bucket, b.start = a.start, b.faults = a.faults,
         b.overflowed = a.overflowed, b.lost = a.lost, b.answer = a.answer, b.ackedThen = a.ackedThen,
         b.wire \subseteq a.wire, b.acked \subseteq 1..Uses, b.dropped \subseteq 1..a.made,
         \/ a.buf # <<>> /\ b.buf = Tail(a.buf) /\ b.tick = "posting"
         \/ b.buf = a.buf /\ b.tick = a.tick,
         RowsSound(b, h), DropsSound(b), UsesSound(b, h)
  PROVE  UsageSound(b, h, c)
<1>1. UsageTypes(b)
  BY DEF UsageSound, UsageTypes
<1>2. History(b, h) /\ (\A w \in b.wire : Closed(w, b, h)) /\ AnswerSound(b)
  BY DEF UsageSound, History, Closed, AnswerSound
<1>3. BufSound(b, h)
  <2>1. CASE a.buf # <<>> /\ b.buf = Tail(a.buf)
    <3>1. BufSound(a, h)
      BY DEF UsageSound
    <3>2. /\ Tail(a.buf) \in Seq(Windows) /\ Len(Tail(a.buf)) <= BufferCap
          /\ \A i \in 1..Len(Tail(a.buf)) : Closed(Tail(a.buf)[i], a, h)
          /\ \A i, j \in 1..Len(Tail(a.buf)) : i < j => Tail(a.buf)[i].start < Tail(a.buf)[j].start
      BY <2>1, <3>1, TailSound
    <3> QED
      BY <2>1, <3>2 DEF BufSound, Closed
  <2>2. CASE b.buf = a.buf
    BY <2>2 DEF UsageSound, BufSound, Closed
  <2> QED
    BY <2>1, <2>2
<1>4. ClockSound(b, c)
  BY DEF UsageSound, ClockSound
<1> QED
  BY <1>1, <1>2, <1>3, <1>4 DEF UsageSound

LEMMA RowsAre ==
  ASSUME NEW s, NEW h, RowsSound(s, h)
  PROVE  /\ \A x \in Starts : s.pg[x] = <<>> \/ s.pg[x] = <<h[x]>>
         /\ \A x \in Starts : s.mem[x] = <<>> \/ s.mem[x] = s.pg[x]
         /\ \A x \in Starts : x >= s.start => s.pg[x] = <<>>
<1>1. ASSUME NEW x \in Starts PROVE (s.pg[x] = <<>> \/ s.pg[x] = <<h[x]>>) /\ (s.mem[x] = <<>> \/ s.mem[x] = s.pg[x])
  BY DEF RowsSound
<1>2. ASSUME NEW x \in Starts, x >= s.start PROVE s.pg[x] = <<>>
  BY <1>2 DEF RowsSound
<1> QED
  BY <1>1, <1>2

\* Replacing a window's rows puts back what was there, or adds it; memory follows.
LEMMA Upserted ==
  ASSUME NEW h, UsageShaped(us), RowsSound(us, h), NEW w, Closed(w, us, h), us.start \in Nat
  PROVE  LET p == PgUpsert(us.pg, w)
             m == MemUpsert(us.mem, w)
         IN  /\ DOMAIN p = Starts /\ DOMAIN m = Starts /\ p[w.start] = <<h[w.start]>>
             /\ \A x \in Starts : /\ p[x] = <<>> \/ p[x] = <<h[x]>>
                                  /\ m[x] = <<>> \/ m[x] = p[x]
                                  /\ us.pg[x] = <<h[x]>> => p[x] = <<h[x]>>
                                  /\ x >= us.start => p[x] = <<>>
<1> DEFINE p == PgUpsert(us.pg, w)
           q == [us.mem EXCEPT ![w.start] = <<w.uses>>]
           m == MemUpsert(us.mem, w)
<1>1. w.start \in Starts /\ w.uses = h[w.start]
  BY DEF Closed, Windows
<1>2. /\ DOMAIN p = Starts /\ p[w.start] = <<h[w.start]>> /\ \A x \in Starts \ {w.start} : p[x] = us.pg[x]
      /\ DOMAIN q = Starts /\ q[w.start] = <<h[w.start]>> /\ \A x \in Starts \ {w.start} : q[x] = us.mem[x]
  BY <1>1 DEF UsageShaped, PgUpsert
<1>3. DOMAIN m = Starts /\ \A x \in Starts : m[x] = <<>> \/ m[x] = q[x]
  BY DEF MemUpsert, Kept
<1> HIDE DEF p, q, m
<1>8. /\ \A x \in Starts : us.pg[x] = <<>> \/ us.pg[x] = <<h[x]>>
      /\ \A x \in Starts : us.mem[x] = <<>> \/ us.mem[x] = us.pg[x]
  BY RowsAre
<1>4. \A x \in Starts : p[x] = <<>> \/ p[x] = <<h[x]>>
  BY <1>2, <1>8
<1>5. \A x \in Starts : q[x] = <<>> \/ q[x] = p[x]
  BY <1>2, <1>8
<1>6. \A x \in Starts : us.pg[x] = <<h[x]>> => p[x] = <<h[x]>>
  BY <1>2
<1>7. \A x \in Starts : x >= us.start => p[x] = <<>>
  <2> TAKE x \in Starts
  <2> HAVE x >= us.start
  <2>1. x # w.start
    BY <1>1 DEF Closed, Starts
  <2>2. us.pg[x] = <<>>
    BY RowsAre
  <2> QED
    BY <1>2, <2>1, <2>2
<1> QED
  BY <1>2, <1>3, <1>4, <1>5, <1>6, <1>7 DEF p, m

LEMMA IngestKeeps ==
  ASSUME UsageInv, NEW window \in us.wire, Ingest(window)
  PROVE  UsageInv'
<1> DEFINE b == us'
           a == QueryAnswered(window, "ok")
           p == PgUpsert(us.pg, window)
           m == MemUpsert(us.mem, window)
<1>1. PICK h, c : UsageSound(us, h, c)
  BY DEF UsageInv
<1>2. UsageShaped(us) /\ RowsSound(us, h) /\ Closed(window, us, h) /\ DropsSound(us) /\ UsesSound(us, h) /\ UsageTypes(us)
      /\ BufSound(us, h) /\ History(us, h)
  BY <1>1 DEF UsageSound
<1>3. /\ UsageShaped(a)
      /\ a.made = us.made /\ a.bucket = us.bucket /\ a.start = us.start /\ a.wire = us.wire /\ a.pg = us.pg
      /\ a.mem = us.mem /\ a.overflowed = us.overflowed /\ a.lost = us.lost /\ a.faults = us.faults
      /\ a.answer = us.answer /\ a.ackedThen = us.ackedThen /\ a.dropped = us.dropped
      /\ \/ /\ us.buf # <<>> /\ Head(us.buf) = window /\ a.buf = Tail(us.buf) /\ a.tick = "posting"
            /\ a.acked = us.acked \cup window.uses
         \/ a.buf = us.buf /\ a.tick = us.tick /\ a.acked = us.acked
  <2>1. CASE Waiting(window)
    <3>1. a = UsageReply("ok") /\ Head(us.buf) = window /\ us.buf # <<>>
      BY <1>2, <2>1 DEF QueryAnswered, Waiting, UsageTypes
    <3> QED
      BY <1>2, <3>1, Replied
  <2>2. CASE ~Waiting(window)
    <3>1. a = us
      BY <2>2 DEF QueryAnswered
    <3> QED
      BY <1>2, <3>1
  <2> QED
    BY <2>1, <2>2
<1>4. b = [a EXCEPT !.wire = us.wire \ {window}, !.mem = m, !.pg = p]
  <2>1. b = [a EXCEPT !.wire = @ \ {window}, !.mem = MemUpsert(@, window), !.pg = PgUpsert(@, window)]
    BY DEF Ingest, Ingested
  <2> HIDE DEF a, b
  <2> QED
    BY <1>3, <2>1
<1>5. /\ DOMAIN p = Starts /\ DOMAIN m = Starts /\ p[window.start] = <<h[window.start]>>
      /\ \A x \in Starts : /\ p[x] = <<>> \/ p[x] = <<h[x]>>
                           /\ m[x] = <<>> \/ m[x] = p[x]
                           /\ us.pg[x] = <<h[x]>> => p[x] = <<h[x]>>
                           /\ x >= us.start => p[x] = <<>>
  <2>1. us.start \in Nat
    BY <1>2 DEF UsageTypes
  <2> QED
    BY <1>2, <2>1, Upserted
<1> HIDE DEF a, b, p, m
<1>6. /\ UsageShaped(b)
      /\ b.made = us.made /\ b.bucket = us.bucket /\ b.start = us.start /\ b.wire = us.wire \ {window} /\ b.pg = p
      /\ b.mem = m /\ b.overflowed = us.overflowed /\ b.lost = us.lost /\ b.faults = us.faults
      /\ b.answer = us.answer /\ b.ackedThen = us.ackedThen /\ b.dropped = us.dropped
      /\ b.buf = a.buf /\ b.tick = a.tick /\ b.acked = a.acked
  BY <1>3, <1>4, <1>5 DEF UsageShaped, UsageFields
<1>7. RowsSound(b, h)
  BY <1>5, <1>6 DEF RowsSound
<1>8. /\ window.start \in Starts /\ window.uses = h[window.start] /\ window.uses \subseteq 1..Uses
      /\ \A u \in window.uses : Durable(b, h, u)
      /\ \A u : Durable(us, h, u) => Durable(b, h, u)
  <2>1. window.start \in Starts /\ window.uses = h[window.start] /\ window.uses \subseteq 1..Uses
    BY <1>2 DEF Closed, Windows
  <2> QED
    BY <1>5, <1>6, <2>1 DEF Durable
<1>9. /\ Backlog(b.buf) \subseteq Backlog(us.buf)
      /\ Backlog(us.buf) \subseteq Backlog(b.buf) \cup window.uses
  <2>1. us.buf # <<>> => Backlog(us.buf) = Head(us.buf).uses \cup Backlog(Tail(us.buf))
    BY <1>2, BacklogTail DEF BufSound
  <2> QED
    BY <1>3, <1>6, <2>1
<1>10. DropsSound(b)
  BY <1>2, <1>6, <1>9 DEF DropsSound
<1>11. UsesSound(b, h)
  BY <1>2, <1>3, <1>6, <1>8, <1>9 DEF UsesSound
<1>12. /\ b.acked \subseteq 1..Uses /\ b.dropped \subseteq 1..us.made
       /\ \/ us.buf # <<>> /\ b.buf = Tail(us.buf) /\ b.tick = "posting"
          \/ b.buf = us.buf /\ b.tick = us.tick
  BY <1>2, <1>3, <1>6, <1>8 DEF UsageTypes
<1>13. b.wire \subseteq us.wire
  BY <1>6
<1>14. UsageSound(b, h, c)
  BY <1>1, <1>6, <1>7, <1>10, <1>11, <1>12, <1>13, PopKeeps
<1> QED
  BY <1>14, SoundNext DEF b

\* A refused window is dropped; it held more than the bound, for it is well formed.
LEMMA RefuseKeeps ==
  ASSUME UsageInv, NEW window \in us.wire, Refuse(window)
  PROVE  UsageInv'
<1> DEFINE b == us'
           a == QueryAnswered(window, "rejected")
<1>1. PICK h, c : UsageSound(us, h, c)
  BY DEF UsageInv
<1>2. UsageShaped(us) /\ RowsSound(us, h) /\ Closed(window, us, h) /\ DropsSound(us) /\ UsesSound(us, h) /\ UsageTypes(us)
      /\ BufSound(us, h) /\ History(us, h) /\ window.start \in Starts /\ window.uses = h[window.start]
  BY <1>1 DEF UsageSound, Closed, Windows
<1>3. /\ UsageShaped(a)
      /\ a.made = us.made /\ a.bucket = us.bucket /\ a.start = us.start /\ a.wire = us.wire /\ a.pg = us.pg
      /\ a.mem = us.mem /\ a.overflowed = us.overflowed /\ a.lost = us.lost /\ a.faults = us.faults
      /\ a.answer = us.answer /\ a.ackedThen = us.ackedThen /\ a.acked = us.acked
      /\ \/ /\ us.buf # <<>> /\ Head(us.buf) = window /\ a.buf = Tail(us.buf) /\ a.tick = "posting"
            /\ a.dropped = us.dropped \cup window.uses
         \/ a.buf = us.buf /\ a.tick = us.tick /\ a.dropped = us.dropped
  <2>1. CASE Waiting(window)
    <3>1. a = UsageReply("rejected") /\ Head(us.buf) = window /\ us.buf # <<>>
      BY <1>2, <2>1 DEF QueryAnswered, Waiting, UsageTypes
    <3> QED
      BY <1>2, <3>1, Replied
  <2>2. CASE ~Waiting(window)
    <3>1. a = us
      BY <2>2 DEF QueryAnswered
    <3> QED
      BY <1>2, <3>1
  <2> QED
    BY <2>1, <2>2
<1>4. b = [a EXCEPT !.wire = @ \ {window}] /\ Cardinality(window.uses) > EntryBound
  <2>1. b = [a EXCEPT !.wire = @ \ {window}] /\ ~Validate(window)
    BY DEF Refuse
  <2>2. window.start < window.end /\ IsFiniteSet(window.uses)
    <3>1. window.uses \subseteq 1..Uses /\ IsFiniteSet(1..Uses)
      BY <1>2, FS_Interval, UsageAssumption DEF Closed, Windows
    <3> QED
      BY <1>2, <3>1, FS_Subset DEF Closed
  <2>3. Cardinality(window.uses) \in Nat
    BY <2>2, FS_CardinalityType
  <2> QED
    BY <2>1, <2>2, <2>3, UsageAssumption DEF Validate
<1> HIDE DEF a, b
<1>5. /\ UsageShaped(b)
      /\ b.made = us.made /\ b.bucket = us.bucket /\ b.start = us.start /\ b.wire = us.wire \ {window} /\ b.pg = us.pg
      /\ b.mem = us.mem /\ b.overflowed = us.overflowed /\ b.lost = us.lost /\ b.faults = us.faults
      /\ b.answer = us.answer /\ b.ackedThen = us.ackedThen /\ b.acked = us.acked
      /\ b.buf = a.buf /\ b.tick = a.tick /\ b.dropped = a.dropped
  BY <1>3, <1>4 DEF UsageShaped, UsageFields
<1>6. RowsSound(b, h) /\ (\A u : Durable(us, h, u) <=> Durable(b, h, u)) /\ b.acked \subseteq 1..Uses /\ b.wire \subseteq us.wire
  BY <1>2, <1>5 DEF RowsSound, Durable, UsageTypes
<1>7. CASE b.buf = us.buf /\ b.tick = us.tick /\ b.dropped = us.dropped
  <2>1. DropsSound(b) /\ UsesSound(b, h) /\ b.dropped \subseteq 1..us.made
    BY <1>2, <1>5, <1>6, <1>7 DEF DropsSound, UsesSound, UsageTypes
  <2>2. UsageSound(b, h, c)
    BY <1>1, <1>5, <1>6, <1>7, <2>1, PopKeeps
  <2> QED
    BY <2>2, SoundNext DEF b
<1>8. CASE /\ us.buf # <<>> /\ Head(us.buf) = window /\ b.buf = Tail(us.buf) /\ b.tick = "posting"
           /\ b.dropped = us.dropped \cup window.uses
  <2>1. /\ window.uses \cap Backlog(Tail(us.buf)) = {} /\ window.uses \cap us.bucket = {}
        /\ Backlog(us.buf) = window.uses \cup Backlog(Tail(us.buf))
    BY <1>2, <1>8, HeadApart, BacklogTail DEF BufSound
  <2>2. window.uses \subseteq 1..us.made /\ us.dropped \subseteq 1..us.made
    BY <1>2 DEF History, UsageTypes
  <2>3. window.uses \cap us.overflowed = {}
    BY <1>2, <2>1 DEF DropsSound
  <2>4. Cardinality(b.dropped \ us.overflowed) > EntryBound
    <3> DEFINE x == b.dropped \ us.overflowed
    <3>1. x \subseteq 1..us.made /\ window.uses \subseteq x
      BY <1>8, <2>2, <2>3
    <3>2. IsFiniteSet(1..us.made)
      <4>1. us.made \in Int
        BY <1>2, UsageAssumption DEF UsageTypes
      <4> QED
        BY <4>1, FS_Interval
    <3>3. IsFiniteSet(x)
      BY <3>1, <3>2, FS_Subset
    <3>4. IsFiniteSet(window.uses) /\ Cardinality(window.uses) <= Cardinality(x)
      BY <3>1, <3>3, FS_Subset
    <3>5. Cardinality(x) \in Nat /\ Cardinality(window.uses) \in Nat
      BY <3>3, <3>4, FS_CardinalityType
    <3> QED
      BY <1>4, <3>4, <3>5, UsageAssumption
  <2>5. DropsSound(b)
    BY <1>2, <1>5, <1>8, <2>1, <2>4 DEF DropsSound
  <2>6. UsesSound(b, h)
    BY <1>2, <1>5, <1>6, <1>8, <2>1 DEF UsesSound
  <2>7. b.dropped \subseteq 1..us.made
    BY <1>8, <2>2
  <2>8. UsageSound(b, h, c)
    BY <1>1, <1>5, <1>6, <1>8, <2>5, <2>6, <2>7, PopKeeps
  <2> QED
    BY <2>8, SoundNext DEF b
<1> QED
  BY <1>3, <1>5, <1>7, <1>8

\* The uses a window closes over pay for the instant its successor starts at.
LEMMA UsesPayTheStart ==
  ASSUME NEW e \in Nat, NEW s \in Nat, NEW i \in Nat, NEW c \in Nat, NEW m \in Nat, NEW f \in Nat,
         e <= i \/ e = s + 1, s <= i + c + f, c + 1 <= m
  PROVE  e <= i + m + f
  OBVIOUS

\* The upper part of an interval of numbers lies in it.
LEMMA UpperPart ==
  ASSUME NEW c \in Nat, NEW m \in Nat, NEW n \in Nat, m <= n
  PROVE  (c + 1)..m \subseteq 1..m /\ (c + 1)..m \subseteq 1..n
  OBVIOUS

\* Where the next window starts: later than this one, and no further than the clock or one.
LEMMA NextStartIs ==
  ASSUME NEW now \in 1..Instants, us.start \in Nat \ {0}
  PROVE  LET e == WindowEnd(now)
         IN  e \in Nat /\ us.start < e /\ (e <= Instants \/ e = us.start + 1)
  BY UsageAssumption DEF WindowEnd

\* Making room: what is left of the backlog, and what overflows.
LEMMA MakingRoom ==
  ASSUME NEW h, History(us, h), BufSound(us, h)
  PROVE  LET k == IF Len(us.buf) >= BufferCap THEN Tail(us.buf) ELSE us.buf
             o == Overflow(us.buf)
         IN  /\ k \in Seq(Windows) /\ Len(k) + 1 <= BufferCap
             /\ \A i \in 1..Len(k) : Closed(k[i], us, h)
             /\ \A i, j \in 1..Len(k) : i < j => k[i].start < k[j].start
             /\ Backlog(us.buf) = o \cup Backlog(k) /\ o \cap Backlog(k) = {} /\ o \cap us.bucket = {}
             /\ o \subseteq 1..us.made
<1> DEFINE k == IF Len(us.buf) >= BufferCap THEN Tail(us.buf) ELSE us.buf
           o == Overflow(us.buf)
<1>1. us.buf \in Seq(Windows) /\ Len(us.buf) \in Nat /\ Len(us.buf) <= BufferCap /\ BufferCap \in Nat \ {0}
  BY UsageAssumption DEF BufSound
<1>2. CASE Len(us.buf) >= BufferCap
  <2>1. us.buf # <<>> /\ k = Tail(us.buf) /\ o = Head(us.buf).uses
    BY <1>1, <1>2 DEF Overflow
  <2>2. Head(us.buf).start \in Starts /\ o = h[Head(us.buf).start]
    BY <2>1, HeadApart DEF Closed, Windows
  <2>3. o \subseteq 1..us.made
    BY <2>2 DEF History
  <2>4. o \cap Backlog(k) = {} /\ o \cap us.bucket = {}
    BY <2>1, HeadApart
  <2>5. Backlog(us.buf) = o \cup Backlog(k)
    BY <1>1, <2>1, BacklogTail
  <2>6. /\ k \in Seq(Windows) /\ Len(k) < Len(us.buf)
        /\ \A i \in 1..Len(k) : Closed(k[i], us, h)
        /\ \A i, j \in 1..Len(k) : i < j => k[i].start < k[j].start
    BY <2>1, TailSound
  <2> HIDE DEF k, o
  <2>7. Len(k) + 1 <= BufferCap
    <3>1. Len(k) \in Nat
      BY <2>6
    <3> QED
      BY <1>1, <2>6, <3>1
  <2> QED
    BY <2>3, <2>4, <2>5, <2>6, <2>7 DEF k, o
<1>3. CASE ~(Len(us.buf) >= BufferCap)
  <2>1. k = us.buf /\ o = {} /\ Len(us.buf) + 1 <= BufferCap
    BY <1>1, <1>3 DEF Overflow
  <2> QED
    BY <1>1, <2>1 DEF BufSound
<1> QED
  BY <1>2, <1>3

\* Drain and Tick: the open window is closed with what it holds, and joins the backlog.
LEMMA TickKeeps ==
  ASSUME UsageInv, NEW now \in 1..Instants, Tick(now)
  PROVE  UsageInv'
<1> DEFINE b == us'
           e == WindowEnd(now)
           w == Window(us.start, e, us.bucket)
           k == IF Len(us.buf) >= BufferCap THEN Tail(us.buf) ELSE us.buf
           o == Overflow(us.buf)
<1>1. PICK h, c : UsageSound(us, h, c)
  BY DEF UsageInv
<1> DEFINE g == [h EXCEPT ![us.start] = us.bucket]
<1>2. UsageShaped(us) /\ RowsSound(us, h) /\ DropsSound(us) /\ UsesSound(us, h) /\ UsageTypes(us)
      /\ BufSound(us, h) /\ History(us, h) /\ ClockSound(us, c) /\ AnswerSound(us) /\ \A v \in us.wire : Closed(v, us, h)
  BY <1>1 DEF UsageSound
<1>3. /\ us.tick = "idle" /\ us.bucket # {}
      /\ b = [us EXCEPT !.start = e, !.now = now, !.bucket = {}, !.tick = "posting", !.buf = Append(k, w),
                        !.dropped = @ \cup o, !.overflowed = @ \cup o]
  BY DEF Tick, NextStart, Buffered
<1>4. e \in Nat /\ us.start < e /\ (e <= Instants \/ e = us.start + 1) /\ us.start \in Nat \ {0}
  BY <1>2, NextStartIs DEF UsageTypes
<1>5. /\ k \in Seq(Windows) /\ Len(k) + 1 <= BufferCap
      /\ \A i \in 1..Len(k) : Closed(k[i], us, h)
      /\ \A i, j \in 1..Len(k) : i < j => k[i].start < k[j].start
      /\ Backlog(us.buf) = o \cup Backlog(k) /\ o \cap Backlog(k) = {} /\ o \cap us.bucket = {}
      /\ o \subseteq 1..us.made
  BY <1>2, MakingRoom
<1>6. c \in Nat /\ c + 1 <= us.made /\ us.made \in Nat /\ us.made <= Uses /\ us.bucket = (c + 1)..us.made
      /\ us.faults \in Nat /\ us.faults <= WireFaults /\ us.start <= Instants + c + us.faults
  BY <1>2, <1>3, UsageAssumption DEF UsageTypes, ClockSound
<1>7. us.start \in Starts
  BY <1>4, <1>6, UsageAssumption DEF Starts
<1>8. us.bucket \subseteq 1..us.made /\ us.bucket \subseteq 1..Uses
  <2>1. Uses \in Nat
    BY UsageAssumption
  <2> QED
    BY <1>6, <2>1, UpperPart
<1>9. w \in Windows /\ w.start = us.start /\ w.end = e /\ w.uses = us.bucket
  BY <1>4, <1>7, <1>8 DEF Window, Windows
<1>10. g \in [Starts -> SUBSET (1..us.made)] /\ g[us.start] = us.bucket /\ \A x \in Starts \ {us.start} : g[x] = h[x]
  BY <1>2, <1>7, <1>8 DEF History
<1> DEFINE f == Append(k, w)
<1> HIDE DEF b, e, w, k, o, g
<1>11. /\ f \in Seq(Windows) /\ Len(f) = Len(k) + 1 /\ Len(k) \in Nat
       /\ \A i \in 1..Len(k) : f[i] = k[i]
       /\ f[Len(k) + 1] = w /\ Backlog(f) = Backlog(k) \cup us.bucket
  BY <1>5, <1>9, BacklogAppend
<1> HIDE DEF f
<1>12. /\ UsageShaped(b) /\ b.start = e /\ b.bucket = {} /\ b.tick = "posting" /\ b.buf = f
       /\ b.dropped = us.dropped \cup o /\ b.overflowed = us.overflowed \cup o
       /\ b.made = us.made /\ b.wire = us.wire /\ b.pg = us.pg /\ b.mem = us.mem /\ b.acked = us.acked
       /\ b.lost = us.lost /\ b.answer = us.answer /\ b.ackedThen = us.ackedThen /\ b.faults = us.faults
  BY <1>2, <1>3 DEF UsageShaped, UsageFields, f
<1>13. UsageTypes(b)
  <2>1. f # <<>>
    BY <1>11
  <2>2. us.dropped \cup o \subseteq 1..us.made
    BY <1>2, <1>5 DEF UsageTypes
  <2>3. /\ us.made \in 0..Uses /\ us.faults \in 0..WireFaults /\ us.acked \subseteq 1..Uses /\ us.lost \subseteq 1..Uses
        /\ e \in Nat \ {0}
    BY <1>2, <1>4 DEF UsageTypes
  <2> QED
    BY <1>12, <2>1, <2>2, <2>3 DEF UsageTypes
<1>14. History(b, g)
  <2>1. \A x, y \in Starts : x # y => g[x] \cap g[y] = {}
    BY <1>2, <1>10 DEF History
  <2>2. \A x \in Starts : x >= e => g[x] = {}
    <3> TAKE x \in Starts
    <3> HAVE x >= e
    <3>1. x # us.start /\ x >= us.start
      BY <1>4 DEF Starts
    <3> QED
      BY <1>2, <1>10, <3>1 DEF History
  <2> QED
    BY <1>10, <1>12, <2>1, <2>2 DEF History
<1>15. ASSUME NEW v, Closed(v, us, h) PROVE Closed(v, b, g)
  <2>1. v \in Windows /\ v.start \in Starts /\ v.start < us.start /\ v.uses = h[v.start] /\ v.start < v.end
    BY <1>15 DEF Closed, Windows
  <2>2. v.start # us.start /\ v.start < e
    BY <1>4, <2>1 DEF Starts
  <2> QED
    BY <1>10, <1>12, <2>1, <2>2 DEF Closed
<1>16. Closed(w, b, g)
  BY <1>4, <1>9, <1>10, <1>12 DEF Closed
<1>17. BufSound(b, g)
  <2>1. ASSUME NEW i \in 1..(Len(k) + 1) PROVE Closed(f[i], b, g)
    <3>1. CASE i \in 1..Len(k)
      BY <1>5, <1>11, <1>15, <3>1
    <3>2. CASE i = Len(k) + 1
      BY <1>11, <1>16, <3>2
    <3> QED
      BY <1>11, <3>1, <3>2
  <2>2. ASSUME NEW i \in 1..(Len(k) + 1), NEW j \in 1..(Len(k) + 1), i < j PROVE f[i].start < f[j].start
    <3>1. i \in 1..Len(k) /\ f[i] = k[i]
      BY <1>11, <2>2
    <3>2. CASE j \in 1..Len(k)
      BY <1>5, <1>11, <2>2, <3>1, <3>2
    <3>3. CASE j = Len(k) + 1
      BY <1>5, <1>9, <1>11, <3>1, <3>3 DEF Closed
    <3> QED
      BY <1>11, <3>2, <3>3
  <2> QED
    BY <1>5, <1>11, <1>12, <2>1, <2>2 DEF BufSound
<1>18. \A x \in Starts : us.pg[x] # <<>> => x # us.start /\ g[x] = h[x] /\ us.pg[x] = <<h[x]>>
  <2> TAKE x \in Starts
  <2> HAVE us.pg[x] # <<>>
  <2>1. ~(x >= us.start) /\ us.pg[x] = <<h[x]>>
    BY <1>2, RowsAre
  <2>2. x # us.start
    BY <1>4, <2>1
  <2> QED
    BY <1>10, <2>1, <2>2
<1>19. RowsSound(b, g)
  <2> SUFFICES ASSUME NEW x \in Starts
               PROVE  /\ us.pg[x] = <<>> \/ us.pg[x] = <<g[x]>>
                      /\ us.mem[x] = <<>> \/ us.mem[x] = us.pg[x]
                      /\ x >= e => us.pg[x] = <<>>
    BY <1>12 DEF RowsSound
  <2>1. x >= e => x >= us.start
    BY <1>4 DEF Starts
  <2>2. us.pg[x] = <<>> \/ us.pg[x] = <<g[x]>>
    BY <1>18
  <2>3. us.mem[x] = <<>> \/ us.mem[x] = us.pg[x]
    BY <1>2, RowsAre
  <2>4. x >= us.start => us.pg[x] = <<>>
    BY <1>2, RowsAre
  <2> QED
    BY <2>1, <2>2, <2>3, <2>4
<1>20. \A u : Durable(us, h, u) => Durable(b, g, u)
  <2> SUFFICES ASSUME NEW u, NEW x \in Starts, us.pg[x] = <<h[x]>>, u \in h[x] PROVE Durable(b, g, u)
    BY DEF Durable
  <2>1. us.pg[x] # <<>>
    OBVIOUS
  <2> QED
    BY <1>12, <1>18, <2>1 DEF Durable
<1>21. DropsSound(b)
  <2>1. (us.dropped \cup o) \ (us.overflowed \cup o) = us.dropped \ us.overflowed
    BY <1>2, <1>5 DEF DropsSound
  <2>2. us.dropped \cap Backlog(f) = {} /\ o \cap Backlog(f) = {}
    BY <1>2, <1>5, <1>11 DEF DropsSound
  <2> QED
    BY <1>2, <1>12, <2>1, <2>2 DEF DropsSound
<1>22. UsesSound(b, g)
  BY <1>2, <1>5, <1>11, <1>12, <1>20 DEF UsesSound
<1>23. ClockSound(b, us.made)
  <2>1. us.made \in 0..us.made /\ (us.made + 1)..us.made = {}
    BY <1>6
  <2>2. e <= Instants + us.made + us.faults
    <3>1. Instants \in Nat /\ us.start \in Nat
      BY <1>4, UsageAssumption
    <3> QED
      BY <1>4, <1>6, <3>1, UsesPayTheStart
  <2> QED
    BY <1>12, <2>1, <2>2 DEF ClockSound
<1>24. \A v \in b.wire : Closed(v, b, g)
  BY <1>2, <1>12, <1>15
<1>25. UsageSound(b, g, us.made)
  BY <1>2, <1>12, <1>13, <1>14, <1>17, <1>19, <1>21, <1>22, <1>23, <1>24 DEF UsageSound, AnswerSound
<1> QED
  BY <1>25, SoundNext DEF b

\* A tick with nothing to close: the start moves on, which the backlog's fault has paid for.
LEMMA TickEmptyKeeps ==
  ASSUME UsageInv, NEW now \in 1..Instants, TickEmpty(now), us.buf # <<>>
  PROVE  UsageInv'
<1> DEFINE b == us'
           e == WindowEnd(now)
<1>1. PICK h, c : UsageSound(us, h, c)
  BY DEF UsageInv
<1>2. UsageShaped(us) /\ RowsSound(us, h) /\ DropsSound(us) /\ UsesSound(us, h) /\ UsageTypes(us)
      /\ BufSound(us, h) /\ History(us, h) /\ ClockSound(us, c) /\ AnswerSound(us) /\ \A v \in us.wire : Closed(v, us, h)
  BY <1>1 DEF UsageSound
<1>3. us.tick = "idle" /\ b = [us EXCEPT !.start = e, !.now = now, !.tick = "posting"]
  BY DEF TickEmpty, NextStart
<1>4. e \in Nat /\ us.start < e /\ (e <= Instants \/ e = us.start + 1) /\ us.start \in Nat \ {0}
  BY <1>2, NextStartIs DEF UsageTypes
<1> HIDE DEF b, e
<1>5. /\ UsageShaped(b) /\ b.start = e /\ b.tick = "posting" /\ b.bucket = us.bucket /\ b.buf = us.buf
      /\ b.dropped = us.dropped /\ b.overflowed = us.overflowed
      /\ b.made = us.made /\ b.wire = us.wire /\ b.pg = us.pg /\ b.mem = us.mem /\ b.acked = us.acked
      /\ b.lost = us.lost /\ b.answer = us.answer /\ b.ackedThen = us.ackedThen /\ b.faults = us.faults
  BY <1>2, <1>3 DEF UsageShaped, UsageFields
<1>6. UsageTypes(b)
  BY <1>2, <1>4, <1>5 DEF UsageTypes
<1>7. \A v : Closed(v, us, h) => Closed(v, b, h)
  BY <1>4, <1>5 DEF Closed, Windows, Starts
<1>8. \A x \in Starts : x >= e => x >= us.start
  BY <1>4 DEF Starts
<1>9. History(b, h)
  BY <1>2, <1>5, <1>8 DEF History
<1>10. RowsSound(b, h)
  BY <1>2, <1>5, <1>8 DEF RowsSound
<1>11. BufSound(b, h) /\ \A v \in b.wire : Closed(v, b, h)
  BY <1>2, <1>5, <1>7 DEF BufSound
<1>12. DropsSound(b) /\ UsesSound(b, h) /\ AnswerSound(b)
  BY <1>2, <1>5 DEF DropsSound, UsesSound, Durable, AnswerSound
<1>13. ClockSound(b, c)
  <2>1. c \in Nat /\ us.faults \in Nat /\ us.start + 1 <= Instants + c + us.faults
    BY <1>2, <1>3, UsageAssumption DEF ClockSound, UsageTypes
  <2>2. e <= Instants + c + us.faults
    BY <1>4, <2>1, UsageAssumption
  <2> QED
    BY <1>2, <1>5, <2>2 DEF ClockSound
<1>14. UsageSound(b, h, c)
  BY <1>5, <1>6, <1>9, <1>10, <1>11, <1>12, <1>13 DEF UsageSound
<1> QED
  BY <1>14, SoundNext DEF b

\* The data plane restarts: what it had not sent is lost, and known to be.
LEMMA RestartDataPlaneKeeps ==
  ASSUME UsageInv, RestartDataPlane
  PROVE  UsageInv'
<1> DEFINE b == us'
           l == us.lost \cup us.bucket \cup Backlog(us.buf)
<1>1. PICK h, c : UsageSound(us, h, c)
  BY DEF UsageInv
<1>2. UsageShaped(us) /\ RowsSound(us, h) /\ DropsSound(us) /\ UsesSound(us, h) /\ UsageTypes(us)
      /\ BufSound(us, h) /\ History(us, h) /\ ClockSound(us, c) /\ AnswerSound(us) /\ \A v \in us.wire : Closed(v, us, h)
  BY <1>1 DEF UsageSound
<1>3. /\ us.faults < WireFaults
      /\ b = [us EXCEPT !.faults = us.faults + 1, !.tick = "idle", !.bucket = {}, !.buf = <<>>,
                        !.start = us.start + 1, !.lost = l]
  BY DEF RestartDataPlane, Fault, Faulted
<1>4. /\ us.start \in Nat \ {0} /\ us.made \in Nat /\ us.made <= Uses /\ us.faults \in Nat /\ c \in Nat /\ c <= us.made
      /\ us.start <= Instants + c + us.faults
  BY <1>2, UsageAssumption DEF UsageTypes, ClockSound
<1>5. l \subseteq 1..Uses
  <2>1. us.lost \subseteq 1..Uses /\ us.bucket \subseteq 1..Uses
    BY <1>2, <1>4, UsageAssumption DEF UsageTypes, ClockSound
  <2>2. Backlog(us.buf) \subseteq 1..Uses
    <3>1. us.buf \in Seq(Windows) /\ DOMAIN us.buf = 1..Len(us.buf)
      BY <1>2 DEF BufSound
    <3>2. \A i \in 1..Len(us.buf) : us.buf[i].uses \subseteq 1..Uses
      <4>1. \A i \in 1..Len(us.buf) : us.buf[i] \in Windows
        BY <3>1
      <4> QED
        BY <4>1 DEF Windows
    <3> QED
      BY <3>1, <3>2 DEF Backlog
  <2> QED
    BY <2>1, <2>2
<1> HIDE DEF b
<1>6. /\ UsageShaped(b) /\ b.start = us.start + 1 /\ b.tick = "idle" /\ b.bucket = {} /\ b.buf = <<>> /\ b.lost = l
      /\ b.dropped = us.dropped /\ b.overflowed = us.overflowed
      /\ b.made = us.made /\ b.wire = us.wire /\ b.pg = us.pg /\ b.mem = us.mem /\ b.acked = us.acked
      /\ b.answer = us.answer /\ b.ackedThen = us.ackedThen /\ b.faults = us.faults + 1
  BY <1>2, <1>3 DEF UsageShaped, UsageFields
<1>7. UsageTypes(b)
  <2>1. us.faults + 1 \in 0..WireFaults /\ us.start + 1 \in Nat \ {0}
    BY <1>3, <1>4, UsageAssumption
  <2> HIDE DEF l
  <2> QED
    BY <1>2, <1>5, <1>6, <2>1 DEF UsageTypes
<1>8. \A v : Closed(v, us, h) => Closed(v, b, h)
  BY <1>4, <1>6 DEF Closed, Windows, Starts
<1>9. \A x \in Starts : x >= us.start + 1 => x >= us.start
  BY <1>4 DEF Starts
<1>10. History(b, h)
  BY <1>2, <1>6, <1>9 DEF History
<1>11. RowsSound(b, h)
  BY <1>2, <1>6, <1>9 DEF RowsSound
<1>12. BufSound(b, h) /\ \A v \in b.wire : Closed(v, b, h)
  <2>1. <<>> \in Seq(Windows) /\ Len(<<>>) = 0 /\ 1..0 = {}
    OBVIOUS
  <2> QED
    BY <1>2, <1>6, <1>8, <2>1, UsageAssumption DEF BufSound
<1>13. DropsSound(b)
  BY <1>2, <1>6, BacklogEmpty DEF DropsSound
<1>14. UsesSound(b, h) /\ AnswerSound(b)
  BY <1>2, <1>6, BacklogEmpty DEF UsesSound, Durable, AnswerSound
<1>15. ClockSound(b, us.made)
  <2>1. us.made \in 0..us.made /\ (us.made + 1)..us.made = {} /\ us.start + 1 <= Instants + us.made + (us.faults + 1)
    BY <1>4, UsageAssumption
  <2> QED
    BY <1>6, <2>1 DEF ClockSound
<1>16. UsageSound(b, h, us.made)
  BY <1>6, <1>7, <1>10, <1>11, <1>12, <1>13, <1>14, <1>15 DEF UsageSound
<1> QED
  BY <1>16, SoundNext DEF b

\* The control plane restarts and forgets its memory, or somebody asks it.
LEMMA ControlPlaneKeeps ==
  ASSUME UsageInv, RestartControlPlane \/ \E pgUp \in BOOLEAN : Ask(pgUp)
  PROVE  UsageInv'
<1> DEFINE b == us'
<1>1. PICK h, c : UsageSound(us, h, c)
  BY DEF UsageInv
<1>2. UsageShaped(us) /\ RowsSound(us, h) /\ DropsSound(us) /\ UsesSound(us, h) /\ UsageTypes(us)
      /\ BufSound(us, h) /\ History(us, h) /\ ClockSound(us, c) /\ AnswerSound(us) /\ \A v \in us.wire : Closed(v, us, h)
  BY <1>1 DEF UsageSound
<1>3. CASE RestartControlPlane
  <2> DEFINE m == [s \in Starts |-> <<>>]
  <2>1. us.faults < WireFaults /\ b = [us EXCEPT !.faults = us.faults + 1, !.mem = m]
    BY <1>3 DEF RestartControlPlane, Fault, Faulted
  <2>2. DOMAIN m = Starts /\ \A x \in Starts : m[x] = <<>>
    OBVIOUS
  <2> HIDE DEF b, m
  <2>3. /\ UsageShaped(b) /\ b.start = us.start /\ b.tick = us.tick /\ b.bucket = us.bucket /\ b.buf = us.buf
        /\ b.lost = us.lost /\ b.dropped = us.dropped /\ b.overflowed = us.overflowed
        /\ b.made = us.made /\ b.wire = us.wire /\ b.pg = us.pg /\ b.mem = m /\ b.acked = us.acked
        /\ b.answer = us.answer /\ b.ackedThen = us.ackedThen /\ b.faults = us.faults + 1
    BY <1>2, <2>1, <2>2 DEF UsageShaped, UsageFields
  <2>4. UsageTypes(b)
    BY <1>2, <2>1, <2>3, UsageAssumption DEF UsageTypes
  <2>5. History(b, h) /\ (\A v \in b.wire : Closed(v, b, h)) /\ BufSound(b, h)
    BY <1>2, <2>3 DEF History, Closed, BufSound
  <2>6. RowsSound(b, h)
    BY <1>2, <2>2, <2>3 DEF RowsSound
  <2>7. DropsSound(b) /\ UsesSound(b, h) /\ AnswerSound(b)
    BY <1>2, <2>3 DEF DropsSound, UsesSound, Durable, AnswerSound
  <2>8. ClockSound(b, c)
    BY <1>2, <2>3, UsageAssumption DEF ClockSound, UsageTypes
  <2>9. UsageSound(b, h, c)
    BY <2>3, <2>4, <2>5, <2>6, <2>7, <2>8 DEF UsageSound
  <2> QED
    BY <2>9, SoundNext DEF b
<1>4. ASSUME NEW pgUp \in BOOLEAN, Ask(pgUp) PROVE UsageInv'
  <2> DEFINE q == Query(pgUp)
  <2>1. b = [us EXCEPT !.asked = 1, !.answer = q, !.ackedThen = us.acked]
    BY <1>4 DEF Ask
  <2>2. q.degraded \/ us.acked \subseteq q.uses
    <3>1. CASE pgUp
      <4>1. q.uses = UsesOf(us.pg)
        BY <3>1 DEF Query
      <4>2. \A u \in us.acked : \E x \in Starts : us.pg[x] = <<h[x]>> /\ u \in h[x]
        BY <1>2 DEF UsesSound, Durable
      <4>3. \A x \in Starts : us.pg[x] = <<>> \/ us.pg[x] = <<h[x]>>
        BY <1>2, RowsAre
      <4>4. \A u : u \in UsesOf(us.pg) <=> \E x \in Starts : us.pg[x] = <<h[x]>> /\ u \in h[x]
        BY <4>3, RowUses
      <4> HIDE DEF q
      <4> QED
        BY <4>1, <4>2, <4>4
    <3>2. CASE ~pgUp
      BY <3>2 DEF Query
    <3> QED
      BY <3>1, <3>2
  <2> HIDE DEF b, q
  <2>3. /\ UsageShaped(b) /\ b.start = us.start /\ b.tick = us.tick /\ b.bucket = us.bucket /\ b.buf = us.buf
        /\ b.lost = us.lost /\ b.dropped = us.dropped /\ b.overflowed = us.overflowed
        /\ b.made = us.made /\ b.wire = us.wire /\ b.pg = us.pg /\ b.mem = us.mem /\ b.acked = us.acked
        /\ b.answer = q /\ b.ackedThen = us.acked /\ b.faults = us.faults
    BY <1>2, <2>1 DEF UsageShaped, UsageFields
  <2>4. UsageTypes(b) /\ ClockSound(b, c)
    BY <1>2, <2>3 DEF UsageTypes, ClockSound
  <2>5. History(b, h) /\ (\A v \in b.wire : Closed(v, b, h)) /\ BufSound(b, h)
    BY <1>2, <2>3 DEF History, Closed, BufSound
  <2>6. RowsSound(b, h)
    BY <1>2, <2>3 DEF RowsSound
  <2>7. DropsSound(b) /\ UsesSound(b, h)
    BY <1>2, <2>3 DEF DropsSound, UsesSound, Durable
  <2>8. AnswerSound(b)
    BY <2>2, <2>3 DEF AnswerSound
  <2>9. UsageSound(b, h, c)
    BY <2>3, <2>4, <2>5, <2>6, <2>7, <2>8 DEF UsageSound
  <2> QED
    BY <2>9, SoundNext DEF b
<1> QED
  BY <1>3, <1>4

LEMMA UsageSteps ==
  ASSUME UsageInv, [NextUsage]_us
  PROVE  UsageInv'
<1>1. CASE UNCHANGED us
  <2>1. PICK h, c : UsageSound(us, h, c)
    BY DEF UsageInv
  <2>2. UsageSound(us', h, c)
    BY <1>1, <2>1
  <2> QED
    BY <2>2, SoundNext
<1>2. CASE RecordUse
  BY <1>2, RecordUseKeeps
<1>3. CASE Post \/ FlushDone
  BY <1>3, PostKeeps
<1>4. CASE GiveUp \/ \E window \in us.wire : IngestFails(window) \/ Throttled(window)
  BY <1>4, RetryKeeps
<1>5. ASSUME NEW window \in us.wire, Ingest(window) PROVE UsageInv'
  BY <1>5, IngestKeeps
<1>6. ASSUME NEW window \in us.wire, Refuse(window) PROVE UsageInv'
  BY <1>6, RefuseKeeps
<1>7. ASSUME NEW now \in 1..Instants, Tick(now) PROVE UsageInv'
  BY <1>7, TickKeeps
<1>8. ASSUME NEW now \in 1..Instants, TickEmpty(now), us.buf # <<>> PROVE UsageInv'
  BY <1>8, TickEmptyKeeps
<1>9. CASE RestartDataPlane
  BY <1>9, RestartDataPlaneKeeps
<1>10. CASE RestartControlPlane \/ \E pgUp \in BOOLEAN : Ask(pgUp)
  BY <1>10, ControlPlaneKeeps
<1> QED
  BY <1>1, <1>2, <1>3, <1>4, <1>5, <1>6, <1>7, <1>8, <1>9, <1>10 DEF NextUsage

\* The invariant gives what the runs check.
LEMMA UsageStates == UsageInv => UsageKept
<1> SUFFICES ASSUME UsageInv PROVE UsageKept
  OBVIOUS
<1>1. PICK h, c : UsageSound(us, h, c)
  BY DEF UsageInv
<1>2. RowsSound(us, h) /\ DropsSound(us) /\ UsesSound(us, h) /\ UsageTypes(us)
      /\ BufSound(us, h) /\ History(us, h) /\ ClockSound(us, c) /\ AnswerSound(us)
  BY <1>1 DEF UsageSound
<1>3. /\ \A x \in Starts : us.pg[x] = <<>> \/ us.pg[x] = <<h[x]>>
      /\ \A x \in Starts : us.mem[x] = <<>> \/ us.mem[x] = us.pg[x]
  BY <1>2, RowsAre
<1>4. UsageTypeOK
  <2>1. us.start \in Starts
    BY <1>2, UsageAssumption DEF UsageTypes, ClockSound, Starts
  <2>2. DOMAIN us.buf = 1..Len(us.buf) /\ \A i \in 1..Len(us.buf) : us.buf[i].start < us.buf[i].end
    BY <1>2 DEF BufSound, Closed
  <2>3. us.dropped \subseteq 1..Uses
    BY <1>2, UsageAssumption DEF UsageTypes
  <2> QED
    BY <1>2, <2>1, <2>2, <2>3 DEF UsageTypeOK, BufSound, UsageTypes
<1>5. CountedOnce
  <2> SUFFICES ASSUME NEW x \in Starts, NEW y \in Starts, NEW i \in DOMAIN us.pg[x], NEW j \in DOMAIN us.pg[y],
                      us.pg[x][i] \cap us.pg[y][j] # {}
               PROVE  x = y /\ i = j
    BY DEF CountedOnce
  <2>1. us.pg[x] = <<h[x]>> /\ us.pg[y] = <<h[y]>>
    BY <1>3
  <2>2. i = 1 /\ j = 1 /\ us.pg[x][i] = h[x] /\ us.pg[y][j] = h[y]
    BY <2>1
  <2> QED
    BY <1>2, <2>2 DEF History
<1>6. UsageAccounted
  <2>1. \A u : Durable(us, h, u) => u \in UsesOf(us.pg)
    BY <1>3, RowUses DEF Durable
  <2> QED
    BY <1>2, <2>1 DEF UsageAccounted, UsesSound
<1>7. MemoryBehind
  <2>1. \A x \in Starts : us.mem[x] = <<>> \/ us.mem[x] = <<h[x]>>
    BY <1>3
  <2>2. \A u : u \in UsesOf(us.mem) <=> \E x \in Starts : us.mem[x] = <<h[x]>> /\ u \in h[x]
    BY <2>1, RowUses
  <2>3. \A u : u \in UsesOf(us.pg) <=> \E x \in Starts : us.pg[x] = <<h[x]>> /\ u \in h[x]
    BY <1>3, RowUses
  <2>4. \A x \in Starts : us.mem[x] = <<h[x]>> => us.pg[x] = <<h[x]>>
    BY <1>3
  <2> QED
    BY <2>2, <2>3, <2>4 DEF MemoryBehind
<1>8. OutagesDropNothing /\ AnswersAreHonest
  BY <1>2 DEF OutagesDropNothing, AnswersAreHonest, DropsSound, AnswerSound
<1> QED
  BY <1>4, <1>5, <1>6, <1>7, <1>8 DEF UsageKept

(* Usage is counted once or known to be lost: for any number of requests, windows, lost    *)
(* and late replies, outages, clock steps and restarts of either side, no use is in two    *)
(* durable rows, none vanishes unaccounted, an outage drops nothing, memory never shows    *)
(* what PostgreSQL does not hold and an answer not marked degraded holds all that was      *)
(* acknowledged (Drain, Tick, post, handleIngest, Upsert, Query).                          *)
THEOREM UsageIsCountedOnce == UsageSpec => []UsageKept
<1>1. InitUsage => UsageInv
  BY UsageStarts
<1>2. UsageInv /\ [NextUsage]_us => UsageInv'
  BY UsageSteps
<1>3. UsageInv => UsageKept
  BY UsageStates
<1> QED
  BY <1>1, <1>2, <1>3, PTL DEF UsageSpec

-----------------------------------------------------------------------------
(* The export pipeline *)

PipeFields == {"limit", "edits", "at", "counts", "queued", "ch", "batch", "exporting", "returns", "attempt", "carried",
               "stage", "stopped", "racing", "cancelled"}
PipeShaped(s) == DOMAIN s = PipeFields /\ DOMAIN s.at = Items /\ DOMAIN s.counts = Items

Underway == {"emitted", "over", "reserved", "queued", "batched"}

\* An item is new, under way or counted; what is under way is of a declared signal.
ItemsSound(s) ==
  \A i \in Items : /\ s.at[i] \in {"new"} \cup Underway \cup SendOutcomes
                   /\ s.counts[i] = IF s.at[i] \in SendOutcomes THEN 1 ELSE 0
                   /\ s.at[i] \in Underway => SignalOf[i] \in Ceiling.signals

\* A sequence holds exactly the items of a set, each once.
Holds(seq, set) ==
  /\ seq \in Seq(Items) /\ Range(seq) = set
  /\ \A k, l \in 1..Len(seq) : seq[k] = seq[l] => k = l

At(s, stage) == {i \in Items : s.at[i] = stage}
QueueSound(s) ==
  /\ Holds(s.ch, At(s, "queued")) /\ Len(s.ch) <= QueueItems
  /\ s.exporting \subseteq At(s, "batched") /\ Holds(s.batch, At(s, "batched") \ s.exporting)
  /\ Len(s.batch) <= BatchItems /\ (SizesIn(Range(s.batch)) <= BatchBytes \/ Len(s.batch) <= 1)

\* Where the loop is decides what it holds.
PhaseSound(s) ==
  /\ s.stage \in {"run", "attempting", "returning", "done"} /\ s.attempt \in 0..Retries
  /\ s.stage # "run" => s.batch = <<>>
  /\ s.stage # "attempting" => s.exporting = {}
  /\ s.returns \in Nat /\ (s.stage \in {"run", "done"} => s.returns = 0) /\ SizesIn(s.exporting) <= s.returns
  /\ s.stopped => At(s, "over") \cup At(s, "reserved") \subseteq s.racing
  /\ s.stage = "done" => s.stopped /\ Range(s.ch) \subseteq s.racing
  /\ \A i \in s.exporting : SignalOf[i] \in s.carried

\* The reserved bytes are those of the items on their way to the loop and in its batch,
\* and those the loop is about to return.
InQueue(s) == At(s, "over") \cup At(s, "reserved") \cup At(s, "queued") \cup (At(s, "batched") \ s.exporting)
BytesSound(s) ==
  s.queued = SizesIn(InQueue(s)) + s.returns /\ s.queued <= QueueBytes + SizesIn(At(s, "over"))

PipeSound(s) == PipeShaped(s) /\ ItemsSound(s) /\ QueueSound(s) /\ PhaseSound(s) /\ BytesSound(s)
PipeInv == PipeSound(ep)

-----------------------------------------------------------------------------
(* Sums of sizes *)

LEMMA SizesApart ==
  ASSUME NEW S \in SUBSET Items, NEW T \in SUBSET Items, S \cap T = {}
  PROVE  SizesIn(S \cup T) = SizesIn(S) + SizesIn(T) /\ SizesIn(S) \in Nat /\ SizesIn(T) \in Nat
<1> DEFINE f == [i \in Items |-> IF i \in S THEN SizeOf[i] ELSE 0]
           g == [i \in Items |-> IF i \in T THEN SizeOf[i] ELSE 0]
           h == [i \in Items |-> IF i \in S \cup T THEN SizeOf[i] ELSE 0]
<1>1. IsFiniteSet(Items) /\ f \in [Items -> Nat] /\ g \in [Items -> Nat] /\ h \in [Items -> Nat]
  BY PipelineAssumption
<1>2. \A i \in Items : h[i] = f[i] + g[i]
  <2> TAKE i \in Items
  <2>1. SizeOf[i] \in Nat
    BY PipelineAssumption
  <2>2. CASE i \in S
    BY <2>1, <2>2
  <2>3. CASE i \notin S
    BY <2>1, <2>3
  <2> QED
    BY <2>2, <2>3
<1> HIDE DEF f, g, h
<1>3. Total(h) = Total(f) + Total(g)
  BY <1>1, <1>2, TotalOfSum
<1>4. Total(f) \in Nat /\ Total(g) \in Nat
  BY <1>1, UnitsFinite
<1> QED
  BY <1>3, <1>4 DEF SizesIn, f, g, h

LEMMA SizesOfOne ==
  ASSUME NEW i \in Items
  PROVE  SizesIn({i}) = SizeOf[i] /\ SizeOf[i] \in Nat
<1> DEFINE f == [j \in Items |-> IF j \in {i} THEN SizeOf[j] ELSE 0]
           z == [j \in Items |-> 0]
<1>1. IsFiniteSet(Items) /\ f \in [Items -> Nat] /\ z \in [Items -> Nat] /\ f[i] = SizeOf[i] /\ SizeOf[i] \in Nat
      /\ z[i] = 0 /\ \A j \in Items \ {i} : f[j] = z[j]
  BY PipelineAssumption
<1>2. \A j \in Items : z[j] = 0
  OBVIOUS
<1> HIDE DEF f, z
<1>3. Total(z) = 0
  BY <1>1, <1>2, TotalOfZero
<1>4. Total(f) = Total(z) - z[i] + f[i]
  BY <1>1, TotalChangeOne
<1> QED
  BY <1>1, <1>3, <1>4 DEF SizesIn, f

LEMMA SizesOfNone == SizesIn({}) = 0
<1> DEFINE z == [j \in Items |-> IF j \in {} THEN SizeOf[j] ELSE 0]
<1>1. z \in [Items -> Nat] /\ \A j \in Items : z[j] = 0
  OBVIOUS
<1> HIDE DEF z
<1>2. Total(z) = 0
  BY <1>1, TotalOfZero
<1> QED
  BY <1>2 DEF SizesIn, z

LEMMA SizesPlus ==
  ASSUME NEW S \in SUBSET Items, NEW i \in Items, i \notin S
  PROVE  SizesIn(S \cup {i}) = SizesIn(S) + SizeOf[i] /\ SizesIn(S) \in Nat /\ SizeOf[i] \in Nat
<1>1. {i} \in SUBSET Items /\ S \cap {i} = {}
  OBVIOUS
<1> QED
  BY <1>1, SizesApart, SizesOfOne

LEMMA SizesMinus ==
  ASSUME NEW S \in SUBSET Items, NEW i \in S
  PROVE  SizesIn(S) = SizesIn(S \ {i}) + SizeOf[i] /\ SizesIn(S \ {i}) \in Nat /\ SizeOf[i] \in Nat
<1>1. S \ {i} \in SUBSET Items /\ i \notin S \ {i} /\ i \in Items /\ (S \ {i}) \cup {i} = S
  OBVIOUS
<1>2. SizesIn((S \ {i}) \cup {i}) = SizesIn(S \ {i}) + SizeOf[i] /\ SizesIn(S \ {i}) \in Nat /\ SizeOf[i] \in Nat
  BY <1>1, SizesPlus
<1> QED
  BY <1>1, <1>2

LEMMA SizesWithin ==
  ASSUME NEW S \in SUBSET Items, NEW T \in SUBSET S
  PROVE  SizesIn(S) = SizesIn(T) + SizesIn(S \ T) /\ SizesIn(T) \in Nat /\ SizesIn(S \ T) \in Nat
<1>1. T \in SUBSET Items /\ S \ T \in SUBSET Items /\ T \cap (S \ T) = {} /\ T \cup (S \ T) = S
  OBVIOUS
<1>2. SizesIn(T \cup (S \ T)) = SizesIn(T) + SizesIn(S \ T) /\ SizesIn(T) \in Nat /\ SizesIn(S \ T) \in Nat
  BY <1>1, SizesApart
<1> QED
  BY <1>1, <1>2

-----------------------------------------------------------------------------
(* Sequences that hold a set *)

LEMMA HoldsAppend ==
  ASSUME NEW seq, NEW set, Holds(seq, set), NEW i \in Items, i \notin set
  PROVE  Holds(Append(seq, i), set \cup {i}) /\ Len(Append(seq, i)) = Len(seq) + 1 /\ Len(seq) \in Nat
<1> DEFINE n == Len(seq)
           d == Append(seq, i)
<1>1. /\ seq \in Seq(Items) /\ n \in Nat /\ d \in Seq(Items) /\ Len(d) = n + 1 /\ d[n + 1] = i
      /\ \A k \in 1..n : d[k] = seq[k]
  BY DEF Holds
<1>2. DOMAIN seq = 1..n /\ DOMAIN d = 1..(n + 1)
  BY <1>1
<1> HIDE DEF n, d
<1>3. Range(d) = Range(seq) \cup {i}
  <2>1. ASSUME NEW j \in Range(d) PROVE j \in Range(seq) \cup {i}
    BY <1>1, <1>2, <2>1 DEF Range
  <2>2. ASSUME NEW j \in Range(seq) PROVE j \in Range(d)
    BY <1>1, <1>2, <2>2 DEF Range
  <2>3. i \in Range(d)
    BY <1>1, <1>2 DEF Range
  <2> QED
    BY <2>1, <2>2, <2>3
<1>4. ASSUME NEW k \in 1..(n + 1), NEW l \in 1..(n + 1), d[k] = d[l] PROVE k = l
  <2>1. \A m \in 1..n : seq[m] # i
    BY <1>2 DEF Holds, Range
  <2>2. CASE k \in 1..n /\ l \in 1..n
    BY <1>1, <1>4, <2>2 DEF Holds, n
  <2>3. CASE k = n + 1 /\ l \in 1..n
    BY <1>1, <1>4, <2>1, <2>3
  <2>4. CASE l = n + 1 /\ k \in 1..n
    BY <1>1, <1>4, <2>1, <2>4
  <2> QED
    BY <1>1, <2>2, <2>3, <2>4
<1> QED
  BY <1>1, <1>3, <1>4 DEF Holds, n, d

LEMMA HoldsTail ==
  ASSUME NEW seq, NEW set, Holds(seq, set), seq # <<>>
  PROVE  /\ Head(seq) \in set /\ Head(seq) \in Items /\ Holds(Tail(seq), set \ {Head(seq)})
         /\ Len(Tail(seq)) = Len(seq) - 1 /\ Len(seq) \in Nat
<1> DEFINE n == Len(seq)
           t == Tail(seq)
           i == Head(seq)
<1>1. /\ seq \in Seq(Items) /\ n \in Nat \ {0} /\ t \in Seq(Items) /\ Len(t) = n - 1 /\ i = seq[1]
      /\ \A k \in 1..(n - 1) : t[k] = seq[k + 1]
  BY DEF Holds
<1>2. DOMAIN seq = 1..n /\ DOMAIN t = 1..(n - 1) /\ i \in Items
  BY <1>1
<1> HIDE DEF n, t, i
<1>3. \A k, l \in 1..n : seq[k] = seq[l] => k = l
  BY DEF Holds, n
<1>4. Range(t) = Range(seq) \ {i}
  <2>1. ASSUME NEW j \in Range(t) PROVE j \in Range(seq) \ {i}
    <3>1. PICK k \in 1..(n - 1) : j = seq[k + 1]
      BY <1>1, <1>2, <2>1 DEF Range
    <3>2. k + 1 \in 1..n /\ k + 1 # 1 /\ 1 \in 1..n
      BY <1>1
    <3> QED
      BY <1>1, <1>2, <1>3, <3>1, <3>2 DEF Range
  <2>2. ASSUME NEW j \in Range(seq) \ {i} PROVE j \in Range(t)
    <3>1. PICK k \in 1..n : j = seq[k]
      BY <1>2, <2>2 DEF Range
    <3>2. k # 1
      BY <1>1, <2>2, <3>1
    <3>3. k - 1 \in 1..(n - 1) /\ t[k - 1] = seq[k]
      BY <1>1, <3>2
    <3> QED
      BY <1>2, <3>1, <3>3 DEF Range
  <2> QED
    BY <2>1, <2>2
<1>5. ASSUME NEW k \in 1..(n - 1), NEW l \in 1..(n - 1), t[k] = t[l] PROVE k = l
  <2>1. k + 1 \in 1..n /\ l + 1 \in 1..n /\ seq[k + 1] = seq[l + 1]
    BY <1>1, <1>5
  <2>2. k + 1 = l + 1
    BY <1>3, <2>1
  <2> QED
    BY <2>2
<1>6. i \in Range(seq)
  BY <1>1, <1>2 DEF Range
<1> QED
  BY <1>1, <1>2, <1>4, <1>5, <1>6 DEF Holds, n, t, i

LEMMA HoldsNone == Holds(<<>>, {})
  BY DEF Holds, Range

-----------------------------------------------------------------------------
(* The steps *)

LEMMA PipeStarts == InitPipeline => PipeInv
<1> SUFFICES ASSUME InitPipeline PROVE PipeSound(ep)
  BY DEF PipeInv
<1>1. PipeShaped(ep)
  BY DEF InitPipeline, PipeShaped, PipeFields
<1>2. /\ ep.queued = 0 /\ ep.ch = <<>> /\ ep.batch = <<>> /\ ep.exporting = {} /\ ep.returns = 0 /\ ep.attempt = 0
      /\ ep.stage = "run" /\ \A i \in Items : ep.at[i] = "new" /\ ep.counts[i] = 0
  BY DEF InitPipeline
<1>3. ep.stopped = FALSE
  BY DEF InitPipeline
<1>4. \A t \in Underway : At(ep, t) = {}
  BY <1>2 DEF At, Underway
<1>5. ItemsSound(ep)
  BY <1>2 DEF ItemsSound, Underway, SendOutcomes
<1>6. QueueSound(ep)
  <2>1. Len(<<>>) = 0
    OBVIOUS
  <2> QED
    <3>1. At(ep, "queued") = {} /\ At(ep, "batched") \ ep.exporting = {}
      BY <1>4 DEF Underway
    <3>2. Holds(ep.ch, At(ep, "queued")) /\ Holds(ep.batch, At(ep, "batched") \ ep.exporting)
      BY <1>2, <3>1, HoldsNone
    <3>3. Len(ep.ch) <= QueueItems /\ Len(ep.batch) <= BatchItems /\ Len(ep.batch) <= 1
      BY <1>2, <2>1, PipelineAssumption
    <3> QED
      BY <1>2, <3>2, <3>3 DEF QueueSound
<1>7. PhaseSound(ep)
  BY <1>2, <1>3, SizesOfNone, PipelineAssumption DEF PhaseSound
<1>8. BytesSound(ep)
  <2>1. InQueue(ep) = {}
    BY <1>4 DEF InQueue, Underway
  <2> QED
    <3>1. At(ep, "over") = {}
      BY <1>4 DEF Underway
    <3>2. SizesIn(InQueue(ep)) = 0 /\ SizesIn(At(ep, "over")) = 0
      BY <2>1, <3>1, SizesOfNone
    <3> QED
      BY <1>2, <3>2, PipelineAssumption DEF BytesSound
<1> QED
  BY <1>1, <1>5, <1>6, <1>7, <1>8 DEF PipeSound

LEMMA PipeNext ==
  ASSUME PipeSound(ep')
  PROVE  PipeInv'
  BY DEF PipeInv, PipeSound, PipeShaped, ItemsSound, QueueSound, PhaseSound, BytesSound, InQueue, At, Holds

\* A step that moves no item.
LEMMA NothingMoves ==
  ASSUME NEW a, NEW b, PipeSound(a), PipeShaped(b), b.at = a.at, b.counts = a.counts, b.ch = a.ch, b.batch = a.batch,
         b.exporting = a.exporting, PhaseSound(b), b.queued + a.returns = a.queued + b.returns, b.queued <= a.queued,
         b.queued \in Nat
  PROVE  PipeSound(b)
<1>1. \A t : At(b, t) = At(a, t)
  BY DEF At
<1>2. ItemsSound(b)
  BY DEF PipeSound, ItemsSound
<1>3. QueueSound(b)
  BY <1>1 DEF PipeSound, QueueSound
<1>4. BytesSound(b)
  <2>1. InQueue(b) = InQueue(a) /\ InQueue(a) \in SUBSET Items /\ At(a, "over") \in SUBSET Items
    BY <1>1 DEF InQueue, At
  <2>2. SizesIn(InQueue(a)) \in Nat /\ SizesIn(At(a, "over")) \in Nat
    BY <2>1, SizesWithin
  <2>3. a.returns \in Nat /\ b.returns \in Nat /\ a.queued = SizesIn(InQueue(a)) + a.returns
        /\ a.queued <= QueueBytes + SizesIn(At(a, "over")) /\ QueueBytes \in Nat
    BY PipelineAssumption DEF PipeSound, BytesSound, PhaseSound
  <2>4. b.queued = SizesIn(InQueue(a)) + b.returns /\ b.queued <= QueueBytes + SizesIn(At(a, "over"))
    BY <2>2, <2>3
  <2> QED
    BY <1>1, <2>1, <2>4 DEF BytesSound
<1> QED
  BY <1>2, <1>3, <1>4 DEF PipeSound

LEMMA QuietSteps ==
  ASSUME PipeInv,
         \/ Shutdown \/ Deadline \/ RunReturns \/ AttemptRetries \/ ReturnBytes
         \/ \E limit \in PipelineLimits : SetLimits(limit)
  PROVE  PipeInv'
<1> DEFINE b == ep'
<1>1. PipeSound(ep) /\ PipeShaped(ep) /\ PhaseSound(ep)
  BY DEF PipeInv, PipeSound
<1>2. ep.queued \in Nat /\ ep.returns \in Nat /\ ep.returns <= ep.queued
  <2>1. InQueue(ep) \in SUBSET Items
    BY DEF InQueue, At
  <2>2. SizesIn(InQueue(ep)) \in Nat
    BY <2>1, SizesWithin
  <2> QED
    BY <1>1, <2>2 DEF PipeSound, BytesSound, PhaseSound
<1>3. CASE Shutdown
  <2> DEFINE racing == At(ep, "emitted") \cup At(ep, "over") \cup At(ep, "reserved")
  <2>0. ~ep.stopped
    BY <1>3 DEF Shutdown
  <2>1. b = [ep EXCEPT !.stopped = TRUE, !.racing = racing]
    BY <1>3 DEF Shutdown, Among, At
  <2> HIDE DEF b
  <2>2. /\ PipeShaped(b) /\ b.at = ep.at /\ b.counts = ep.counts /\ b.ch = ep.ch /\ b.batch = ep.batch
        /\ b.exporting = ep.exporting /\ b.carried = ep.carried /\ b.queued = ep.queued /\ b.returns = ep.returns
        /\ b.stage = ep.stage /\ b.attempt = ep.attempt /\ b.racing = racing
    BY <1>1, <2>1 DEF PipeShaped, PipeFields
  <2>3. b.stopped = TRUE
    BY <1>1, <2>1 DEF PipeShaped, PipeFields
  <2>4. PhaseSound(b)
    <3>1. \A t : At(b, t) = At(ep, t)
      BY <2>2 DEF At
    <3>2. At(b, "over") \cup At(b, "reserved") \subseteq b.racing
      BY <2>2, <3>1
    <3>3. ep.stage # "done"
      BY <1>1, <2>0 DEF PhaseSound
    <3> QED
      BY <1>1, <2>2, <2>3, <3>2, <3>3 DEF PhaseSound
  <2>5. PipeSound(b)
    BY <1>1, <1>2, <2>2, <2>4, NothingMoves
  <2> QED
    BY <2>5, PipeNext DEF b
<1>4. CASE Deadline \/ \E limit \in PipelineLimits : SetLimits(limit)
  <2>1. PICK x, y, z : b = [ep EXCEPT !.cancelled = x] \/ b = [ep EXCEPT !.limit = y, !.edits = z]
    BY <1>4 DEF Deadline, SetLimits
  <2> HIDE DEF b
  <2>2. /\ PipeShaped(b) /\ b.at = ep.at /\ b.counts = ep.counts /\ b.ch = ep.ch /\ b.batch = ep.batch
        /\ b.exporting = ep.exporting /\ b.carried = ep.carried /\ b.queued = ep.queued /\ b.returns = ep.returns
        /\ b.stage = ep.stage /\ b.attempt = ep.attempt /\ b.racing = ep.racing
    BY <1>1, <2>1 DEF PipeShaped, PipeFields
  <2>3. b.stopped = ep.stopped
    BY <1>1, <2>1 DEF PipeShaped, PipeFields
  <2>4. PhaseSound(b)
    BY <1>1, <2>2, <2>3 DEF PhaseSound, At
  <2>5. PipeSound(b)
    BY <1>1, <1>2, <2>2, <2>4, NothingMoves
  <2> QED
    BY <2>5, PipeNext DEF b
<1>5. CASE RunReturns
  <2>1. ep.stage = "run" /\ ep.ch = <<>> /\ ep.batch = <<>> /\ b = [ep EXCEPT !.stage = "done"]
    BY <1>5 DEF RunReturns
  <2>2. ep.stopped
    BY <1>5 DEF RunReturns
  <2> HIDE DEF b
  <2>3. /\ PipeShaped(b) /\ b.at = ep.at /\ b.counts = ep.counts /\ b.ch = ep.ch /\ b.batch = ep.batch
        /\ b.exporting = ep.exporting /\ b.carried = ep.carried /\ b.queued = ep.queued /\ b.returns = ep.returns
        /\ b.stage = "done" /\ b.attempt = ep.attempt /\ b.racing = ep.racing
    BY <1>1, <2>1 DEF PipeShaped, PipeFields
  <2>4. b.stopped = ep.stopped
    BY <1>1, <2>1 DEF PipeShaped, PipeFields
  <2>5. PhaseSound(b)
    BY <1>1, <2>1, <2>2, <2>3, <2>4 DEF PhaseSound, At, Range
  <2>6. PipeSound(b)
    BY <1>1, <1>2, <2>3, <2>5, NothingMoves
  <2> QED
    BY <2>6, PipeNext DEF b
<1>6. CASE AttemptRetries
  <2>1. ep.stage = "attempting" /\ ep.attempt < Retries /\ b = [ep EXCEPT !.attempt = @ + 1]
    BY <1>6 DEF AttemptRetries
  <2> HIDE DEF b
  <2>2. /\ PipeShaped(b) /\ b.at = ep.at /\ b.counts = ep.counts /\ b.ch = ep.ch /\ b.batch = ep.batch
        /\ b.exporting = ep.exporting /\ b.carried = ep.carried /\ b.queued = ep.queued /\ b.returns = ep.returns
        /\ b.stage = ep.stage /\ b.attempt = ep.attempt + 1 /\ b.racing = ep.racing
    BY <1>1, <2>1 DEF PipeShaped, PipeFields
  <2>3. b.stopped = ep.stopped
    BY <1>1, <2>1 DEF PipeShaped, PipeFields
  <2>4. b.attempt \in 0..Retries
    BY <1>1, <2>1, <2>2, PipelineAssumption DEF PhaseSound
  <2>5. PhaseSound(b)
    BY <1>1, <2>2, <2>3, <2>4 DEF PhaseSound, At
  <2>6. PipeSound(b)
    BY <1>1, <1>2, <2>2, <2>5, NothingMoves
  <2> QED
    BY <2>6, PipeNext DEF b
<1>7. CASE ReturnBytes
  <2>1. ep.stage = "returning" /\ b = [ep EXCEPT !.queued = @ - ep.returns, !.returns = 0, !.attempt = 0, !.carried = {}, !.stage = "run"]
    BY <1>7 DEF ReturnBytes
  <2> HIDE DEF b
  <2>2. /\ PipeShaped(b) /\ b.at = ep.at /\ b.counts = ep.counts /\ b.ch = ep.ch /\ b.batch = ep.batch
        /\ b.exporting = ep.exporting /\ b.carried = {} /\ b.queued = ep.queued - ep.returns /\ b.returns = 0
        /\ b.stage = "run" /\ b.attempt = 0 /\ b.racing = ep.racing
    BY <1>1, <2>1 DEF PipeShaped, PipeFields
  <2>3. b.stopped = ep.stopped
    BY <1>1, <2>1 DEF PipeShaped, PipeFields
  <2>4. PhaseSound(b)
    <3>0. b.exporting = {}
      BY <1>1, <2>1, <2>2 DEF PhaseSound
    <3>1. SizesIn(b.exporting) <= 0
      BY <3>0, SizesOfNone
    <3> QED
      BY <1>1, <2>1, <2>2, <2>3, <3>0, <3>1, PipelineAssumption DEF PhaseSound, At
  <2>5. b.queued \in Nat /\ b.queued <= ep.queued /\ b.queued + ep.returns = ep.queued + b.returns
    BY <1>2, <2>2
  <2>6. PipeSound(b)
    BY <1>1, <2>2, <2>4, <2>5, NothingMoves
  <2> QED
    BY <2>6, PipeNext DEF b
<1> QED
  BY <1>3, <1>4, <1>5, <1>6, <1>7

\* One item moves from one stage to another.
Moves(a, b, i, from, to) ==
  a.at[i] = from /\ b.at[i] = to /\ \A j \in Items \ {i} : b.at[j] = a.at[j]
LEMMA ItemMoved ==
  ASSUME NEW a, NEW b, NEW i \in Items, NEW from, NEW to, from # to, Moves(a, b, i, from, to)
  PROVE  /\ At(b, to) = At(a, to) \cup {i} /\ i \notin At(a, to)
         /\ At(b, from) = At(a, from) \ {i} /\ i \in At(a, from)
         /\ \A t : t # to /\ t # from => At(b, t) = At(a, t)
  BY DEF At, Moves

\* Items that get their outcome are counted.
Outcomes(s, r, X, outcome) ==
  /\ PipeShaped(r) /\ r.queued = s.queued /\ r.ch = s.ch
  /\ r.batch = s.batch /\ r.exporting = s.exporting /\ r.returns = s.returns /\ r.attempt = s.attempt
  /\ r.carried = s.carried /\ r.stage = s.stage /\ r.racing = s.racing /\ r.stopped = s.stopped
  /\ \A i \in X : r.at[i] = outcome /\ r.counts[i] = s.counts[i] + 1
  /\ \A i \in Items \ X : r.at[i] = s.at[i] /\ r.counts[i] = s.counts[i]
LEMMA CountedIs ==
  ASSUME NEW s, PipeShaped(s), NEW X \in SUBSET Items, NEW outcome
  PROVE  Outcomes(s, Counted(s, X, outcome), X, outcome)
<1> DEFINE p == [i \in Items |-> IF i \in X THEN outcome ELSE s.at[i]]
           q == [i \in Items |-> IF i \in X THEN s.counts[i] + 1 ELSE s.counts[i]]
           r == Counted(s, X, outcome)
<1>1. r = [s EXCEPT !.at = p, !.counts = q]
  BY DEF Counted
<1>2. /\ DOMAIN p = Items /\ DOMAIN q = Items
      /\ \A i \in X : p[i] = outcome /\ q[i] = s.counts[i] + 1
      /\ \A i \in Items \ X : p[i] = s.at[i] /\ q[i] = s.counts[i]
  OBVIOUS
<1> HIDE DEF p, q, r
<1>3. /\ PipeShaped(r) /\ r.queued = s.queued /\ r.ch = s.ch
      /\ r.batch = s.batch /\ r.exporting = s.exporting /\ r.returns = s.returns /\ r.attempt = s.attempt
      /\ r.carried = s.carried /\ r.stage = s.stage /\ r.racing = s.racing /\ r.at = p /\ r.counts = q
  BY <1>1, <1>2 DEF PipeShaped, PipeFields
<1>4. r.stopped = s.stopped
  BY <1>1 DEF PipeShaped, PipeFields
<1>5. Outcomes(s, r, X, outcome)
  BY <1>2, <1>3, <1>4 DEF Outcomes
<1> QED
  BY <1>5 DEF r

LEMMA ItemsCounted ==
  ASSUME NEW a, NEW b, ItemsSound(a), NEW X \in SUBSET Items, NEW outcome \in SendOutcomes,
         \A i \in X : a.at[i] \notin SendOutcomes,
         \A i \in X : b.at[i] = outcome /\ b.counts[i] = a.counts[i] + 1,
         \A i \in Items \ X : b.at[i] = a.at[i] /\ b.counts[i] = a.counts[i]
  PROVE  ItemsSound(b)
<1> SUFFICES ASSUME NEW i \in Items
             PROVE  /\ b.at[i] \in {"new"} \cup Underway \cup SendOutcomes
                    /\ b.counts[i] = IF b.at[i] \in SendOutcomes THEN 1 ELSE 0
                    /\ b.at[i] \in Underway => SignalOf[i] \in Ceiling.signals
  BY DEF ItemsSound
<1>1. CASE i \in X
  <2>1. a.counts[i] = 0 /\ b.at[i] = outcome /\ b.counts[i] = a.counts[i] + 1 /\ outcome \notin Underway
    BY <1>1 DEF ItemsSound, SendOutcomes, Underway
  <2> QED
    BY <2>1
<1>2. CASE i \notin X
  BY <1>2 DEF ItemsSound
<1> QED
  BY <1>1, <1>2

LEMMA ItemMoves ==
  ASSUME NEW a, NEW b, ItemsSound(a), NEW i \in Items, NEW to \in Underway, a.at[i] \notin SendOutcomes,
         SignalOf[i] \in Ceiling.signals, b.counts = a.counts, b.at[i] = to, \A j \in Items \ {i} : b.at[j] = a.at[j]
  PROVE  ItemsSound(b)
  BY DEF ItemsSound, SendOutcomes, Underway

\* What the emitters leave alone.
Loops(a, b) ==
  /\ b.batch = a.batch /\ b.exporting = a.exporting /\ b.returns = a.returns /\ b.attempt = a.attempt
  /\ b.carried = a.carried /\ b.stage = a.stage /\ b.racing = a.racing /\ b.stopped = a.stopped

\* An emitter that the stop overtook holds on to what it had, and may still send it.
LEMMA EmitterPhase ==
  ASSUME NEW a, NEW b, PhaseSound(a), Loops(a, b), NEW i,
         At(b, "over") \cup At(b, "reserved") \subseteq At(a, "over") \cup At(a, "reserved") \cup {i},
         Range(b.ch) \subseteq Range(a.ch) \cup {i}, a.stopped => i \in a.racing
  PROVE  PhaseSound(b)
  BY DEF PhaseSound, Loops

LEMMA EmittersRace ==
  ASSUME PhaseSound(ep), NEW i \in Items, ep.at[i] \in {"over", "reserved"}
  PROVE  ep.stopped => i \in ep.racing
  BY DEF PhaseSound, At

\* Emitting, refused or not.
LEMMA EmitKeeps ==
  ASSUME PipeInv, NEW i \in Items, EmitRefused(i) \/ Emit(i) \/ EnqueueStopped(i)
  PROVE  PipeInv'
<1> DEFINE b == ep'
<1>1. PipeShaped(ep) /\ ItemsSound(ep) /\ QueueSound(ep) /\ PhaseSound(ep) /\ BytesSound(ep)
  BY DEF PipeInv, PipeSound
<1>2. ep.at[i] \in {"new", "emitted"}
  BY DEF EmitRefused, Emit, EnqueueStopped
<1>4. /\ PipeShaped(b) /\ b.queued = ep.queued /\ b.ch = ep.ch /\ Loops(ep, b) /\ ItemsSound(b)
      /\ \A j \in Items \ {i} : b.at[j] = ep.at[j]
      /\ b.at[i] \in SendOutcomes \cup {"emitted"}
  <2>1. CASE EmitRefused(i) \/ EnqueueStopped(i)
    <3>1. PICK outcome \in SendOutcomes : b = Counted(ep, {i}, outcome)
      BY <2>1 DEF EmitRefused, EnqueueStopped, SendOutcomes
    <3>2. {i} \in SUBSET Items
      OBVIOUS
    <3> HIDE DEF b
    <3>3. /\ PipeShaped(b) /\ b.queued = ep.queued /\ b.ch = ep.ch /\ Loops(ep, b)
          /\ b.at[i] = outcome /\ b.counts[i] = ep.counts[i] + 1
          /\ \A j \in Items \ {i} : b.at[j] = ep.at[j] /\ b.counts[j] = ep.counts[j]
      <4>1. Outcomes(ep, b, {i}, outcome)
        BY <1>1, <3>1, <3>2, CountedIs
      <4> QED
        BY <4>1 DEF Loops, Outcomes
    <3>4. ep.at[i] \notin SendOutcomes
      BY <1>2 DEF SendOutcomes
    <3>5. /\ \A j \in {i} : ep.at[j] \notin SendOutcomes
          /\ \A j \in {i} : b.at[j] = outcome /\ b.counts[j] = ep.counts[j] + 1
          /\ \A j \in Items \ {i} : b.at[j] = ep.at[j] /\ b.counts[j] = ep.counts[j]
      BY <3>3, <3>4
    <3>6. ItemsSound(b)
      BY <1>1, <3>2, <3>5, ItemsCounted
    <3> QED
      BY <3>3, <3>6
  <2>2. CASE Emit(i)
    <3>1. b = [ep EXCEPT !.at[i] = "emitted"] /\ SignalOf[i] \in Ceiling.signals
      BY <2>2 DEF Emit, Allowed
    <3> HIDE DEF b
    <3>2. /\ PipeShaped(b) /\ b.queued = ep.queued /\ b.ch = ep.ch /\ b.counts = ep.counts
          /\ b.at[i] = "emitted" /\ \A j \in Items \ {i} : b.at[j] = ep.at[j]
      BY <1>1, <3>1 DEF PipeShaped, PipeFields
    <3>3. Loops(ep, b)
      BY <1>1, <3>1 DEF PipeShaped, PipeFields, Loops
    <3>4. ep.at[i] \notin SendOutcomes /\ "emitted" \in Underway
      BY <1>2 DEF SendOutcomes, Underway
    <3>5. ItemsSound(b)
      BY <1>1, <1>2, <3>1, <3>2, <3>4, ItemMoves
    <3> QED
      BY <3>2, <3>3, <3>5
  <2> QED
    BY <2>1, <2>2
<1> HIDE DEF b
<1>5. \A t \in {"over", "reserved", "queued", "batched"} : At(b, t) = At(ep, t)
  BY <1>2, <1>4 DEF At, SendOutcomes
<1>6. QueueSound(b)
  BY <1>1, <1>4, <1>5 DEF QueueSound, Loops
<1>7. PhaseSound(b)
  BY <1>1, <1>4, <1>5 DEF PhaseSound, Loops
<1>8. BytesSound(b)
  BY <1>1, <1>4, <1>5 DEF BytesSound, InQueue, Loops
<1>9. PipeSound(b)
  BY <1>4, <1>6, <1>7, <1>8 DEF PipeSound
<1> QED
  BY <1>9, PipeNext DEF b

\* Reserving bytes, which fit or not.
LEMMA ReserveKeeps ==
  ASSUME PipeInv, NEW i \in Items, ReserveSlot(i) \/ ReserveOver(i)
  PROVE  PipeInv'
<1> DEFINE b == ep'
<1>1. PipeShaped(ep) /\ ItemsSound(ep) /\ QueueSound(ep) /\ PhaseSound(ep) /\ BytesSound(ep)
  BY DEF PipeInv, PipeSound
<1>2. PICK to \in {"over", "reserved"} :
        /\ ep.at[i] = "emitted" /\ b = [ep EXCEPT !.at[i] = to, !.queued = @ + SizeOf[i]]
        /\ to = "reserved" => ep.queued + SizeOf[i] <= QueueBytes
  BY DEF ReserveSlot, ReserveOver, Admits
<1> HIDE DEF b
<1>3. /\ PipeShaped(b) /\ b.queued = ep.queued + SizeOf[i] /\ b.ch = ep.ch /\ b.counts = ep.counts
      /\ b.at[i] = to /\ \A j \in Items \ {i} : b.at[j] = ep.at[j]
  BY <1>1, <1>2 DEF PipeShaped, PipeFields
<1>4. Loops(ep, b)
  BY <1>1, <1>2 DEF PipeShaped, PipeFields, Loops
<1>5. ep.stopped => i \in ep.racing
  BY DEF ReserveSlot, ReserveOver, Admits
<1>6. ItemsSound(b)
  <2>1. ep.at[i] \notin SendOutcomes /\ to \in Underway /\ ep.at[i] \in Underway
    BY <1>2 DEF SendOutcomes, Underway
  <2>2. SignalOf[i] \in Ceiling.signals
    BY <1>1, <2>1 DEF ItemsSound
  <2> QED
    BY <1>1, <1>3, <2>1, <2>2, ItemMoves
<1>7. /\ At(b, to) = At(ep, to) \cup {i} /\ i \notin At(ep, to)
      /\ \A t : t # to /\ t # "emitted" => At(b, t) = At(ep, t)
  <2>1. Moves(ep, b, i, "emitted", to) /\ "emitted" # to
    BY <1>2, <1>3 DEF Moves
  <2> QED
    BY <2>1, ItemMoved
<1>8. QueueSound(b)
  BY <1>1, <1>3, <1>4, <1>7 DEF QueueSound, Loops
<1>9. PhaseSound(b)
  <2>1. /\ At(b, "over") \cup At(b, "reserved") \subseteq At(ep, "over") \cup At(ep, "reserved") \cup {i}
        /\ Range(b.ch) \subseteq Range(ep.ch) \cup {i}
    BY <1>2, <1>3, <1>7
  <2> QED
    BY <1>1, <1>4, <1>5, <2>1, EmitterPhase
<1>10. BytesSound(b)
  <2> DEFINE x == SizesIn(InQueue(ep))
             o == SizesIn(At(ep, "over"))
  <2>1. InQueue(b) = InQueue(ep) \cup {i} /\ i \notin InQueue(ep) /\ InQueue(ep) \in SUBSET Items
    BY <1>2, <1>4, <1>7 DEF InQueue, At, Loops
  <2>2. SizesIn(InQueue(b)) = x + SizeOf[i] /\ x \in Nat /\ SizeOf[i] \in Nat
    BY <2>1, SizesPlus
  <2>3. At(ep, "over") \in SUBSET Items /\ o \in Nat
    <3>1. At(ep, "over") \in SUBSET Items
      BY DEF At
    <3> QED
      BY <3>1, SizesWithin
  <2>4. ep.queued = x + ep.returns /\ ep.queued <= QueueBytes + o /\ ep.returns \in Nat /\ QueueBytes \in Nat
    BY <1>1, PipelineAssumption DEF BytesSound, PhaseSound
  <2>5. SizesIn(At(b, "over")) = IF to = "over" THEN o + SizeOf[i] ELSE o
    <3>1. CASE to = "over"
      <4>1. At(b, "over") = At(ep, "over") \cup {i} /\ i \notin At(ep, "over")
        BY <1>7, <3>1
      <4> QED
        BY <2>3, <3>1, <4>1, SizesPlus
    <3>2. CASE to # "over"
      <4>1. At(b, "over") = At(ep, "over")
        BY <1>7, <3>2
      <4> QED
        BY <3>2, <4>1
    <3> QED
      BY <3>1, <3>2
  <2> HIDE DEF x, o
  <2>6. b.returns = ep.returns
    BY <1>4 DEF Loops
  <2>7. b.queued = (x + SizeOf[i]) + ep.returns
    BY <1>3, <2>2, <2>4
  <2>8. b.queued <= QueueBytes + SizesIn(At(b, "over"))
    BY <1>2, <1>3, <2>2, <2>3, <2>4, <2>5
  <2> QED
    BY <2>2, <2>6, <2>7, <2>8 DEF BytesSound
<1>11. PipeSound(b)
  BY <1>3, <1>6, <1>8, <1>9, <1>10 DEF PipeSound
<1> QED
  BY <1>11, PipeNext DEF b

\* What does not fit gives its bytes back.
LEMMA FullKeeps ==
  ASSUME PipeInv, NEW i \in Items, ReserveFull(i) \/ SendFull(i)
  PROVE  PipeInv'
<1> DEFINE b == ep'
           a == Counted(ep, {i}, "queue_full")
<1>1. PipeShaped(ep) /\ ItemsSound(ep) /\ QueueSound(ep) /\ PhaseSound(ep) /\ BytesSound(ep)
  BY DEF PipeInv, PipeSound
<1>2. ep.at[i] \in {"over", "reserved"} /\ b = [a EXCEPT !.queued = @ - SizeOf[i]]
  BY DEF ReserveFull, SendFull
<1>3. {i} \in SUBSET Items
  OBVIOUS
<1>4. /\ PipeShaped(a) /\ a.queued = ep.queued /\ a.ch = ep.ch /\ Loops(ep, a)
      /\ a.at[i] = "queue_full" /\ a.counts[i] = ep.counts[i] + 1
      /\ \A j \in Items \ {i} : a.at[j] = ep.at[j] /\ a.counts[j] = ep.counts[j]
  <2>1. Outcomes(ep, a, {i}, "queue_full")
    BY <1>1, <1>3, CountedIs
  <2> HIDE DEF a
  <2> QED
    BY <2>1 DEF Loops, Outcomes
<1> HIDE DEF a, b
<1>5. PipeShaped(b) /\ b.queued = ep.queued - SizeOf[i] /\ b.ch = ep.ch /\ b.at = a.at /\ b.counts = a.counts
  BY <1>2, <1>4 DEF PipeShaped, PipeFields
<1>6. Loops(ep, b)
  BY <1>2, <1>4 DEF PipeShaped, PipeFields, Loops
<1>7. ep.stopped => i \in ep.racing
  BY <1>1, <1>2, EmittersRace
<1>8. ItemsSound(b)
  <2>1. ep.at[i] \notin SendOutcomes /\ "queue_full" \in SendOutcomes
    BY <1>2 DEF SendOutcomes
  <2>2. /\ \A j \in {i} : ep.at[j] \notin SendOutcomes
        /\ \A j \in {i} : b.at[j] = "queue_full" /\ b.counts[j] = ep.counts[j] + 1
        /\ \A j \in Items \ {i} : b.at[j] = ep.at[j] /\ b.counts[j] = ep.counts[j]
    BY <1>4, <1>5, <2>1
  <2> QED
    BY <1>1, <1>3, <2>1, <2>2, ItemsCounted
<1>9. /\ At(b, ep.at[i]) = At(ep, ep.at[i]) \ {i} /\ i \in At(ep, ep.at[i])
      /\ \A t : t # "queue_full" /\ t # ep.at[i] => At(b, t) = At(ep, t)
  <2> DEFINE from == ep.at[i]
  <2>1. Moves(ep, b, i, from, "queue_full") /\ from # "queue_full"
    BY <1>2, <1>4, <1>5 DEF Moves
  <2> HIDE DEF from
  <2>2. /\ At(b, from) = At(ep, from) \ {i} /\ i \in At(ep, from)
        /\ \A t : t # "queue_full" /\ t # from => At(b, t) = At(ep, t)
    BY <2>1, ItemMoved
  <2> QED
    BY <2>2 DEF from
<1>10. QueueSound(b)
  BY <1>1, <1>2, <1>5, <1>6, <1>9 DEF QueueSound, Loops
<1>11. PhaseSound(b)
  <2>1. /\ At(b, "over") \cup At(b, "reserved") \subseteq At(ep, "over") \cup At(ep, "reserved") \cup {i}
        /\ Range(b.ch) \subseteq Range(ep.ch) \cup {i}
    BY <1>2, <1>5, <1>9
  <2> QED
    BY <1>1, <1>6, <1>7, <2>1, EmitterPhase
<1>12. BytesSound(b)
  <2> DEFINE x == SizesIn(InQueue(ep) \ {i})
             o == SizesIn(At(ep, "over"))
  <2>1. InQueue(b) = InQueue(ep) \ {i} /\ i \in InQueue(ep) /\ InQueue(ep) \in SUBSET Items
    BY <1>2, <1>6, <1>9 DEF InQueue, At, Loops
  <2>2. SizesIn(InQueue(ep)) = x + SizeOf[i] /\ x \in Nat /\ SizeOf[i] \in Nat
    BY <2>1, SizesMinus
  <2>3. At(ep, "over") \in SUBSET Items /\ o \in Nat
    <3>1. At(ep, "over") \in SUBSET Items
      BY DEF At
    <3> QED
      BY <3>1, SizesWithin
  <2>4. ep.queued = SizesIn(InQueue(ep)) + ep.returns /\ ep.queued <= QueueBytes + o /\ ep.returns \in Nat /\ QueueBytes \in Nat
    BY <1>1, PipelineAssumption DEF BytesSound, PhaseSound
  <2>5. SizesIn(At(b, "over")) \in Nat /\ o <= SizesIn(At(b, "over")) + SizeOf[i]
    <3>1. CASE ep.at[i] = "over"
      <4>1. At(b, "over") = At(ep, "over") \ {i} /\ i \in At(ep, "over")
        BY <1>9, <3>1
      <4>2. SizesIn(At(ep, "over")) = SizesIn(At(ep, "over") \ {i}) + SizeOf[i] /\ SizesIn(At(ep, "over") \ {i}) \in Nat
        BY <2>3, <4>1, SizesMinus
      <4>3. SizesIn(At(b, "over")) = SizesIn(At(ep, "over") \ {i})
        BY <4>1
      <4> QED
        BY <2>2, <4>2, <4>3
    <3>2. CASE ep.at[i] # "over"
      <4>1. At(b, "over") = At(ep, "over")
        BY <1>9, <3>2
      <4> QED
        BY <2>2, <2>3, <4>1
    <3> QED
      BY <3>1, <3>2
  <2> HIDE DEF x, o
  <2>6. b.returns = ep.returns
    BY <1>6 DEF Loops
  <2>7. b.queued = x + ep.returns /\ b.queued <= QueueBytes + SizesIn(At(b, "over"))
    BY <1>5, <2>2, <2>3, <2>4, <2>5
  <2>8. SizesIn(InQueue(b)) = x
    BY <2>1 DEF x
  <2> QED
    BY <2>6, <2>7, <2>8 DEF BytesSound
<1>13. PipeSound(b)
  BY <1>5, <1>8, <1>10, <1>11, <1>12 DEF PipeSound
<1> QED
  BY <1>13, PipeNext DEF b

\* A reserved item enters the channel.
LEMMA SendKeeps ==
  ASSUME PipeInv, NEW i \in Items, Send(i)
  PROVE  PipeInv'
<1> DEFINE b == ep'
<1>1. PipeShaped(ep) /\ ItemsSound(ep) /\ QueueSound(ep) /\ PhaseSound(ep) /\ BytesSound(ep)
  BY DEF PipeInv, PipeSound
<1>2. /\ ep.at[i] = "reserved" /\ b = [ep EXCEPT !.at[i] = "queued", !.ch = Append(@, i)]
      /\ Len(ep.ch) < QueueItems
  BY DEF Send
<1> HIDE DEF b
<1>3. /\ PipeShaped(b) /\ b.queued = ep.queued /\ b.ch = Append(ep.ch, i) /\ b.counts = ep.counts
      /\ b.at[i] = "queued" /\ \A j \in Items \ {i} : b.at[j] = ep.at[j]
  BY <1>1, <1>2 DEF PipeShaped, PipeFields
<1>4. Loops(ep, b)
  BY <1>1, <1>2 DEF PipeShaped, PipeFields, Loops
<1>5. ep.stopped => i \in ep.racing
  BY <1>1, <1>2, EmittersRace
<1>6. ItemsSound(b)
  <2>1. ep.at[i] \notin SendOutcomes /\ "queued" \in Underway /\ ep.at[i] \in Underway
    BY <1>2 DEF SendOutcomes, Underway
  <2>2. SignalOf[i] \in Ceiling.signals
    BY <1>1, <2>1 DEF ItemsSound
  <2> QED
    BY <1>1, <1>3, <2>1, <2>2, ItemMoves
<1>7. /\ At(b, "queued") = At(ep, "queued") \cup {i} /\ i \notin At(ep, "queued")
      /\ At(b, "reserved") = At(ep, "reserved") \ {i} /\ i \in At(ep, "reserved")
      /\ \A t : t # "queued" /\ t # "reserved" => At(b, t) = At(ep, t)
  <2>1. Moves(ep, b, i, "reserved", "queued") /\ "reserved" # "queued"
    BY <1>2, <1>3 DEF Moves
  <2> QED
    BY <1>3, <2>1 DEF Moves, At
<1>8. QueueSound(b)
  <2>1. Holds(ep.ch, At(ep, "queued"))
    BY <1>1 DEF QueueSound
  <2>2. /\ Holds(Append(ep.ch, i), At(ep, "queued") \cup {i})
        /\ Len(Append(ep.ch, i)) = Len(ep.ch) + 1 /\ Len(ep.ch) \in Nat
    BY <1>7, <2>1, HoldsAppend
  <2>3. Holds(b.ch, At(b, "queued")) /\ Len(b.ch) <= QueueItems
    <3>1. Holds(b.ch, At(b, "queued"))
      BY <1>3, <1>7, <2>2
    <3>2. Len(b.ch) = Len(ep.ch) + 1 /\ QueueItems \in Nat
      BY <1>3, <2>2, PipelineAssumption
    <3> QED
      BY <1>2, <2>2, <3>1, <3>2
  <2>4. b.batch = ep.batch /\ b.exporting = ep.exporting /\ At(b, "batched") = At(ep, "batched")
    BY <1>4, <1>7 DEF Loops
  <2> QED
    BY <1>1, <2>3, <2>4 DEF QueueSound
<1>9. PhaseSound(b)
  <2>1. Range(b.ch) \subseteq Range(ep.ch) \cup {i}
    <3>1. Range(b.ch) = At(b, "queued") /\ Range(ep.ch) = At(ep, "queued")
      BY <1>1, <1>8 DEF QueueSound, Holds
    <3> QED
      BY <1>7, <3>1
  <2>2. At(b, "over") \cup At(b, "reserved") \subseteq At(ep, "over") \cup At(ep, "reserved") \cup {i}
    BY <1>7
  <2> QED
    BY <1>1, <1>4, <1>5, <2>1, <2>2, EmitterPhase
<1>10. BytesSound(b)
  <2>1. InQueue(b) = InQueue(ep)
    BY <1>4, <1>7 DEF InQueue, Loops
  <2>2. At(b, "over") = At(ep, "over") /\ b.returns = ep.returns
    BY <1>4, <1>7 DEF Loops
  <2> QED
    BY <1>1, <1>3, <2>1, <2>2 DEF BytesSound
<1>11. PipeSound(b)
  BY <1>3, <1>6, <1>8, <1>9, <1>10 DEF PipeSound
<1> QED
  BY <1>11, PipeNext DEF b

\* The loop takes an item that its batch has room for.
LEMMA TakeKeeps ==
  ASSUME PipeInv, TakeItem
  PROVE  PipeInv'
<1> DEFINE b == ep'
           i == Head(ep.ch)
<1>1. PipeShaped(ep) /\ ItemsSound(ep) /\ QueueSound(ep) /\ PhaseSound(ep) /\ BytesSound(ep)
  BY DEF PipeInv, PipeSound
<1>2. /\ ep.stage = "run" /\ ep.ch # <<>> /\ Len(ep.batch) < BatchItems
      /\ ep.batch = <<>> \/ ~(SizesIn(Range(ep.batch)) + SizeOf[i] > BatchBytes)
      /\ b = [ep EXCEPT !.ch = Tail(@), !.batch = Append(@, i), !.at[i] = "batched"]
  BY DEF TakeItem, Overfills, Sizes
<1> HIDE DEF b, i
<1>3. /\ i \in At(ep, "queued") /\ i \in Items /\ Holds(Tail(ep.ch), At(ep, "queued") \ {i})
      /\ Len(Tail(ep.ch)) = Len(ep.ch) - 1 /\ Len(ep.ch) \in Nat
  <2>1. Holds(ep.ch, At(ep, "queued"))
    BY <1>1 DEF QueueSound
  <2> QED
    BY <1>2, <2>1, HoldsTail DEF i
<1>4. ep.at[i] = "queued"
  BY <1>3 DEF At
<1>5. /\ PipeShaped(b) /\ b.queued = ep.queued /\ b.ch = Tail(ep.ch) /\ b.counts = ep.counts
      /\ b.batch = Append(ep.batch, i) /\ b.exporting = ep.exporting /\ b.returns = ep.returns
      /\ b.attempt = ep.attempt /\ b.carried = ep.carried /\ b.stage = ep.stage /\ b.racing = ep.racing
      /\ b.at[i] = "batched" /\ \A j \in Items \ {i} : b.at[j] = ep.at[j]
  BY <1>1, <1>2, <1>3 DEF PipeShaped, PipeFields
<1>6. b.stopped = ep.stopped
  BY <1>1, <1>2 DEF PipeShaped, PipeFields
<1>7. ItemsSound(b)
  <2>1. ep.at[i] \notin SendOutcomes /\ "batched" \in Underway /\ ep.at[i] \in Underway
    BY <1>4 DEF SendOutcomes, Underway
  <2>2. SignalOf[i] \in Ceiling.signals
    BY <1>1, <1>3, <2>1 DEF ItemsSound
  <2> QED
    BY <1>1, <1>3, <1>5, <2>1, <2>2, ItemMoves
<1>8. /\ At(b, "batched") = At(ep, "batched") \cup {i} /\ i \notin At(ep, "batched")
      /\ At(b, "queued") = At(ep, "queued") \ {i}
      /\ \A t : t # "batched" /\ t # "queued" => At(b, t) = At(ep, t)
  <2>1. Moves(ep, b, i, "queued", "batched") /\ "queued" # "batched"
    BY <1>4, <1>5 DEF Moves
  <2> QED
    BY <1>3, <2>1 DEF Moves, At
<1>9. ep.exporting = {}
  BY <1>1, <1>2 DEF PhaseSound
<1>10. QueueSound(b)
  <2> DEFINE S == At(ep, "batched")
  <2>1. Holds(ep.batch, S) /\ Range(ep.batch) = S /\ S \in SUBSET Items
    BY <1>1, <1>9 DEF QueueSound, Holds, At
  <2>2. /\ Holds(Append(ep.batch, i), S \cup {i})
        /\ Len(Append(ep.batch, i)) = Len(ep.batch) + 1 /\ Len(ep.batch) \in Nat
    BY <1>3, <1>8, <2>1, HoldsAppend
  <2> HIDE DEF S
  <2>3. Holds(b.batch, S \cup {i}) /\ Range(b.batch) = S \cup {i} /\ Len(b.batch) = Len(ep.batch) + 1
    BY <1>5, <2>2 DEF Holds
  <2>4. SizesIn(S \cup {i}) = SizesIn(S) + SizeOf[i] /\ SizesIn(S) \in Nat /\ SizeOf[i] \in Nat
    BY <1>3, <1>8, <2>1, SizesPlus DEF S
  <2>5. SizesIn(Range(b.batch)) <= BatchBytes \/ Len(b.batch) <= 1
    <3>1. CASE ep.batch = <<>>
      BY <2>3, <3>1
    <3>2. CASE ~(SizesIn(Range(ep.batch)) + SizeOf[i] > BatchBytes)
      <4>1. SizesIn(Range(b.batch)) = SizesIn(S) + SizeOf[i] /\ SizesIn(Range(ep.batch)) = SizesIn(S)
        BY <2>1, <2>3, <2>4
      <4> QED
        BY <2>4, <3>2, <4>1, PipelineAssumption
    <3> QED
      BY <1>2, <3>1, <3>2
  <2>6. Len(b.batch) <= BatchItems
    BY <1>2, <2>2, <2>3, PipelineAssumption
  <2>7. At(b, "batched") \ b.exporting = S \cup {i} /\ b.exporting = {}
    BY <1>5, <1>8, <1>9 DEF S
  <2>8. Holds(b.ch, At(b, "queued")) /\ Len(b.ch) <= QueueItems
    <3>1. Len(ep.ch) <= QueueItems
      BY <1>1 DEF QueueSound
    <3> QED
      <4>1. Holds(b.ch, At(b, "queued"))
        BY <1>3, <1>5, <1>8
      <4>2. Len(b.ch) = Len(ep.ch) - 1 /\ QueueItems \in Nat
        BY <1>3, <1>5, PipelineAssumption
      <4> QED
        BY <1>3, <3>1, <4>1, <4>2
  <2>9. Holds(b.batch, At(b, "batched") \ b.exporting)
    BY <2>3, <2>7
  <2> QED
    BY <2>5, <2>6, <2>7, <2>8, <2>9 DEF QueueSound
<1>11. PhaseSound(b)
  BY <1>1, <1>2, <1>5, <1>6, <1>8 DEF PhaseSound
<1>12. BytesSound(b)
  <2>1. InQueue(b) = InQueue(ep)
    BY <1>3, <1>5, <1>8, <1>9 DEF InQueue
  <2>2. At(b, "over") = At(ep, "over")
    BY <1>8
  <2> QED
    BY <1>1, <1>5, <2>1, <2>2 DEF BytesSound
<1>13. PipeSound(b)
  BY <1>5, <1>7, <1>10, <1>11, <1>12 DEF PipeSound
<1> QED
  BY <1>13, PipeNext DEF b

\* The batch leaves: what the limits no longer carry is withheld.
LEMMA ExportKeeps ==
  ASSUME PipeInv, Export
  PROVE  PipeInv'
<1> DEFINE b == ep'
           S == Range(ep.batch)
           kept == Recheck(ep.batch)
           a == Counted(ep, S \ kept, "withheld")
           carried == {s \in Ceiling.signals : Carries(ep.limit, s)}
           stage == IF kept = {} THEN "returning" ELSE "attempting"
<1>1. PipeShaped(ep) /\ ItemsSound(ep) /\ QueueSound(ep) /\ PhaseSound(ep) /\ BytesSound(ep)
  BY DEF PipeInv, PipeSound
<1>2. /\ ep.stage = "run" /\ ep.batch # <<>>
      /\ b = [a EXCEPT !.batch = <<>>, !.exporting = kept, !.returns = SizesIn(S), !.attempt = 0,
                       !.carried = carried, !.stage = stage]
  BY DEF Export, BatchSize, Sizes
<1>3. ep.exporting = {} /\ ep.returns = 0
  BY <1>1, <1>2 DEF PhaseSound
<1>4. S = At(ep, "batched") /\ S \in SUBSET Items
  BY <1>1, <1>3 DEF QueueSound, Holds, At
<1>5. kept \in SUBSET S /\ \A i \in kept : SignalOf[i] \in carried
  <2>1. \A i \in S : SignalOf[i] \in Ceiling.signals
    <3>1. "batched" \in Underway
      BY DEF Underway
    <3> QED
      BY <1>1, <1>4, <3>1 DEF ItemsSound, At
  <2> QED
    BY <2>1 DEF Recheck
<1>6. Outcomes(ep, a, S \ kept, "withheld")
  <2>1. S \ kept \in SUBSET Items
    BY <1>4
  <2> QED
    BY <1>1, <2>1, CountedIs
<1>7. stage \in {"returning", "attempting"} /\ (stage = "returning" => kept = {})
  OBVIOUS
<1> HIDE DEF a, b, S, kept, carried, stage
<1>8. /\ PipeShaped(b) /\ b.queued = ep.queued /\ b.ch = ep.ch /\ b.at = a.at /\ b.counts = a.counts
      /\ b.batch = <<>> /\ b.exporting = kept /\ b.returns = SizesIn(S) /\ b.attempt = 0
      /\ b.carried = carried /\ b.stage = stage /\ b.racing = ep.racing
  BY <1>2, <1>6 DEF Outcomes, PipeShaped, PipeFields
<1>9. b.stopped = ep.stopped
  BY <1>2, <1>6 DEF Outcomes, PipeShaped, PipeFields
<1>10. /\ \A i \in S \ kept : b.at[i] = "withheld" /\ b.counts[i] = ep.counts[i] + 1
       /\ \A i \in Items \ (S \ kept) : b.at[i] = ep.at[i] /\ b.counts[i] = ep.counts[i]
  BY <1>6, <1>8 DEF Outcomes
<1>11. ItemsSound(b)
  <2>1. S \ kept \in SUBSET Items /\ "withheld" \in SendOutcomes
    BY <1>4 DEF SendOutcomes
  <2>2. \A i \in S \ kept : ep.at[i] \notin SendOutcomes
    BY <1>4 DEF At, SendOutcomes
  <2> QED
    BY <1>1, <1>10, <2>1, <2>2, ItemsCounted
<1>12. At(b, "batched") = kept /\ \A t : t # "batched" /\ t # "withheld" => At(b, t) = At(ep, t)
  BY <1>4, <1>5, <1>10 DEF At
<1>13. SizesIn(S) = SizesIn(kept) + SizesIn(S \ kept) /\ SizesIn(kept) \in Nat /\ SizesIn(S \ kept) \in Nat
  BY <1>4, <1>5, SizesWithin
<1>14. QueueSound(b)
  <2>1. Holds(b.ch, At(b, "queued")) /\ Len(b.ch) <= QueueItems
    BY <1>1, <1>8, <1>12 DEF QueueSound
  <2>2. b.exporting = At(b, "batched") /\ At(b, "batched") \ b.exporting = {} /\ Len(<<>>) = 0
    BY <1>8, <1>12
  <2>3. Holds(b.batch, At(b, "batched") \ b.exporting) /\ Len(b.batch) <= BatchItems /\ Len(b.batch) <= 1
    <3>1. Holds(b.batch, At(b, "batched") \ b.exporting)
      BY <1>8, <2>2, HoldsNone
    <3>2. Len(b.batch) = 0 /\ BatchItems \in Nat
      BY <1>8, <2>2, PipelineAssumption
    <3> QED
      BY <3>1, <3>2
  <2> QED
    BY <2>1, <2>2, <2>3 DEF QueueSound
<1>15. PhaseSound(b)
  <2>1. b.stage \in {"returning", "attempting"} /\ b.attempt \in 0..Retries /\ b.batch = <<>>
        /\ (b.stage # "attempting" => b.exporting = {})
    BY <1>7, <1>8, PipelineAssumption
  <2>2. b.returns \in Nat /\ SizesIn(b.exporting) <= b.returns
    BY <1>8, <1>13
  <2>3. b.stopped => At(b, "over") \cup At(b, "reserved") \subseteq b.racing
    BY <1>1, <1>8, <1>9, <1>12 DEF PhaseSound
  <2>4. \A i \in b.exporting : SignalOf[i] \in b.carried
    BY <1>5, <1>8
  <2> QED
    BY <2>1, <2>2, <2>3, <2>4 DEF PhaseSound
<1>16. BytesSound(b)
  <2>1. InQueue(ep) = InQueue(b) \cup S /\ InQueue(b) \cap S = {} /\ InQueue(b) \in SUBSET Items
    <3>1. InQueue(ep) = At(ep, "over") \cup At(ep, "reserved") \cup At(ep, "queued") \cup S
      BY <1>3, <1>4 DEF InQueue
    <3>2. InQueue(b) = At(ep, "over") \cup At(ep, "reserved") \cup At(ep, "queued")
      BY <1>8, <1>12 DEF InQueue
    <3> QED
      BY <1>4, <3>1, <3>2 DEF At
  <2>2. SizesIn(InQueue(b) \cup S) = SizesIn(InQueue(b)) + SizesIn(S)
        /\ SizesIn(InQueue(b)) \in Nat /\ SizesIn(S) \in Nat
    BY <1>4, <2>1, SizesApart
  <2>3. ep.queued = SizesIn(InQueue(b) \cup S) + 0 /\ ep.queued <= QueueBytes + SizesIn(At(b, "over"))
    BY <1>1, <1>3, <1>12, <2>1 DEF BytesSound
  <2>4. b.queued = SizesIn(InQueue(b)) + b.returns
    BY <1>8, <2>2, <2>3
  <2> QED
    BY <1>8, <2>3, <2>4 DEF BytesSound
<1>17. PipeSound(b)
  BY <1>8, <1>11, <1>14, <1>15, <1>16 DEF PipeSound
<1> QED
  BY <1>17, PipeNext DEF b

\* The batch gets its outcome.
LEMMA SettleKeeps ==
  ASSUME PipeInv, AttemptSent \/ \E permanent \in BOOLEAN : AttemptFails(permanent)
  PROVE  PipeInv'
<1> DEFINE b == ep'
           S == ep.exporting
<1>1. PipeShaped(ep) /\ ItemsSound(ep) /\ QueueSound(ep) /\ PhaseSound(ep) /\ BytesSound(ep)
  BY DEF PipeInv, PipeSound
<1>2. PICK outcome \in SendOutcomes :
        ep.stage = "attempting" /\ b = [Counted(ep, S, outcome) EXCEPT !.exporting = {}, !.stage = "returning"]
  BY DEF AttemptSent, AttemptFails, Settles, SendOutcomes
<1> DEFINE a == Counted(ep, S, outcome)
<1>3. S \in SUBSET At(ep, "batched") /\ S \in SUBSET Items
  BY <1>1 DEF QueueSound, At
<1>4. Outcomes(ep, a, S, outcome)
  BY <1>1, <1>3, CountedIs
<1>5. b = [a EXCEPT !.exporting = {}, !.stage = "returning"]
  BY <1>2
<1> HIDE DEF a, b, S
<1>6. /\ PipeShaped(b) /\ b.queued = ep.queued /\ b.ch = ep.ch /\ b.at = a.at /\ b.counts = a.counts
      /\ b.batch = ep.batch /\ b.exporting = {} /\ b.returns = ep.returns /\ b.attempt = ep.attempt
      /\ b.carried = ep.carried /\ b.stage = "returning" /\ b.racing = ep.racing
  BY <1>4, <1>5 DEF Outcomes, PipeShaped, PipeFields
<1>7. b.stopped = ep.stopped
  BY <1>4, <1>5 DEF Outcomes, PipeShaped, PipeFields
<1>8. /\ \A i \in S : b.at[i] = outcome /\ b.counts[i] = ep.counts[i] + 1
      /\ \A i \in Items \ S : b.at[i] = ep.at[i] /\ b.counts[i] = ep.counts[i]
  BY <1>4, <1>6 DEF Outcomes
<1>9. ItemsSound(b)
  <2>1. \A i \in S : ep.at[i] \notin SendOutcomes
    BY <1>3 DEF At, SendOutcomes
  <2>2. S \in SUBSET Items /\ outcome \in SendOutcomes
    BY <1>2, <1>3
  <2> QED
    BY <1>1, <1>8, <2>1, <2>2, ItemsCounted
<1>10. At(b, "batched") = At(ep, "batched") \ S /\ \A t \in Underway \ {"batched"} : At(b, t) = At(ep, t)
  BY <1>2, <1>3, <1>8 DEF At, Underway, SendOutcomes
<1>11. /\ At(b, "over") = At(ep, "over") /\ At(b, "reserved") = At(ep, "reserved")
       /\ At(b, "queued") = At(ep, "queued") /\ At(b, "emitted") = At(ep, "emitted")
       /\ At(b, "batched") \ b.exporting = At(ep, "batched") \ ep.exporting
  BY <1>6, <1>10 DEF Underway, S
<1>12. QueueSound(b)
  <2>1. Holds(b.ch, At(b, "queued")) /\ Len(b.ch) <= QueueItems
    BY <1>1, <1>6, <1>11 DEF QueueSound
  <2>2. Holds(b.batch, At(b, "batched") \ b.exporting) /\ Len(b.batch) <= BatchItems
        /\ (SizesIn(Range(b.batch)) <= BatchBytes \/ Len(b.batch) <= 1)
    BY <1>1, <1>6, <1>11 DEF QueueSound
  <2> QED
    BY <1>6, <2>1, <2>2 DEF QueueSound
<1>13. PhaseSound(b)
  <2>1. b.returns \in Nat /\ SizesIn(b.exporting) <= b.returns
    BY <1>1, <1>6, SizesOfNone DEF PhaseSound
  <2>2. b.stopped => At(b, "over") \cup At(b, "reserved") \subseteq b.racing
    BY <1>1, <1>6, <1>7, <1>11 DEF PhaseSound
  <2>3. b.batch = <<>> /\ b.attempt \in 0..Retries
    BY <1>1, <1>2, <1>6 DEF PhaseSound
  <2> QED
    BY <1>6, <2>1, <2>2, <2>3 DEF PhaseSound
<1>14. BytesSound(b)
  <2>1. InQueue(b) = InQueue(ep)
    BY <1>11 DEF InQueue
  <2> QED
    BY <1>1, <1>6, <1>11, <2>1 DEF BytesSound
<1>15. PipeSound(b)
  BY <1>6, <1>9, <1>12, <1>13, <1>14 DEF PipeSound
<1> QED
  BY <1>15, PipeNext DEF b

LEMMA PipeStep ==
  ASSUME PipeInv, [NextPipeline]_ep
  PROVE  PipeInv'
<1>1. CASE UNCHANGED ep
  <2>1. PipeSound(ep')
    BY <1>1, Zenon DEF PipeInv
  <2> QED
    BY <2>1, PipeNext
<1>2. CASE Loop
  BY <1>2, QuietSteps, TakeKeeps, ExportKeeps, SettleKeeps DEF Loop
<1>3. CASE Shutdown \/ Deadline \/ \E limit \in PipelineLimits : SetLimits(limit)
  BY <1>3, QuietSteps
<1>4. ASSUME NEW i \in Items, EmitRefused(i) \/ Emit(i) \/ EnqueueStopped(i) \/ ReserveSlot(i) \/ ReserveOver(i)
                              \/ ReserveFull(i) \/ Send(i) \/ SendFull(i)
      PROVE  PipeInv'
  BY <1>4, EmitKeeps, ReserveKeeps, FullKeeps, SendKeeps
<1> QED
  BY <1>1, <1>2, <1>3, <1>4 DEF NextPipeline

\* What the invariant says of the items, their counts and their bytes.
LEMMA PipeAccounts ==
  ASSUME PipeInv
  PROVE  ExportAccounted
<1>1. PipeShaped(ep) /\ ItemsSound(ep) /\ QueueSound(ep) /\ PhaseSound(ep) /\ BytesSound(ep)
  BY DEF PipeInv, PipeSound
<1>2. \A t : Among(t) = At(ep, t)
  BY DEF Among, At
<1>3. InQueue(ep) \in SUBSET Items /\ ep.exporting \in SUBSET Items /\ InQueue(ep) \cap ep.exporting = {}
      /\ Holding = InQueue(ep) \cup ep.exporting
  BY <1>1, <1>2 DEF InQueue, At, QueueSound, Holding
<1>4. /\ SizesIn(Holding) = SizesIn(InQueue(ep)) + SizesIn(ep.exporting)
      /\ SizesIn(InQueue(ep)) \in Nat /\ SizesIn(ep.exporting) \in Nat
  BY <1>3, SizesApart
<1>5. /\ ep.queued = SizesIn(InQueue(ep)) + ep.returns /\ ep.queued <= QueueBytes + SizesIn(Among("over"))
      /\ ep.returns \in Nat /\ SizesIn(ep.exporting) <= ep.returns
      /\ ep.stage \in {"run", "done"} => ep.returns = 0 /\ ep.exporting = {}
  BY <1>1, <1>2 DEF BytesSound, PhaseSound
<1>6. PipelineTypeOK
  <2>1. SizesIn(Among("over")) \in Nat
    <3>1. Among("over") \in SUBSET Items
      BY DEF Among
    <3> QED
      BY <3>1, SizesWithin
  <2>2. ep.queued \in 0..(QueueBytes + SizesIn(Among("over")))
    BY <1>4, <1>5, <2>1, PipelineAssumption
  <2>3. Len(ep.ch) <= QueueItems /\ Len(ep.batch) <= BatchItems
        /\ (SizesIn(Range(ep.batch)) <= BatchBytes \/ Len(ep.batch) <= 1)
    BY <1>1 DEF QueueSound
  <2>4. ep.attempt \in 0..Retries /\ ep.stage \in {"run", "attempting", "returning", "done"}
    BY <1>1 DEF PhaseSound
  <2> QED
    BY <2>2, <2>3, <2>4 DEF PipelineTypeOK, Sizes
<1>7. CountedExactlyOnce
  <2>1. \A i \in Items : ep.counts[i] <= 1 /\ (ep.counts[i] = 1 <=> ep.at[i] \in SendOutcomes)
    <3> TAKE i \in Items
    <3>1. ep.counts[i] = IF ep.at[i] \in SendOutcomes THEN 1 ELSE 0
      BY <1>1 DEF ItemsSound
    <3>2. CASE ep.at[i] \in SendOutcomes
      BY <3>1, <3>2
    <3>3. CASE ep.at[i] \notin SendOutcomes
      BY <3>1, <3>3
    <3> QED
      BY <3>2, <3>3
  <2>2. ASSUME ep.stage = "done", NEW i \in Items \ ep.racing PROVE ep.at[i] \in SendOutcomes \cup {"new", "emitted"}
    <3>1. ep.batch = <<>> /\ ep.exporting = {} /\ Range(ep.ch) \subseteq ep.racing
      BY <1>1, <2>2 DEF PhaseSound
    <3>2. At(ep, "over") \cup At(ep, "reserved") \subseteq ep.racing
      BY <1>1, <2>2 DEF PhaseSound
    <3>3. At(ep, "queued") \subseteq ep.racing /\ At(ep, "batched") = {}
      BY <1>1, <3>1 DEF QueueSound, Holds, Range
    <3>4. ep.at[i] \notin Underway \ {"emitted"}
      BY <3>2, <3>3 DEF At, Underway
    <3> QED
      BY <1>1, <3>4 DEF ItemsSound
  <2> QED
    BY <2>1, <2>2 DEF CountedExactlyOnce
<1>8. BytesReturn
  <2>1. ep.queued >= SizesIn(Holding)
    BY <1>4, <1>5
  <2>2. ASSUME ep.stage \in {"run", "done"} PROVE ep.queued = SizesIn(Holding)
    <3>1. ep.returns = 0 /\ SizesIn(ep.exporting) = 0
      BY <1>5, <2>2, SizesOfNone
    <3> QED
      BY <1>4, <1>5, <3>1
  <2> QED
    BY <2>1, <2>2 DEF BytesReturn
<1>9. WithheldAtTheDoor
  BY <1>1 DEF PhaseSound, WithheldAtTheDoor
<1> QED
  BY <1>6, <1>7, <1>8, <1>9 DEF ExportAccounted

(* For any items, sizes, limits and bounds of the pipeline: emitters, the loop, edits of    *)
(* the limits, retries, the deadline and shutdown may interleave as they like, and no item  *)
(* is counted twice, none that entered the queue before the stop is left uncounted when the *)
(* loop returns, its bytes come back, the queue and the batch keep their bounds, and        *)
(* nothing is exported that the limits of its batch withhold (pipeline.go enqueue, run,     *)
(* export, shutdown).                                                                       *)
THEOREM TelemetryIsAccounted == PipelineSpec => []ExportAccounted
<1>1. PipeInv /\ [NextPipeline]_ep => PipeInv'
  BY PipeStep
<1> QED
  BY PipeStarts, <1>1, PipeAccounts, PTL DEF PipelineSpec
=============================================================================
