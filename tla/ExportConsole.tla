----------------------------- MODULE ExportConsole ----------------------------
(***************************************************************************)
(* The observability console: operators edit the runtime limits and the    *)
(* console's own rules.  An edit names the revision its author saw, holds  *)
(* the console's lock, writes the file, installs the result and puts the   *)
(* file back when installing fails.  Both files can also be edited by      *)
(* hand, the process can die between the steps, and a restart may bring a  *)
(* different ceiling.                                                      *)
(***************************************************************************)
EXTENDS ExportLimits

CONSTANTS Editors, ConsoleCeilings, ConsoleLimits, RuleSets,
          ContentRules,     \* observability.console.content_rules
          HandEdits, ConsoleCrashes, ConsoleFaults

ASSUME ConsoleAssumption ==
  /\ ContentRules \in BOOLEAN /\ HandEdits \in Nat /\ ConsoleCrashes \in Nat /\ ConsoleFaults \in Nat
  /\ \A ceiling \in ConsoleCeilings : ceiling.cap \in Nat
  /\ ConsoleLimits \subseteq [paused : BOOLEAN, signals : SUBSET STRING, cap : Nat]

VARIABLE ec

(* A rule set gives each rule name its rule: none, one that does not validate, a trace rule *)
(* without or with its sample percentage, or a selection of content.                        *)
ContentShapes == {"contentA", "contentB"}
RuleShapes == {"absent", "invalid", "unsampled", "sampled"} \cup ContentShapes
ContentOf(rules) == {<<n, rules[n]>> : n \in {m \in DOMAIN rules : rules[m] \in ContentShapes}}
ValidRules(rules) == \A n \in DOMAIN rules : rules[n] # "invalid"
NormalizeRules(rules) == [n \in DOMAIN rules |-> IF rules[n] = "unsampled" THEN "sampled" ELSE rules[n]]

Documents(kind) == IF kind = "limits" THEN ConsoleLimits ELSE RuleSets
EStage(e) == ec.calls[e].stage
OfKind(e) == ec.calls[e].kind
Answer(e) == [ec EXCEPT !.calls[e].stage = "idle", !.lock = @ \ {e}]
Failing == ec.faults < ConsoleFaults

(* The revision an editor names: of the installed limits, or of the rules' file. *)
Current(kind) == IF kind = "limits" THEN ec.live.limits ELSE ec.file.rules
Normalized(kind, doc) == IF kind = "limits" THEN Normalize(ec.ceiling, doc) ELSE NormalizeRules(doc)
ReadRevision(e, kind, doc) ==
  /\ ec.up /\ EStage(e) = "idle" /\ ec.calls[e].turns = 0
  /\ ec' = [ec EXCEPT !.calls[e] = [stage |-> "previewed", kind |-> kind, want |-> doc, seen |-> Current(kind),
                                    prior |-> ec.file[kind], turns |-> 1]]

-------------------------------------------------------------------------------
(* putLimits and putRules under the lock, up to the point where they change something. *)
CheckRevisionNot(e) == TRUE
CheckRevision(e) == ec.calls[e].seen = Current(OfKind(e))
StateFileMatches(e) == OfKind(e) = "rules" \/ Loaded(ec.ceiling, ec.file.limits) = ec.live.limits
ContentGate(current, next) == ContentRules \/ ContentOf(next) \subseteq ContentOf(current)
Acceptable(e) ==
  IF OfKind(e) = "limits" THEN Normalizable(ec.ceiling, ec.calls[e].want)
  ELSE ValidRules(ec.calls[e].want) /\ ContentGate(ec.file.rules, ec.calls[e].want)
Unchanged(e) == Normalized(OfKind(e), ec.calls[e].want) = Normalized(OfKind(e), Current(OfKind(e)))
MayEnterAnytime(e) == ec.up /\ EStage(e) = "previewed"
MayEnter(e) == ec.up /\ EStage(e) = "previewed" /\ ec.lock = {}
Enter(e) ==
  /\ MayEnter(e) /\ CheckRevision(e) /\ StateFileMatches(e) /\ Acceptable(e) /\ ~Unchanged(e)
  /\ ec' = [ec EXCEPT !.lock = @ \cup {e},
                      !.calls[e] = [@ EXCEPT !.stage = "persisting", !.prior = ec.file[OfKind(e)],
                                             !.want = Normalized(OfKind(e), ec.calls[e].want)]]
Turned(e) ==
  /\ MayEnter(e) /\ ~(CheckRevision(e) /\ StateFileMatches(e) /\ Acceptable(e) /\ ~Unchanged(e))
  /\ ec' = Answer(e)
AuditNotReady(e) == MayEnter(e) /\ Failing /\ ec' = [Answer(e) EXCEPT !.faults = @ + 1]

(* commitFile: persist, install, and restore the file when the install fails. *)
Persist(e) ==
  /\ EStage(e) = "persisting"
  /\ ec' = [ec EXCEPT !.file[OfKind(e)] = ec.calls[e].want, !.calls[e].stage = "installing"]
PersistFails(e) == EStage(e) = "persisting" /\ Failing /\ ec' = [Answer(e) EXCEPT !.faults = @ + 1]
Replaced(e) == IF OfKind(e) = "limits" THEN ec.live.limits ELSE ec.calls[e].prior
Install(e) ==
  /\ EStage(e) = "installing"
  /\ ec' = [Answer(e) EXCEPT !.live[OfKind(e)] = ec.calls[e].want,
                             !.hand[OfKind(e)] = ec.file[OfKind(e)] # ec.calls[e].want,
                             !.blind = @ \/ ec.calls[e].seen # Replaced(e)]
Restored(e) == [ec.file EXCEPT ![OfKind(e)] = ec.calls[e].prior]
InstallFails(e) ==
  /\ EStage(e) = "installing" /\ Failing
  /\ ec' = [Answer(e) EXCEPT !.file = Restored(e), !.faults = @ + 1]
RestoreFails(e) ==
  /\ EStage(e) = "installing" /\ ec.faults + 1 < ConsoleFaults
  /\ ec' = [Answer(e) EXCEPT !.hand[OfKind(e)] = TRUE, !.faults = @ + 2]

-------------------------------------------------------------------------------
(* The files by hand, the watcher that reloads policy files, death and restart. *)
HandEdit(kind, doc) ==
  /\ ec.hands < HandEdits /\ (kind = "rules" => ValidRules(doc))
  /\ ec' = [ec EXCEPT !.file[kind] = doc, !.hand[kind] = TRUE, !.hands = @ + 1,
                      !.byHand = IF kind = "rules" THEN @ \cup ContentOf(doc) ELSE @]
WatchReload ==
  /\ ec.up /\ ec.lock = {} /\ ec.live.rules # ec.file.rules
  /\ ec' = [ec EXCEPT !.live.rules = ec.file.rules, !.hand.rules = FALSE]
ConsoleCrash ==
  /\ ec.up /\ ec.crashes < ConsoleCrashes
  /\ ec' = [ec EXCEPT !.up = FALSE, !.crashes = @ + 1, !.lock = {},
                      !.calls = [e \in Editors |-> [@[e] EXCEPT !.stage = "idle"]]]
LoadLimits(ceiling) ==
  /\ ~ec.up
  /\ ec' = [ec EXCEPT !.up = TRUE, !.ceiling = ceiling, !.hand = [limits |-> FALSE, rules |-> FALSE],
                      !.live = [limits |-> Loaded(ceiling, ec.file.limits), rules |-> ec.file.rules]]

-------------------------------------------------------------------------------
InitConsole ==
  \E ceiling \in ConsoleCeilings, rules \in {r \in RuleSets : ValidRules(r)} :
    ec = [up |-> TRUE, ceiling |-> ceiling, lock |-> {}, faults |-> 0, crashes |-> 0, hands |-> 0, blind |-> FALSE,
          file |-> [limits |-> NoLimit, rules |-> rules], live |-> [limits |-> NoLimit, rules |-> rules],
          hand |-> [limits |-> FALSE, rules |-> FALSE], byHand |-> ContentOf(rules),
          calls |-> [e \in Editors |-> [stage |-> "idle", kind |-> "rules", want |-> rules, seen |-> rules,
                                        prior |-> rules, turns |-> 0]]]
NextConsole ==
  \/ WatchReload \/ ConsoleCrash \/ \E ceiling \in ConsoleCeilings : LoadLimits(ceiling)
  \/ \E kind \in {"limits", "rules"} : \E doc \in Documents(kind) :
       HandEdit(kind, doc) \/ \E e \in Editors : ReadRevision(e, kind, doc)
  \/ \E e \in Editors : \/ Enter(e) \/ Turned(e) \/ AuditNotReady(e) \/ Persist(e) \/ PersistFails(e)
                        \/ Install(e) \/ InstallFails(e) \/ RestoreFails(e)

ConsoleSpec == InitConsole /\ [][NextConsole]_ec

-------------------------------------------------------------------------------
(* Between edits the limits in force are the ones a restart would load: an edit that could *)
(* not be installed leaves no file behind that comes into force later (commitFile).        *)
DiskAgrees ==
  (ec.up /\ ec.lock = {} /\ ~ec.hand.limits) => ec.live.limits = Loaded(ec.ceiling, ec.file.limits)

(* An edit replaces only what its author saw: of two editors who read the same revision    *)
(* the second is turned away (checkRevision under the lock).                               *)
NoBlindOverwrite == ~ec.blind

(* A content selection the console's rules hold was put there by hand: while the bootstrap *)
(* denies content rules no sequence of edits adds one or moves it (contentGate).           *)
ContentByHandOnly == ~ContentRules => ContentOf(ec.live.rules) \cup ContentOf(ec.file.rules) \subseteq ec.byHand

(* A restart never widens what leaves: a signal carried after it, under whatever ceiling   *)
(* it brings, is one the stored limit carried (Clamp).                                     *)
RestartNeverWidens ==
  (~ec.up /\ ec'.up) =>
    \A s \in ec'.ceiling.signals : Carries(ec'.live.limits, s) => Carries(ec.file.limits, s)

ConsoleTypeOK ==
  /\ Cardinality(ec.lock) <= 1
  /\ \A e \in Editors : EStage(e) \in {"persisting", "installing"} => ec.lock = {e}
  /\ ec.ceiling \in ConsoleCeilings /\ ec.live.limits.cap <= ec.ceiling.cap

(* Edits of the exporter's rules and limits never cross: nothing is overwritten unseen,    *)
(* disk and memory agree, content rules are made by hand only, and no restart widens.       *)
ConsoleHolds ==
  [][/\ ConsoleTypeOK' /\ NoBlindOverwrite' /\ DiskAgrees' /\ ContentByHandOnly'
     /\ RestartNeverWidens]_ec
===============================================================================
