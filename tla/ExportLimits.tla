----------------------------- MODULE ExportLimits -----------------------------
(***************************************************************************)
(* What may leave through an observability exporter: the ceiling of the    *)
(* configuration declares its signals and its content cap, a runtime limit *)
(* narrows them and never widens them.  A limit is                         *)
(*   [paused, signals, cap]                                                *)
(* where no signals means every declared one and a cap of 0 the declared   *)
(* cap.  Sampling percentages narrow like the cap and are left out.        *)
(***************************************************************************)
EXTENDS Naturals, FiniteSets

NoLimit == [paused |-> FALSE, signals |-> {}, cap |-> 0]
MayContent(ceiling) == "content" \in ceiling.signals
CarriesUnpaused(limit, signal) == limit.signals = {} \/ signal \in limit.signals
Carries(limit, signal) == ~limit.paused /\ (limit.signals = {} \/ signal \in limit.signals)
Allowed(ceiling, limit, signal) == signal \in ceiling.signals /\ Carries(limit, signal)
ContentLimit(ceiling, limit) == IF limit.cap > 0 /\ limit.cap < ceiling.cap THEN limit.cap ELSE ceiling.cap

(* Normalize refuses a limit outside the ceiling and drops what narrows nothing. *)
Normalizable(ceiling, limit) ==
  /\ limit.signals \subseteq ceiling.signals
  /\ limit.cap # 0 => MayContent(ceiling) /\ limit.cap <= ceiling.cap
Normalize(ceiling, limit) ==
  [limit EXCEPT !.signals = IF @ = ceiling.signals THEN {} ELSE @,
                !.cap = IF @ = ceiling.cap THEN 0 ELSE @]

(* Clamp fits a stored limit to a ceiling that changed: a limit that keeps no declared      *)
(* signal pauses its exporter.                                                              *)
Clamp(ceiling, limit) ==
  LET kept == limit.signals \cap ceiling.signals
  IN  [paused |-> limit.paused \/ (limit.signals # {} /\ kept = {}),
       signals |-> kept,
       cap |-> IF ~MayContent(ceiling) THEN 0 ELSE IF limit.cap > ceiling.cap THEN ceiling.cap ELSE limit.cap]
Loaded(ceiling, limit) == Normalize(ceiling, Clamp(ceiling, limit))
===============================================================================
