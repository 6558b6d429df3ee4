----------------------------- MODULE BudgetAlerts -----------------------------
(***************************************************************************)
(* Budget alerts: a settlement debits a counter, reads it back and hands   *)
(* the reading to the notifier, three separate steps for the team and then *)
(* for the key; the notifier latches the highest threshold fired, re-arms  *)
(* when a reading falls below it, and delivers on goroutines of its own.   *)
(***************************************************************************)
EXTENDS Integers, Sequences, FiniteSets

CONSTANTS Settlements,          \* concurrent settlements
          Costs,                \* what a settlement may cost
          Thresholds,           \* [scope -> the spends at which its thresholds lie]
          RecentCap,            \* recentCap
          LastWindow            \* bound: the windows that may begin

Scopes == {"team", "key"}
ASSUME AlertAssumption ==
  /\ Costs \subseteq Nat \ {0} /\ RecentCap \in Nat \ {0} /\ LastWindow \in Nat
  /\ \A s \in Scopes : Thresholds[s] \subseteq Nat \ {0}

VARIABLE al   \* [spent, window, latch, armed, fires, out, recent, closing, pc, read]

Highest(S) == IF S = {} THEN 0 ELSE CHOOSE m \in S : \A x \in S : x <= m

(* A reading below the latched threshold re-arms. *)
Prev(a, s, r) == IF r < a.latch[s] THEN 0 ELSE a.latch[s]
(* Observe: the highest threshold newly reached is latched and its         *)
(* delivery started.                                                       *)
CrossedLowest(s, r, prev) ==
  LET new == {t \in Thresholds[s] : r >= t /\ t > prev}
  IN IF new = {} THEN 0 ELSE CHOOSE m \in new : \A x \in new : m <= x
Crossed(s, r, prev) == Highest({t \in Thresholds[s] : r >= t /\ t > prev})
Observe(a, s, r) ==
  LET prev    == Prev(a, s, r)
      crossed == Crossed(s, r, prev)
      fire    == [scope |-> s, threshold |-> crossed, window |-> a.window]
  IN [a EXCEPT !.latch[s] = IF crossed = 0 THEN prev ELSE crossed,
               !.armed[s] = IF @ = "unknown" THEN IF a.latch[s] = 0 \/ r < a.latch[s] THEN "yes" ELSE "no" ELSE @,
               !.fires = IF crossed = 0 THEN @ ELSE Append(@, fire),
               !.out = IF crossed = 0 THEN @ ELSE @ \cup {Len(a.fires) + 1}]

At(x, pc) == al.pc[x] = pc /\ ~al.closing
Moved(x, pc) == [al EXCEPT !.pc[x] = pc]

DebitTeam(x) == At(x, "start") /\ \E c \in Costs :
  al' = [Moved(x, "team_debited") EXCEPT !.spent["team"] = @ + c, !.read[x].cost = c]
ReadTeam(x) == At(x, "team_debited") /\ al' = [Moved(x, "team_read") EXCEPT !.read[x].saw = al.spent["team"]]
NotifyTeam(x) == At(x, "team_read") /\
  al' = [Observe(Moved(x, "key"), "team", al.read[x].saw) EXCEPT !.read[x].saw = 0]
DebitKey(x) == At(x, "key") /\ al' = [Moved(x, "key_debited") EXCEPT !.spent["key"] = @ + al.read[x].cost]
ReadKey(x) == At(x, "key_debited") /\ al' = [Moved(x, "key_read") EXCEPT !.read[x].saw = al.spent["key"]]
ObserveKey(x) == At(x, "key_read") /\
  al' = [Observe(Moved(x, "settled"), "key", al.read[x].saw) EXCEPT !.read[x].saw = 0]

(* The month ends: the counters start again, the latches do not. *)
RollOver ==
  /\ al.window < LastWindow /\ ~al.closing
  /\ al' = [al EXCEPT !.window = @ + 1, !.spent = [s \in Scopes |-> 0], !.armed = [s \in Scopes |-> "unknown"]]

(* deliver and record: newest first, bounded. *)
RecordedAll(recent, f) == <<f>> \o recent
Recorded(recent, f) == SubSeq(<<f>> \o recent, 1, IF Len(recent) + 1 < RecentCap THEN Len(recent) + 1 ELSE RecentCap)
Deliver == \E i \in al.out, delivered \in BOOLEAN :
  al' = [al EXCEPT !.out = @ \ {i}, !.recent = Recorded(@, [fire |-> i, delivered |-> delivered])]

(* Shutdown, once the data plane has drained: wait for the deliveries. *)
Idle(a) == \A x \in Settlements : a.pc[x] \in {"start", "settled"}
CloseNotifier == ~al.closing /\ Idle(al) /\ al.out = {} /\ al' = [al EXCEPT !.closing = TRUE]

InitAlerts ==
  al = [spent |-> [s \in Scopes |-> 0], window |-> 0, latch |-> [s \in Scopes |-> 0], armed |-> [s \in Scopes |-> "unknown"],
        fires |-> <<>>, out |-> {}, recent |-> <<>>, closing |-> FALSE,
        pc |-> [x \in Settlements |-> "start"], read |-> [x \in Settlements |-> [cost |-> 0, saw |-> 0]]]
NextAlerts ==
  \/ \E x \in Settlements : DebitTeam(x) \/ ReadTeam(x) \/ NotifyTeam(x) \/ DebitKey(x) \/ ReadKey(x) \/ ObserveKey(x)
  \/ RollOver \/ Deliver \/ CloseNotifier

AlertsSpec == InitAlerts /\ [][NextAlerts]_al

FiredIn(s, w) == {i \in DOMAIN al.fires : al.fires[i].scope = s /\ al.fires[i].window = w}

(* Once the settlements have run their course, the highest threshold this  *)
(* window's spend has reached has been alerted in this window, in whatever *)
(* order their readings came, provided the window's first reading found    *)
(* the latch open or fell below it (alert.go Observe).                     *)
HighestAlerted ==
  Idle(al) => \A s \in Scopes :
    LET top == Highest({t \in Thresholds[s] : al.spent[s] >= t})
    IN (top > 0 /\ al.armed[s] = "yes") =>
         \E i \in FiredIn(s, al.window) : al.fires[i].threshold = top

(* The notifier never fires the same threshold twice in one window, as     *)
(* Settle's comment on reading back a concurrent debit says.               *)
NoDoubleFire ==
  \A i, j \in DOMAIN al.fires : al.fires[i] = al.fires[j] => i = j

(* The type of the state: the list of recent alerts stays bounded. *)
AlertsTypeOK ==
  /\ Len(al.recent) <= RecentCap /\ al.out \subseteq DOMAIN al.fires /\ al.window \in 0 .. LastWindow
  /\ \A s \in Scopes : al.latch[s] \in Thresholds[s] \cup {0} /\ al.spent[s] \in Nat

(* Alerts keep up with concurrent debits, and the list of recent ones stays bounded. *)
AlertsHold == AlertsTypeOK /\ HighestAlerted
===============================================================================
