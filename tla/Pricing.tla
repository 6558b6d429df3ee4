------------------------------ MODULE Pricing ------------------------------
(* Token usage and its price: which reports of a provider are exact, which   *)
(* are contradictory, what a call costs and how much it can cost at most     *)
(* (internal/pricing, pkg/schema/usage.go and the readers of usage in        *)
(* internal/server/requestpolicy).                                           *)
EXTENDS Integers, FiniteSetsExt

CONSTANTS
  PerMTok,     \* tokens in the unit a rate is quoted for (1 000 000 in the code)
  MaxInt64,    \* the largest 64-bit integer
  NoCount,     \* a count the provider did not report (a nil pointer)
  NoRate       \* no long-context rate, or no rate at all

ASSUME PricingAssumption ==
  /\ PerMTok \in Nat \ {0}
  /\ MaxInt64 \in Nat
  /\ NoCount \notin Int

\* The categories of tokens a provider bills.
Categories == {"input", "output", "read", "write5m", "write1h"}

\* The ones that fill the context window, in the order isLong adds them up.
Prompt == <<"input", "read", "write5m", "write1h">>

\* A report: the counts of schema.Usage, `creation` the undivided cache writes,
\* `split` whether the provider divided them by lifetime, `extra` whether it
\* named a lifetime this program does not know.
NoUsage == [input |-> NoCount, output |-> NoCount, read |-> NoCount,
            creation |-> NoCount, split |-> FALSE, write5m |-> NoCount,
            write1h |-> NoCount, extra |-> FALSE, uncertain |-> FALSE]

Number(n) == IF n = NoCount THEN 0 ELSE n

\* The counts of u that a reader of usage can see.
Counts(u) ==
  {u.input, u.output, u.read, u.creation} \cup
  (IF u.split THEN {u.write5m, u.write1h} ELSE {})

-----------------------------------------------------------------------------
\* What usage billed by category is, with no lifetime of a cache write guessed.
Billed(u, w5m, w1h) ==
  [input |-> Number(u.input), output |-> Number(u.output),
   read |-> Number(u.read), write5m |-> w5m, write1h |-> w1h]

\* A report is invalid when a count is out of range or the division of the
\* cache writes contradicts their total, and exact when nothing of it had to be
\* guessed: only an exact report can give money back.
AuthorityUsage(u, window) ==
  LET beyond == \E n \in Counts(u) \ {NoCount} : n < 0 \/ n > window
      parts  == u.split /\ ~u.extra /\ u.write5m # NoCount /\ u.write1h # NoCount
      sound  == ~u.uncertain /\ u.input # NoCount /\ u.output # NoCount
      off    == parts /\ u.creation # NoCount /\ u.write5m + u.write1h # u.creation
  IN [billed |-> Billed(u, IF parts THEN u.write5m ELSE 0,
                           IF parts THEN u.write1h ELSE 0),
      exact |-> /\ ~beyond /\ sound /\ ~off
                /\ IF u.split THEN parts ELSE Number(u.creation) = 0,
      invalid |-> beyond \/ (sound /\ off)]

\* The tokens of a report, which are exact even when the lifetime of the cache
\* writes is not known.
AuthorityTokens(u, window) ==
  LET w5m   == Number(u.write5m)
      w1h   == Number(u.write1h)
      off   == u.creation # NoCount /\ u.split /\ w5m + w1h > u.creation
      parts == u.write5m # NoCount /\ u.write1h # NoCount
      wrote == IF u.creation # NoCount THEN u.creation
               ELSE IF u.split THEN w5m + w1h ELSE 0
      sound == /\ ~u.uncertain /\ u.input # NoCount /\ u.output # NoCount
               /\ u.creation = NoCount /\ u.split => parts
      total == Number(u.input) + Number(u.output) + Number(u.read) + wrote
      early == ~u.uncertain /\ u.input # NoCount /\ u.output # NoCount
      wrong == \/ AuthorityUsage(u, window).invalid
               \/ early /\ (off \/ (sound /\ total > MaxInt64))
  IN [total |-> total, invalid |-> wrong, exact |-> ~wrong /\ sound]

-----------------------------------------------------------------------------
\* A rate the table may use: no negative price, and one level of long context.
ValidRate(r) ==
  LET plain(q) == /\ \A c \in Categories : q.price[c] >= 0
                  /\ q.unsupported => q.price["write5m"] = 0 /\ q.price["write1h"] = 0
  IN /\ plain(r)
     /\ IF r.long = NoRate THEN r.limit = 0 ELSE r.limit > 0 /\ plain(r.long)

\* The rate of a model: its own, or else that of the model it is the regional
\* form of; a rate that is not valid is as good as none.
Lookup(rates, model, base) ==
  LET r == IF rates[model] # NoRate THEN rates[model] ELSE rates[base]
  IN IF r # NoRate /\ ValidRate(r) THEN r ELSE NoRate

\* Whether the prompt is larger than the short-context limit of the rate.
IsLong(r, u) ==
  /\ r.long # NoRate
  /\ \E k \in 1..4 : MapThenSumSet(LAMBDA i : u[Prompt[i]], 1..k) > r.limit

\* n / PerMTok to the nearest integer, a half to the even one.
HalfEven(n) ==
  LET q == n \div PerMTok
      rem == n % PerMTok
  IN IF 2 * rem > PerMTok \/ (2 * rem = PerMTok /\ q % 2 = 1) THEN q + 1 ELSE q

\* n / PerMTok, rounded up.
Ceiling(n) == (n + PerMTok - 1) \div PerMTok

\* What usage costs: every category is rounded on its own. There is no cost
\* when the model has no rate, caches what it cannot, or the total overflows.
CostUSDMicrosChecked(r, u) ==
  LET q == IF IsLong(r, u) THEN r.long ELSE r
      cost == MapThenSumSet(LAMBDA c : HalfEven(u[c] * q.price[c]), Categories)
      tokens == MapThenSumSet(LAMBDA c : u[c], Categories)
  IN IF \/ r = NoRate
        \/ \E c \in Categories : u[c] < 0
        \/ tokens > MaxInt64
        \/ q.unsupported /\ (u["write5m"] # 0 \/ u["write1h"] # 0)
        \/ cost > MaxInt64
     THEN [ok |-> FALSE, cost |-> 0]
     ELSE [ok |-> TRUE, cost |-> cost]

\* The most a call can cost when each category holds up to `window` tokens: the
\* dearer of the two prices of each category, rounded up.
AuthorityBound(r, window) ==
  LET dearer(c) == IF r.long # NoRate /\ r.long.price[c] > r.price[c]
                   THEN r.long.price[c] ELSE r.price[c]
      total == MapThenSumSet(LAMBDA c : Ceiling(window * dearer(c)), Categories)
  IN IF window <= 0 \/ r = NoRate THEN [ok |-> FALSE, bound |-> 0]
     ELSE IF total > MaxInt64 THEN [ok |-> FALSE, bound |-> 0]
     ELSE [ok |-> TRUE, bound |-> total]
=============================================================================
