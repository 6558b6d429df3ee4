------------------------------- MODULE Prepaid -------------------------------
(***************************************************************************)
(* What durable budget authority promises, without journals, grants,        *)
(* messages or crashes: a budget is a prepaid account.  The authority holds *)
(* money back for the calls of the gateways; the gateways let calls begin   *)
(* and end.  Neither side waits for the other, and neither ever acts on     *)
(* more than the other has already made sure of.                            *)
(***************************************************************************)
EXTENDS Naturals, TLAPS

CONSTANTS
  Accounts,   \* the budgets in their windows
  Limit       \* the largest limit an operator sets, a natural number

VARIABLES
  held,     \* what the authority holds back on each account
  owed,     \* what the calls begun on it may cost at most
  frozen    \* the accounts on which a call has cost more than its bound

prepaidVars == <<held, owed, frozen>>

InitPrepaid ==
  /\ held = [a \in Accounts |-> 0]
  /\ owed = [a \in Accounts |-> 0]
  /\ frozen = [a \in Accounts |-> FALSE]

\* The authority answers a batch: it keeps what the calls may cost, frees no
\* account that is frozen, and holds back more than the limit only to make
\* good for an overrun.
Serve ==
  /\ UNCHANGED owed
  /\ held' \in [Accounts -> Nat] /\ frozen' \in [Accounts -> BOOLEAN]
  /\ \A a \in Accounts :
       \/ held'[a] = held[a] /\ frozen'[a] = frozen[a]
       \/ /\ owed[a] <= held'[a]
          /\ frozen[a] => frozen'[a]
          /\ held'[a] > held[a] => held'[a] <= Limit \/ frozen'[a]

\* A gateway lets a call begin, or learns what one has cost: whatever it lets
\* begin is already held back.
Call ==
  /\ UNCHANGED <<held, frozen>>
  /\ owed' \in [Accounts -> Nat]
  /\ \A a \in Accounts : owed'[a] > owed[a] => owed'[a] <= held[a]

PrepaidSpec == InitPrepaid /\ [][Serve \/ Call]_prepaidVars

-----------------------------------------------------------------------------
PrepaidTypeOK ==
  /\ held \in [Accounts -> Nat]
  /\ owed \in [Accounts -> Nat]
  /\ frozen \in [Accounts -> BOOLEAN]

\* No call begins on money that is not held back, and what the calls on an
\* account cost stays within the limit unless the provider itself overran.
NeverOverdrawn ==
  \A a \in Accounts : owed[a] <= held[a] /\ (~frozen[a] => owed[a] <= Limit)

-----------------------------------------------------------------------------
(* The account never overdraws, whatever the number of accounts and the limit. *)

\* What makes NeverOverdrawn inductive: an account that is not frozen holds no
\* more than the limit.
PrepaidInv ==
  /\ PrepaidTypeOK
  /\ \A a \in Accounts : owed[a] <= held[a] /\ (~frozen[a] => held[a] <= Limit)

\* Nothing is held and nothing owed at first.
LEMMA PrepaidStarts == Limit \in Nat /\ InitPrepaid => PrepaidInv
BY DEF InitPrepaid, PrepaidInv, PrepaidTypeOK

\* The authority's answer keeps what the calls may cost and the limit.
LEMMA ServeKeeps == Limit \in Nat /\ PrepaidInv /\ Serve => PrepaidInv'
<1> SUFFICES ASSUME Limit \in Nat, PrepaidInv, Serve PROVE PrepaidInv'
  OBVIOUS
<1>1. PrepaidTypeOK'
  BY DEF Serve, PrepaidInv, PrepaidTypeOK
<1>2. ASSUME NEW a \in Accounts
      PROVE  owed'[a] <= held'[a] /\ (~frozen'[a] => held'[a] <= Limit)
  <2>1. /\ owed'[a] = owed[a] /\ owed[a] \in Nat /\ held[a] \in Nat /\ held'[a] \in Nat
        /\ owed[a] <= held[a] /\ (~frozen[a] => held[a] <= Limit)
    BY <1>1 DEF Serve, PrepaidInv, PrepaidTypeOK
  <2>2. CASE held'[a] = held[a] /\ frozen'[a] = frozen[a]
    BY <2>1, <2>2
  <2>3. CASE /\ owed[a] <= held'[a]
             /\ frozen[a] => frozen'[a]
             /\ held'[a] > held[a] => held'[a] <= Limit \/ frozen'[a]
    <3>1. owed'[a] <= held'[a]
      BY <2>1, <2>3
    <3>2. ASSUME ~frozen'[a] PROVE held'[a] <= Limit
      <4>1. held[a] <= Limit
        BY <2>1, <2>3, <3>2
      <4>2. held'[a] > held[a] => held'[a] <= Limit
        BY <2>3, <3>2
      <4> QED
        BY <4>1, <4>2, <2>1
    <3> QED
      BY <3>1, <3>2
  <2> QED
    BY <2>2, <2>3 DEF Serve
<1> QED
  BY <1>1, <1>2 DEF PrepaidInv

\* A call begins only on what is held, and holds nothing itself.
LEMMA CallKeeps == PrepaidInv /\ Call => PrepaidInv'
<1> SUFFICES ASSUME PrepaidInv, Call PROVE PrepaidInv'
  OBVIOUS
<1>1. PrepaidTypeOK'
  BY DEF Call, PrepaidInv, PrepaidTypeOK
<1>2. ASSUME NEW a \in Accounts
      PROVE  owed'[a] <= held'[a] /\ (~frozen'[a] => held'[a] <= Limit)
  <2>1. /\ held'[a] = held[a] /\ frozen'[a] = frozen[a]
        /\ owed[a] \in Nat /\ held[a] \in Nat /\ owed'[a] \in Nat
        /\ owed[a] <= held[a] /\ (~frozen[a] => held[a] <= Limit)
        /\ owed'[a] > owed[a] => owed'[a] <= held[a]
    BY <1>1 DEF Call, PrepaidInv, PrepaidTypeOK
  <2>2. owed'[a] <= held[a]
    BY <2>1
  <2> QED
    BY <2>1, <2>2
<1> QED
  BY <1>1, <1>2 DEF PrepaidInv

\* The promise of durable budget authority (Store.Sync, Reserve and Finish
\* together): calls never begin on money that is not held back, and cost no
\* more than the limit unless the provider overran a bound.
THEOREM PrepaidNeverOverdrawn ==
  ASSUME Limit \in Nat
  PROVE  PrepaidSpec => []NeverOverdrawn
<1>1. PrepaidInv /\ [Serve \/ Call]_prepaidVars => PrepaidInv'
  <2> SUFFICES ASSUME PrepaidInv, [Serve \/ Call]_prepaidVars PROVE PrepaidInv'
    OBVIOUS
  <2>1. CASE UNCHANGED prepaidVars
    BY <2>1 DEF prepaidVars, PrepaidInv, PrepaidTypeOK
  <2> QED
    BY <2>1, ServeKeeps, CallKeeps
<1>2. PrepaidInv => NeverOverdrawn
  <2> SUFFICES ASSUME PrepaidInv, NEW a \in Accounts
               PROVE  owed[a] <= held[a] /\ (~frozen[a] => owed[a] <= Limit)
    BY DEF NeverOverdrawn
  <2>1. /\ owed[a] \in Nat /\ held[a] \in Nat
        /\ owed[a] <= held[a] /\ (~frozen[a] => held[a] <= Limit)
    BY DEF PrepaidInv, PrepaidTypeOK
  <2> QED
    BY <2>1
<1> QED
  BY <1>1, <1>2, PrepaidStarts, PTL DEF PrepaidSpec
===============================================================================
