----------------------------- MODULE MC_Escrow -----------------------------
(***************************************************************************)
(* Four instances of Escrow for TLC, as scenes of one run: a gateway that   *)
(* crashes while calls are open; one whose requests arrive late and whose   *)
(* calls overrun; one whose journal is backed up, restored and cloned; and  *)
(* one whose operator edits the budget while the calendar turns.            *)
(***************************************************************************)
EXTENDS Escrow

CONSTANTS disk, clone, team

VARIABLE scene

Hard(limit, grant) == [limit |-> limit, grant |-> grant, hard |-> TRUE]

\* A budget of two units given out one or two at a time, the same given out as
\* a whole, and the same made soft.
Narrow == Hard(2, 1)
Wide == Hard(2, 2)
Soft == [Hard(2, 1) EXCEPT !.hard = FALSE]
MCDefinitions == {Narrow, Wide, Soft}

\* A free call, one of which nothing is known, one that costs more than its
\* bound (two of them overflow MaxInt), and one with an impossible report.
Exactly(n) == [actual |-> n, known |-> TRUE, complete |-> TRUE, invalid |-> FALSE]
Unknown == [actual |-> 0, known |-> FALSE, complete |-> FALSE, invalid |-> FALSE]
Invalid == [Exactly(0) EXCEPT !.invalid = TRUE]
MCOutcomes == {Exactly(0), Unknown, Exactly(3), Invalid}

-----------------------------------------------------------------------------
OnlyDisk == file[disk] # NoFile /\ file[clone] = NoFile

\* Bounds of the scenes: all but one of the boots, grants and calls while the
\* gateway crashes; a restart or a second grant while calls overrun; one
\* exchange at a time, and a restart or a second call, while a journal has a
\* clone; a restart or a new window while the operator edits.
CallsMade == Cardinality(DOMAIN bill)

InScene ==
  CASE scene = "crash"   -> /\ OnlyDisk /\ budget[team] = Narrow /\ window = 0 /\ late = {}
                            /\ boots + minted + CallsMade <= 5
    [] scene = "overrun" -> OnlyDisk /\ budget[team] = Wide /\ window = 0 /\ boots + minted <= 3
    [] scene = "restore" -> /\ budget[team] = Wide /\ window = 0 /\ late = {} /\ minted <= 1
                            /\ boots + CallsMade <= 3
                            /\ link[disk] = Quiet \/ link[clone] = Quiet
    [] scene = "edits"   -> /\ OnlyDisk /\ budget[team] # Narrow /\ late = {} /\ minted <= 1
                            /\ CallsMade <= 1 /\ boots + window <= 2

MCInit == scene \in {"crash", "overrun", "restore", "edits"} /\ Init /\ InScene /\ file[disk] # NoFile

\* Which journals, bounds, outcomes and definitions a scene plays with.
ScenesFiles == IF scene = "restore" THEN Files ELSE {disk}
ScenesBounds == IF scene = "crash" THEN {1, 2} ELSE {1}
ScenesOutcomes ==
  CASE scene = "crash" -> {Exactly(0), Unknown}
    [] scene = "overrun" -> {Exactly(0), Exactly(3), Invalid}
    [] OTHER -> {Exactly(0)}
ScenesDefinitions ==
  CASE scene = "crash" -> {Narrow}
    [] scene = "edits" -> {Wide, Soft}
    [] OTHER -> {Wide}

MCNext ==
  /\ UNCHANGED scene
  /\ \/ Steps(ScenesFiles, ScenesBounds, ScenesOutcomes, ScenesDefinitions)
     \/ scene = "restore" /\ Disasters(Files)
  /\ InScene'
=============================================================================
