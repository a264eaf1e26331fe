-------------------------------- MODULE FUBi --------------------------------
(***************************************************************************)
(* The two-entry buffer behind every functional unit, FU/FUBi.v, in which a *)
(* result waits for the common data bus: buffer[1] is offered to the bus,   *)
(* buffer[0] waits behind it.                                                *)
(*                                                                          *)
(* killed is the branch mispredicted in this cycle, as a set of at most one  *)
(* checkpoint; cleared is the one that resolved as predicted.  The contents  *)
(* of an invalid entry are never read; NoResult stands for all of them.      *)
(***************************************************************************)
EXTENDS Integers, FiniteSets, Sequences

CONSTANTS
  TAG,            \* destination registers
  PHYS_ZERO_REG,  \* what stands in the tag of nothing
  BRANCH          \* checkpoints

ASSUME TagAssumption == PHYS_ZERO_REG \notin TAG

Result   == [valid : {TRUE}, tag : TAG, bmask : SUBSET BRANCH]
NoResult == [valid |-> FALSE, tag |-> PHYS_ZERO_REG, bmask |-> {}]
FubEntry == Result \cup {NoResult}

Hit(e, killed) == e.valid /\ e.bmask \cap killed # {}

Clear(e, cleared) ==
  IF e.valid THEN [valid |-> TRUE, tag |-> e.tag, bmask |-> e.bmask \ cleared]
  ELSE NoResult

\* (fault) The entry just computed is not counted.
fub_busyLate(buffer, fu, stall, killed) ==
  /\ ~Hit(buffer[1], killed) /\ ~Hit(buffer[0], killed)
  /\ buffer[0].valid /\ buffer[1].valid /\ stall
\* What the unit, or the station that feeds it, is told of the next cycle.
fub_busy(buffer, fu, stall, killed) ==
  /\ ~Hit(buffer[1], killed) /\ ~Hit(buffer[0], killed)
  /\ buffer[1].valid /\ stall
  /\ buffer[0].valid \/ fu.valid

Pair(one, zero) == [i \in {0, 1} |-> IF i = 1 THEN one ELSE zero]

\* No misprediction: move up, and take what the unit has computed.
\* (fault) With nothing waiting, the new result goes behind.
MovedBehind(buffer, fu, stall) ==
  IF ~buffer[0].valid THEN Pair(IF stall THEN buffer[1] ELSE NoResult, fu)
  ELSE IF stall THEN buffer ELSE Pair(buffer[0], NoResult)
Moved(buffer, fu, stall) ==
  IF buffer[1].valid /\ ~stall
    THEN IF buffer[0].valid THEN Pair(buffer[0], NoResult) ELSE Pair(fu, buffer[0])
  ELSE IF buffer[1].valid
    THEN Pair(buffer[1], IF buffer[0].valid THEN buffer[0] ELSE fu)
  ELSE Pair(fu, buffer[0])

\* A misprediction: the same among the entries that remain.
\* (fault) The waiting entry is kept when it moves up.
SquashedMovingAll(buffer, fu, stall, killed) ==
  IF Hit(buffer[1], killed) \/ ~buffer[1].valid
    THEN IF buffer[0].valid THEN Pair(buffer[0], NoResult) ELSE Pair(fu, NoResult)
  ELSE Moved(buffer, fu, stall)
Squashed(buffer, fu, stall, killed) ==
  IF Hit(buffer[1], killed) \/ ~buffer[1].valid
    THEN IF Hit(buffer[0], killed) THEN Pair(NoResult, NoResult)
         ELSE IF buffer[0].valid THEN Pair(buffer[0], NoResult)
         ELSE Pair(fu, NoResult)
  ELSE IF Hit(buffer[0], killed)
    THEN Pair(IF stall THEN buffer[1] ELSE NoResult, NoResult)
  ELSE Moved(buffer, fu, stall)

next_buffer(buffer, fu, stall, killed, cleared) ==
  LET new == Clear(fu, cleared)
      b   == IF killed # {} THEN Squashed(buffer, new, stall, killed)
             ELSE Moved(buffer, new, stall)
  IN  Pair(Clear(b[1], cleared), Clear(b[0], cleared))
=============================================================================
