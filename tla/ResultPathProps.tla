--------------------------- MODULE ResultPathProps ---------------------------
(* What must be true of ResultPath. *)
EXTENDS ResultPath

(* The stations, the unit and its buffer hold entries of their types, and    *)
(* the program order names each of its members once.                         *)
TypeOK ==
  /\ WindowOK /\ Len(window) <= WINDOW
  /\ rs \subseteq Result
  /\ fus \in FubEntry
  /\ fub \in [{0, 1} -> FubEntry]

\* Where instructions are, from the stations (0) to the head of the buffer.
Unit == <<fus, fub[0], fub[1]>>
Held == {<<0, e>> : e \in rs} \cup {<<i, Unit[i]>> : i \in {j \in 1 .. 3 : Unit[j].valid}}

(* Every instruction that has neither been broadcast nor squashed is in      *)
(* exactly one place, and nothing else is anywhere: no result is lost when   *)
(* the buffer fills, when entries move up in the cycle of a misprediction,    *)
(* or between fub_busy and the issue that depends on it (RS.v:150-263,        *)
(* FUBi.v:49-152); none is broadcast twice, and none after its squash.        *)
EachResultOnce ==
  /\ {c[2].tag : c \in Held} = LiveTags
  /\ Cardinality(Held) = Cardinality(LiveTags)

(* Wherever it is, an instruction's mask names the older branches that are   *)
(* not resolved - also when the branch resolves in the cycle of dispatch, of  *)
(* issue, of execution, or of a move in the buffer (RS.v:137-148, 277-280,     *)
(* FUBi.v:43-45, 128-130).  A bit too many squashes it with a later branch in  *)
(* the same slot, a bit too few lets it survive its own.                       *)
MasksExact == \A c \in Held : c[2].bmask = OlderBranches(c[2].tag)

(* The waiting entry is only used behind a valid one: the bus never overlooks *)
(* a result (FUBi.v:31 offers buffer[1] only).                                 *)
NothingBehindAGap == fub[0].valid => fub[1].valid
=============================================================================
