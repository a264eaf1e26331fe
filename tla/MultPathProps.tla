---------------------------- MODULE MultPathProps ----------------------------
(* What must be true of MultPath. *)
EXTENDS MultPath

\* The last stage holds what the buffer has already taken.
Copied == fub[0].valid /\ stage[STAGES].done /\ stage[STAGES].tag = fub[0].tag

\* Where instructions are: the stations, the unit's input, the stages, the buffer.
InStages ==
  {i \in 1 .. STAGES : stage[i].done /\ ~(i = STAGES /\ Copied)}
HeldProducts ==
  {[at |-> 0, tag |-> e.tag, bmask |-> e.bmask] : e \in rs}
  \cup {[at |-> i, tag |-> stage[i].tag, bmask |-> stage[i].bmask] : i \in InStages}
  \cup {[at |-> STAGES + 1 + i, tag |-> fub[i].tag, bmask |-> fub[i].bmask] :
          i \in {j \in {0, 1} : fub[j].valid}}
  \cup (IF fus.valid THEN {[at |-> STAGES + 3, tag |-> fus.tag, bmask |-> fus.bmask]}
        ELSE {})

(* Every instruction that has neither been broadcast nor squashed is in      *)
(* exactly one place, through stalls that begin and end anywhere in the       *)
(* pipeline and bubbles that close up (pipe_mult_fu.v:45-84).                 *)
EachProductOnce ==
  /\ {c.tag : c \in HeldProducts} = LiveTags
  /\ Cardinality(HeldProducts) = Cardinality(LiveTags)

(* Every instruction keeps its own mask on the way through the stages.       *)
ProductMasksExact == \A c \in HeldProducts : c.bmask = OlderBranches(c.tag)

(* A full buffer is always full because of the stage before it: fub_busy      *)
(* makes the last stage hold what the buffer takes in the same cycle          *)
(* (FUBi.v:56, 119-122), and nothing releases it before the copy has moved.   *)
(* Otherwise the buffer, which drops what arrives while it is full            *)
(* (FUBi.v:110-121), would lose a result.                                     *)
FullMeansCopied == fub[0].valid => fub[1].valid /\ Copied
=============================================================================
