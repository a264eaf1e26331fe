------------------------------ MODULE InOrder ------------------------------
(***************************************************************************)
(* What renaming promises, without rings, pointers, counters or            *)
(* checkpoints: a window of instructions in program order.  Instructions   *)
(* enter at its end with a register nobody uses, leave from its front once  *)
(* complete, and a misprediction cuts it down to a prefix.  arch is the map *)
(* of the instructions that left, spec the map after the whole window.      *)
(***************************************************************************)
EXTENDS Integers, Sequences

CONSTANTS Named, Registers, Zero, Capacity, Width

VARIABLES window, arch, spec

abstract_vars == <<window, arch, spec>>

Used == {arch[r] : r \in Named} \cup {window[k].tag : k \in 1 .. Len(window)}
Free == Registers \ (Used \cup {Zero})

\* The map once the instructions of w have left.
After(m, w) ==
  LET f[k \in 0 .. Len(w)] ==
        IF k = 0 THEN m
        ELSE [r \in Named |-> IF f[k - 1][r] = w[k].tagOld THEN w[k].tag
                              ELSE f[k - 1][r]]
  IN  f[Len(w)]

AbstractInit ==
  /\ window = <<>>
  /\ arch = [r \in Named |-> r]
  /\ spec = arch

\* The window without its first k instructions, all of them complete.
Leaves(k) == k <= Len(window) /\ \A j \in 1 .. k : window[j].complete

\* v is w with some more instructions complete.
Progressed(w, v) ==
  /\ Len(v) = Len(w)
  /\ \A k \in 1 .. Len(w) :
       /\ v[k].tag = w[k].tag
       /\ v[k].tagOld = w[k].tagOld
       /\ w[k].complete => v[k].complete

\* The instructions of new take free registers, one each, and one that
\* writes a register replaces the one mapped there.
Enters(new) ==
  \A k \in 1 .. Len(new) :
    /\ new[k].tag \in Free
    /\ \A j \in 1 .. k - 1 : new[j].tag # new[k].tag
    /\ new[k].tagOld = Zero
         \/ \E r \in Named :
              new[k].tagOld = After(spec, SubSeq(new, 1, k - 1))[r]

\* What is left after the oldest left, and what enters behind it, is v.
Dispatches(left, v) ==
  /\ Len(v) \in Len(left) .. Len(left) + Width /\ Len(v) <= Capacity
  /\ Progressed(left, SubSeq(v, 1, Len(left)))
  /\ LET new == SubSeq(v, Len(left) + 1, Len(v))
     IN  Enters(new) /\ spec' = After(spec, new)

\* What is left is cut down to the prefix v.
Squashes(left, v) ==
  /\ Len(v) \in 1 .. Len(left)
  /\ Progressed(SubSeq(left, 1, Len(v)), v)
  /\ spec' = After(arch', v)

Cycle ==
  \E k \in 0 .. Width, v \in {window'} :
    /\ Leaves(k)
    /\ arch' = After(arch, SubSeq(window, 1, k))
    /\ LET left == SubSeq(window, k + 1, Len(window))
       IN  Dispatches(left, v) \/ Squashes(left, v)

AbstractSpec == AbstractInit /\ [][Cycle]_abstract_vars
=============================================================================
