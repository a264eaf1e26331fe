------------------------------ MODULE MCRename ------------------------------
(* Instructions for model checking Rename. *)
EXTENDS RenameProps, TLC

Writes(r) == [dest |-> r, branch |-> FALSE, wr_mem |-> FALSE,
              halt |-> FALSE, noop |-> FALSE]
Branch == [Writes(ZERO_REG) EXCEPT !.branch = TRUE]
Link   == [Writes(0) EXCEPT !.branch = TRUE]
Noop   == [Writes(ZERO_REG) EXCEPT !.noop = TRUE]
Halt   == [Writes(ZERO_REG) EXCEPT !.halt = TRUE]

Core == {Writes(r) : r \in NAMED_REG} \cup {Branch}
Kinds == Core \cup {Noop, Halt}
Less == {Writes(0), Branch}
\* With two named registers.
Two  == {Link, Writes(1)}
=============================================================================
