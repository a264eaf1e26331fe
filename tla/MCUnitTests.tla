---------------------------- MODULE MCUnitTests ----------------------------
(* Small sizes of the six tests; the bus has its eight buffers. *)
EXTENDS UnitTests

MCNoEntry == [isn |-> 0, branch |-> FALSE, wr_mem |-> FALSE]
MCEntry   == {[isn |-> 1, branch |-> FALSE, wr_mem |-> FALSE],
              [isn |-> 1, branch |-> TRUE, wr_mem |-> FALSE],
              [isn |-> 2, branch |-> FALSE, wr_mem |-> FALSE]}
MCFetched == {<<>>} \cup {<<a>> : a \in MCEntry} \cup {<<a, b>> : a \in MCEntry, b \in MCEntry}

MCUnitsOf == [ALU |-> {4, 5}, BR |-> {6}]
\* Five instructions, each with a register of its own.
MCDispatch(k, n, a, b) ==
  [fuType |-> k, rd_mem |-> FALSE, allocates |-> TRUE, tag |-> n,
   tagA |-> [register |-> 1, ready |-> a], tagB |-> [register |-> 2, ready |-> b]]
MCDispatches ==
  {MCDispatch("ALU", 3, TRUE, TRUE), MCDispatch("ALU", 4, FALSE, TRUE),
   MCDispatch("ALU", 5, FALSE, FALSE), MCDispatch("BR", 6, TRUE, FALSE),
   MCDispatch("BR", 7, TRUE, TRUE)}
MCBusies == {{}, {4}, {6}, {4, 5}, {4, 5, 6}}

MCTagOlds == {<<0, 1>>}
=============================================================================
