---------------------------- MODULE BranchStack ----------------------------
(***************************************************************************)
(* The branch stack (BranchStack.v): a checkpoint of the map, of the free   *)
(* list's head and of the reorder buffer's tail for every branch in flight. *)
(* bmask holds the branches an entry was dispatched behind: when one of     *)
(* them turns out mispredicted the entry dies with it.                      *)
(* An entry that is not valid is only ever overwritten, so what the code    *)
(* leaves in it is abstracted to NoEntry.  The checkpoint of the store      *)
(* queue (sq_tail, sq_empty) belongs to the store queue's model.            *)
(***************************************************************************)
EXTENDS SysDefs, Sequences

VARIABLE bs_stack

BSEntry == [valid : BOOLEAN, fl_head : FL_PTR, rob_tail : ROB_PTR,
            map : RegisterMap, bmask : B_MASK]

NoEntry == [valid |-> FALSE, fl_head |-> 0, rob_tail |-> 0, bmask |-> {},
            map |-> [r \in NAMED_REG |-> [register |-> 0, ready |-> FALSE]]]

BSInit == bs_stack = [b \in BS_PTR |-> NoEntry]

\* The valid bits, which are also the mask of whatever is dispatched now.
bs_bmask == {b \in BS_PTR : bs_stack[b].valid}

\* The slot the next branch takes: the lowest free one, or the last.
bs_ptr ==
  IF bs_bmask = BS_PTR THEN BS_SIZE - 1
  ELSE CHOOSE b \in BS_PTR \ bs_bmask : \A c \in BS_PTR \ bs_bmask : b <= c

\* A branch takes a slot only as the last instruction of its cycle.
BranchDispatched(n, isns) == n >= 1 /\ isns[n].branch

\* (fault) The instruction dispatched before the branch is not counted.
CheckpointOne(n, flh, tail, next_map) ==
  [valid |-> TRUE, fl_head |-> Wrap(flh + 1), rob_tail |-> Wrap(tail + 1),
   map |-> next_map, bmask |-> bs_bmask]

Checkpoint(n, flh, tail, next_map) ==
  [valid |-> TRUE, fl_head |-> Wrap(flh + n), rob_tail |-> Wrap(tail + n),
   map |-> next_map, bmask |-> bs_bmask]

\* (fault) A checkpoint is not told of the broadcasts after it was taken.
FilledDeaf(b, n, isns, flh, tail, next_map, cdb) ==
  IF BranchDispatched(n, isns) /\ b = bs_ptr
    THEN Checkpoint(n, flh, tail, next_map)
    ELSE bs_stack[b]

\* The entry that dispatch leaves in slot b, its map told of the broadcasts.
Filled(b, n, isns, flh, tail, next_map, cdb) ==
  LET e == IF BranchDispatched(n, isns) /\ b = bs_ptr
             THEN Checkpoint(n, flh, tail, next_map)
             ELSE bs_stack[b]
  IN  IF e.valid THEN [e EXCEPT !.map = MarkReady(@, cdb)] ELSE NoEntry

(* The clock edge when no branch resolves. *)
BSCycle(n, isns, flh, tail, next_map, cdb) ==
  bs_stack' = [b \in BS_PTR |-> Filled(b, n, isns, flh, tail, next_map, cdb)]

\* (fault) The branch dispatched in this very cycle keeps the mask bit.
BSCorrectLate(br, n, isns, flh, tail, next_map, cdb) ==
  bs_stack' =
    [b \in BS_PTR |->
       IF b = br THEN NoEntry
       ELSE IF bs_stack[b].valid
         THEN [Filled(b, n, isns, flh, tail, next_map, cdb)
                 EXCEPT !.bmask = @ \ {br}]
         ELSE Filled(b, n, isns, flh, tail, next_map, cdb)]

(* The branch in slot br was predicted right: nothing depends on it any    *)
(* more, and what is dispatched in this very cycle does not either.        *)
BSCorrect(br, n, isns, flh, tail, next_map, cdb) ==
  bs_stack' =
    [b \in BS_PTR |->
       IF b = br THEN NoEntry
       ELSE [Filled(b, n, isns, flh, tail, next_map, cdb)
               EXCEPT !.bmask = @ \ {br}]]

\* (fault) The younger branches keep their checkpoints.
BSWrongOnly(br, cdb) ==
  bs_stack' =
    [b \in BS_PTR |->
       IF b = br THEN NoEntry ELSE Filled(b, 0, <<>>, 0, 0, <<>>, cdb)]

(* It was predicted wrong: it goes, and so does all that was behind it.    *)
BSWrong(br, cdb) ==
  bs_stack' =
    [b \in BS_PTR |->
       IF b = br \/ br \in bs_stack[b].bmask THEN NoEntry
       ELSE Filled(b, 0, <<>>, 0, 0, <<>>, cdb)]
=============================================================================
