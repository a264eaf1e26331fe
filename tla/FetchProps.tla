----------------------------- MODULE FetchProps ------------------------------
(***************************************************************************)
(* What fetching owes to the program.                                          *)
(***************************************************************************)
EXTENDS Fetch

\* The first word from a on that is not zero, or Beyond if there is none.
Beyond     == -1
Ahead(a)   == {b \in DOMAIN CODE : b >= a /\ KindAt(b) # "zero"}
Skipped(a) == IF Ahead(a) = {} THEN Beyond ELSE Min(Ahead(a))

Buffered == [k \in 1 .. numIns_buffer |-> ib_buffer[IBWrap(ib_head + k - 1)]]

\* Where an entry leads: only for a branch is the prediction used.
Onward(e) == IF e.branch THEN e.pred_NPC ELSE e.addr + 1

\* The path from the oldest instruction in flight to the youngest one fetched
\* that will not be squashed, and where each one leads: where it really goes,
\* or where it is predicted to go.
Path ==
  LET here == [p \in 1 .. Kept |->
                 [addr |-> flight[p].addr,
                  to |-> IF flight[p].npc # Unresolved THEN flight[p].npc
                         ELSE flight[p].entry.pred_NPC]]
  IN  IF br.pred_wrong THEN here
      ELSE here \o [k \in DOMAIN Buffered |->
                      [addr |-> Buffered[k].addr, to |-> Onward(Buffered[k])]]
Leads == IF Path = <<>> THEN arch_NPC ELSE Last(Path).to

(* What is in flight and in the buffer is one path: it begins where the         *)
(* program goes on after the last retirement, every instruction is the one its  *)
(* predecessor leads to, and fetching goes on from its end, be that the address *)
(* a misprediction gives; fetching has stopped only when the path ends with a   *)
(* halt.  (if_stage.v:107-177, BP.v:214-224, InstrBuffer.v:158-212,             *)
(* branch_fu.v:95-113.)                                                         *)
OnePath ==
  /\ Path # <<>> => Path[1].addr = Skipped(arch_NPC)
  /\ \A k \in 1 .. (Len(Path) - 1) : Path[k + 1].addr = Skipped(Path[k].to)
  /\ IF br.pred_wrong THEN br.recov_NPC = Leads
     ELSE IF halt_fetched THEN Path = <<>> \/ KindAt(Last(Path).addr) = "halt"
     ELSE Skipped(PC_reg) = Skipped(Leads)

(* No more is offered to dispatch than there are checkpoints and store slots    *)
(* for, whatever stale entry stands behind the last one, and what follows a     *)
(* branch waits for the next cycle.  (InstrBuffer.v:78-153.)                    *)
OfferFits ==
  \A full \in BOOLEAN, sq \in 0 .. 2 :
    LET n     == ib_nIsnBuffer(full, sq)
        offer == ib_data(n)
    IN  /\ n <= numIns_buffer
        /\ Cardinality({k \in DOMAIN offer : IsStore(offer[k].addr)}) <= sq
        /\ \A k \in DOMAIN offer : IsBranch(offer[k].addr) => ~full /\ k = n

(* The program goes on: instructions retire for ever, unless a halt has, on     *)
(* the path that the program really takes.  (if_stage.v:107-177.)               *)
Halted   == halt_fetched /\ ~br.pred_wrong /\ Path = <<>>
GoesOn == []<><<Halted \/ arch_NPC' # arch_NPC>>_vars \/ <>[]Halted

-----------------------------------------------------------------------------
(* A small instance: a loop with a jump that has two targets, stores in a row, *)
(* words of zero before a store and before another word, and a halt.            *)
Plain(kind) == [kind |-> kind, targets |-> {}]
Program ==
  0 :> Plain("zero") @@ 1 :> Plain("store") @@ 2 :> Plain("store")
  @@ 3 :> [kind |-> "cond", targets |-> {6}]
  @@ 4 :> [kind |-> "jump", targets |-> {0, 5}]
  @@ 5 :> Plain("zero") @@ 6 :> Plain("op") @@ 7 :> Plain("halt")

Cleared == [addr |-> 0, branch |-> FALSE, wr_mem |-> FALSE, pred_taken |-> FALSE,
            pred_NPC |-> 0, not_taken_NPC |-> 0]
=============================================================================
