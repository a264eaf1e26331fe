------------------------------ MODULE StoreFifo -----------------------------
(***************************************************************************)
(* What the store queue promises: stores wait in program order; the oldest  *)
(* are marked when they retire, only once executed; the oldest retired one  *)
(* goes to memory; a misprediction takes away youngest ones that have not   *)
(* retired, and nothing else ever does.                                      *)
(***************************************************************************)
EXTENDS Integers, Sequences, FiniteSets

CONSTANTS Capacity, Address

VARIABLE pending

Store == [addr : Address, executed : BOOLEAN, retired : BOOLEAN]
NewStore == [addr |-> 0, executed |-> FALSE, retired |-> FALSE]

Init == pending = <<>>

NRetired(s) == Cardinality({i \in DOMAIN s : s[i].retired})

\* Up to two stores that have not executed get their address.
Executed(s, S, address) ==
  [i \in DOMAIN s |->
     IF i \in S THEN [addr |-> address[i], executed |-> TRUE, retired |-> s[i].retired]
     ELSE s[i]]

\* The next r stores retire.
Retired(s, r) ==
  [i \in DOMAIN s |->
     [addr |-> s[i].addr, executed |-> s[i].executed,
      retired |-> i <= NRetired(s) + r]]

\* The oldest one goes to memory, or none.
Sent(s, one) == IF one THEN Tail(s) ELSE s

Step(S, r, one) ==
  \E address \in [S -> Address] :
    LET marked == Retired(Executed(pending, S, address), r)
        rest   == Sent(marked, one)
    IN  /\ one => NRetired(marked) > 0
        /\ \/ \E new \in 0 .. 2 :                               \* dispatch
                /\ Len(pending) + new <= Capacity
                /\ pending' = rest \o [k \in 1 .. new |-> NewStore]
           \/ \E kept \in NRetired(rest) .. Len(rest) :         \* squash
                pending' = SubSeq(rest, 1, kept)

Next ==
  \E r \in 0 .. 2, one \in BOOLEAN :
    /\ NRetired(pending) + r <= Len(pending)
    /\ \A i \in 1 .. NRetired(pending) + r : pending[i].executed
    /\ \E S \in {T \in SUBSET {i \in DOMAIN pending : ~pending[i].executed} :
                   Cardinality(T) <= 2} :
         Step(S, r, one)

Spec == Init /\ [][Next]_pending
=============================================================================
