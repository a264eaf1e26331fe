----------------------------- MODULE MemoryProps ----------------------------
(***************************************************************************)
(* What the caches and the miss registers owe to loads and to fetching.       *)
(***************************************************************************)
EXTENDS Memory

(* The data cache never holds a line that differs from memory, however long   *)
(* ago the answer that filled it was read there.  (dcache.v:45-61: a store     *)
(* writes both; CacheCtrl.v:305-313: the answer to a load that was squashed    *)
(* is not kept.)                                                               *)
CacheCoherent ==
  \A i \in DOMAIN dcache :
    dcache[i] # None => dcache[i].data = unified_memory[dcache[i].addr]

(* The valid miss registers of loads are the loads that were sent and not      *)
(* squashed, one each, with the branches before them that are not resolved;    *)
(* memory still owes the answer, and it is what a load would read now.         *)
(* (CacheCtrl.v:326-350.)                                                      *)
Misses == {t \in MEM_TAG : statuses[t].valid /\ statuses[t].is_load}
Holds(t, p) ==
  statuses[t] = Status(TRUE, window[p].addr, window[p].id, OlderBranches(p))
MissesExact ==
  /\ \A p \in Positions("load") \ Waiting : \E t \in Misses : Holds(t, p)
  /\ \A t \in Misses :
       /\ \E p \in Positions("load") \ Waiting : Holds(t, p)
       /\ waiting_for_bus[t] /\ loaded_data[t] = unified_memory[statuses[t].addr]

(* Fetching always gets a line again: no request is held back for ever by one  *)
(* on its way for the same line, which may be another's, squashed or evicted.  *)
(* (CacheCtrl.v:220-248, 282-303.)                                             *)
FetchServed == []<>icache_valid(pc)
=============================================================================
