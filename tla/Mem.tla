-------------------------------- MODULE Mem ---------------------------------
(***************************************************************************)
(* The memory of the test bench, testbench/mem.v: it accepts one request in  *)
(* every cycle under the lowest tag that is free, reads or writes the line at *)
(* once, and answers a read LATENCY cycles later, one in a cycle.             *)
(***************************************************************************)
EXTENDS Integers, FiniteSets, FiniteSetsExt

CONSTANTS
  LINE,        \* the lines of memory that are used
  NUM_TAGS,    \* NUM_MEM_TAGS, 15
  LATENCY      \* MEM_LATENCY_IN_CYCLES, 8

ASSUME MemAssumption ==
  /\ LINE \subseteq Nat /\ NUM_TAGS \in Nat \ {0} /\ LATENCY \in Nat \ {0}

VARIABLES unified_memory, cycles_left, waiting_for_bus, loaded_data

mem_vars == <<unified_memory, cycles_left, waiting_for_bus, loaded_data>>

MEM_TAG == 1 .. NUM_TAGS
DATA    == {0, 1}       \* a line has been written an even or odd number of times

MemInit ==
  /\ unified_memory = [a \in LINE |-> 0]
  /\ cycles_left = [t \in MEM_TAG |-> 0]
  /\ waiting_for_bus = [t \in MEM_TAG |-> FALSE]
  /\ loaded_data = [t \in MEM_TAG |-> 0]

\* mem2proc_response for a request: 0 when no tag is free.
FreeTags == {t \in MEM_TAG : cycles_left[t] = 0 /\ ~waiting_for_bus[t]}
mem2proc_response(command) ==
  IF command = "NONE" \/ FreeTags = {} THEN 0 ELSE Min(FreeTags)

\* mem2proc_tag: a read whose time is up, 0 when there is none.
Due == {t \in MEM_TAG : cycles_left[t] <= 1 /\ waiting_for_bus[t]}
mem2proc_tag  == IF Due = {} THEN 0 ELSE Min(Due)
mem2proc_data == loaded_data[mem2proc_tag]

MemCycle(command, addr, data) ==
  LET r == mem2proc_response(command)
  IN  /\ cycles_left' = [t \in MEM_TAG |->
           IF t = r THEN LATENCY ELSE IF cycles_left[t] > 0 THEN cycles_left[t] - 1 ELSE 0]
      /\ waiting_for_bus' = [t \in MEM_TAG |->
           IF t = r THEN command = "LOAD" ELSE waiting_for_bus[t] /\ t # mem2proc_tag]
      /\ loaded_data' = [t \in MEM_TAG |->
           IF t = r /\ command = "LOAD" THEN unified_memory[addr]
           ELSE IF t = mem2proc_tag THEN 0 ELSE loaded_data[t]]
      /\ unified_memory' = IF r # 0 /\ command = "STORE"
                             THEN [unified_memory EXCEPT ![addr] = data] ELSE unified_memory
=============================================================================
