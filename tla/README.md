# A TLA+ model of the r10k2way processor core

The repository is a two-way superscalar, out-of-order processor in
SystemVerilog: Alpha instructions, register renaming in the style of the MIPS
R10000, branch prediction, checkpoints, a store queue, and non-blocking caches.
Beside it stand unit tests that compare the Verilog with simulators in C, and a
visual debugger in C. This directory is their formal model: TLA+ modules
written from the Verilog and the C, TLC runs that check them on small sizes, and
theorems that TLAPS proves for every size.

The hardware is synchronous. **One step of its models is one clock cycle**: the
wires of the cycle (`assign`, `always_comb`) are operators of the current
state, the registers (`always_ff`) are variables, and the clock edge is a
conjunction of primed assignments. What a component does not know (the
instructions that are fetched, the order in which functional units finish, the
outcome of branches) is chosen with `\E`. The debugger is two processes: one
step of its model is what one of them does between two calls that may block.

## 1. Inventory

| component (src/verilog) | state | operations | correct when |
|---|---|---|---|
| `ROB.v` reorder buffer, 32 entries | `buffer`, `head`, `rob_tail`, `rob_availableSlots`, `rob_halted` | retire up to 2, complete (CAM), dispatch up to 2, recover the tail | retires in program order and only what is complete; the counter tells the distance of the pointers; a recovery keeps exactly what is not younger than the branch |
| `FreeList.v`, 32 registers | `free`, `fl_head`, `fl_tail`, `fl_availableRegs` | hand out 2, take back 2, roll the head back | no register has two owners, none is lost |
| `MapTable.v`, `ArchTable.v` | `map` with ready bits, `at_map` | rename, mark ready, restore; retire | the map is the architectural map after all that is in flight; ready means computed |
| `BranchStack.v`, 4 checkpoints | `bs_stack` | take a checkpoint, keep its ready bits current, clear or squash by mask | each checkpoint is the precise state of its branch; masks order the branches |
| `if_id_hazard.v` | none | how many instructions go on this cycle | never more than there is room for |
| `InstrBuffer.v`, 8 entries | ring, count | fill, offer 0..2 (limits for branches and stores), flush | FIFO; never overfilled |
| `RS.v`, 8 stations | stations with ready bits and masks | allocate 2, wake up, select 2, squash | nothing is lost or issued twice; no issue before the operands are there |
| `CDB.v` | none | 2 broadcasts out of 8 sources by fixed priority, squash by mask | every result is broadcast once; a squashed one is not |
| `FU/*.v` ALU, multiplier (4 stages), branch unit, result buffers (`FUBi.v`) | pipeline registers, 2 buffers each | execute, stall, buffer, squash | no result is lost, duplicated or broadcast after its squash |
| `regfile.v`, `decoder.v` | registers / none | forward, read, write; decode | reads see the broadcast of the cycle |
| `DMEM/SQ.v` store queue, 8 entries | ring, addresses, retired marks, three pointers | allocate, execute, load look-up, retire, send to memory, recover | stores reach memory once, in order, only when retired; a load sees the youngest older store |
| `DMEM/dmemFU.v`, `memAlu.v`, `dcache.v` | result buffers, cache lines | address, look-up, request, result | a load's value is the program's |
| `CacheCtrl.v`, 15 miss registers | MSHRs, pending stores | arbitrate one request per cycle, match answers, squash | every request is answered to the right place once |
| `IMEM/*.v` fetch, predictor, prefetchers, instruction cache | PC, BTB, BHT, prefetch window, lines | predict, fetch 2, redirect, halt | the fetched path is the predicted one |
| `pipeline.v` | `halted` | wiring | halts only when the stores are out |
| `testbench/mem.v` (outside the core) | 15 tags, latency | accept, answer | environment |
| `testbench/*PrintSim.c`, `*UnitTest.v` | a second version of seven modules, in C | the same step from the same inputs, compare | agrees with the Verilog |
| `testbench/visual/visual_c_hooks.c` visual debugger | two processes, two pipes, a ring of 256 records | print a record per edge; step, back, run, go to a time, quit | the ring is the last records, whole; the user sees one of them; a run comes back; quitting ends both |

Behaviours that are hard to test: everything above happens *in the same
cycle*. Retirement moves the heads while a misprediction moves the tails;
broadcasts hit entries that are being squashed, restored or allocated; the
same register is freed and allocated through pointers whose distance is 0 both
when a ring is empty and when it is full; branches resolve out of order, with
checkpoints being reused; memory answers arrive long after the load that asked
has been squashed. `PROJECT.json` lists these hazards at their lines with the
properties that cover them. The debugger's hazards are those of any two
processes with pipes: who waits for whom, and what is drawn while a record is
half read.

## 2. Plan

In the order of what hurts most when it is wrong.

| step | modules | question | state |
|---|---|---|---|
| 1 | `SysDefs`, `ROB`, `FreeList`, `MapTable`, `BranchStack`, composed by `Rename`; abstract `InOrder` | precise state through out-of-order completion, retirement and recovery in the same cycle | done; every safety property and the refinement proved |
| 2 | `SQ`, composed by `MemOrder`; abstract `StoreFifo` | stores in order, once, after retirement; loads see the right store | done; every safety property and the refinement proved |
| 3 | `FUBi`, `Station`, composed by `ResultPath` and `MultPath` | a result reaches the bus once or is squashed | done; every safety property proved |
| 4 | `Mem`, `CacheCtrl`, composed by `Memory` | miss registers, squash of waiting loads, stale fills, refused requests, fetching is served | done; every safety property proved |
| 5 | `RS`, `CDB`, composed with `FUBi` as `Execute` | no lost or early wake-up; nothing dispatched is lost or issued twice | done; every safety property proved |
| 6 | `BP`, `IfStage`, `InstrBuffer`, composed as `Fetch` | what is fetched is the predicted path; halts and flushes | done; every safety property proved |
| 7 | `RenameSims`, `IssueSims`, composed with the hardware modules as `UnitTests` | where the unit tests' simulators agree with the Verilog, and where not | done but for the store queue's |
| 8 | `Debugger` | the two processes of the visual debugger | done; every safety property proved |
| 9 | `RenameProofs`, `Subsequence`, `PathProofs`, `MemoryProofs`, `MemOrderProofs`, `ExecuteProofs`, `FetchProofs`, `DebuggerProofs` | steps 1 to 6, and 8, for every size (section 7) | done |
| 10 | abstract memory that answers each live request once, implemented by `Memory`; an abstract data-flow window implemented by `Execute` | refinements | open |

The prefetchers have no step of their own: which address they choose affects
speed alone, and `Memory` lets any line of the program be prefetched at any
time, which contains what both of them do.

## 3. Modules and code

Names are the code's names. Each step of a composed module is one clock cycle
of all the components in it; a component module has one operator per wire and
one action for each thing that the branch unit may report (`...Cycle` without a
misprediction, `...Recover` or `...Wrong` with one). `PROJECT.json` maps every
definition to its lines.

**Rename.** `ROB.tla` keeps `buffer`, the pointers, the count and the halt
flag; `ROBCycle` retires (`rob_nRetired`), completes by comparing tags,
allocates and counts, `ROBRecover` moves the tail back to the checkpoint's.
`FreeList.tla` pushes `freed_reg` of what retires and hands out from `fl_head`.
`MapTable.tla` holds both maps. `BranchStack.tla` holds the checkpoints;
`Checkpoint` takes one, `Filled` lets all hear the broadcasts, `BSCorrect` and
`BSWrong` resolve. `Rename.tla` wires them as `pipeline.v` does, with
`haz_nDispatched`. The environment picks what the instruction buffer offers
(not more than one branch, nothing after a halt), how many stations are free
(`RSFree`), which waiting results are broadcast and which branch resolves how.
A checkpoint that is not valid is `NoEntry`: its stale contents are never
read. Stale entries of the reorder buffer, whose tags the CAM of `ROB.v:118`
does compare, are kept.

**MemOrder.** `SQ.tla` is the ring with its three pointers, address flags and
retired marks. `MemOrder.tla` adds what its users remember: `window`, the
loads, stores and branches in flight, each with the index, the empty flag or the
checkpoint tail that the code stores in the station or the branch stack. Loads
are issued by `canLoadIssue` and look the queue up in the next cycle, as the
register between `RS.v` and the unit makes them. When something executes or
retires, and whether memory takes the head, is the environment's choice.
A store's data is not modelled: it stays in its slot.

**ResultPath, MultPath.** `FUBi.tla` is the two-entry buffer as a function of a
cycle's inputs; `Station.tla` is what feeds one unit: instructions in the
stations with their masks, the choice of one of them (refused while the unit
says busy), its arrival one cycle later. `ResultPath.tla` is a unit of one
cycle, `GATED` as the ALUs and the branch unit are, or not, as the memory unit
is. `MultPath.tla` puts the multiplier's stages between; `STAGES` is
`NUM_STAGE - 1`, the last stage being combinational. The bus grants or stalls
whatever is valid and not mispredicted, in any pattern: a superset of what the
arbitration in `CDB.tla` does with seven other buffers. `window`, the program
order, is not in the hardware; it defines which masks are right.

**Execute.** `RS.tla` is the stations: the two scans for an instruction to
issue, the two scans for a free slot, the wake-up of entries and of the
instruction that is being dispatched. `CDB.tla` is the arbiter, two loops over
the buffers, as operators. `Execute.tla` wires them with `FUBi` and units of one
cycle. `window` is the program order with what has been broadcast, and one
branch may be unresolved. Whether a load may pass the stores (the store queue's
`canLoadIssue`) is chosen in each cycle.

**Memory.** `Mem.tla` is `testbench/mem.v`: tags, a latency, a refusal when all
tags wait, one answer in a cycle. `CacheCtrl.tla` is the controller with the two
caches, by lines: one request a cycle, a load before a store before a fetch
before a prefetch, the miss registers, the answers. The controller has two load
ports, of which `RS.v` uses one in a cycle (`OneLoadIssued` of
`execute_stations`); the model has one. `Memory.tla` composes it with the loads,
stores and branches in flight (`window`), the retired store at the head of the
store queue (`st`) and the fetch address (`pc`). An answered register is reset in
full, where the code clears its valid bit: nothing reads the rest. Data are 0 or
1; a store that retires changes its line's value. An instruction enters `window`
in the cycle in which it is fetched or not at all.

**Fetch.** `BP.tla` is the counters and the targets, `IfStage.tla` what is taken
of a pair of words, `InstrBuffer.tla` the ring with its limits. `Fetch.tla` adds
the branch unit's registers, which report one cycle later, and `flight`, the
instructions between dispatch and retirement. The program is `CODE`, a function
from word addresses to one of six kinds (plain, zero, store, conditional branch,
jump, halt) with targets. How many words the cache gives, what is dispatched,
which branch executes, where it goes, and whether the oldest retires, is chosen.

**UnitTests.** `RenameSims.tla` has the C simulators of the reorder buffer, the
free list and the map table; `IssueSims.tla` those of the instruction buffer, the
reservation stations and the bus. They keep valid bits where the Verilog keeps
counters, and count again in every call. `UnitTests.tla` steps a simulator and the
hardware module of the same name, `ROB.tla` to `CDB.tla`, with the same inputs,
and compares what the test's check functions compare. A behaviour is one run of
one test; `failed` is the line on which it prints FAILED, which is its last.

**Debugger.** `sim` is the parent, which goes on as the simulator and prints a
record at each edge; `child` keeps the ring and talks to the user. The pipes are
sequences of lines and bytes. An action of the child is one line read or one key
pressed, with all that follows until the next call that may block: a draw, a
search, a reply. The ten windows of the code are alike and stand as one; a
record's head lines, always single, stand as one line.

Abstract specifications. `InOrder` is renaming without rings, counters,
checkpoints or free list: a sequence and two maps; instructions enter with an
unused register, leave from the front when complete, and a misprediction cuts
the sequence. `StoreFifo` is a sequence of stores that get an address, get
marked in order, leave in order, and are cut back to a prefix that contains all
marked ones. `Rename` and `MemOrder` are shown to implement them through
refinement mappings that read the rings from the head.

## 4. Runs

| run | checks | shows | size |
|---|---|---|---|
| `rename_invariants` | `TypeOK` `CountsAgree` `RegistersPartitioned` `PreciseState` `ReadyBitsExact` `CheckpointsOrdered` `BranchOrder` `SquashesTheYounger` | no register is lost or shared; every checkpoint is its branch's precise state; ready bits and masks are exact; a misprediction squashes the younger and nothing else | 3 entries, 1 named register, 2 checkpoints; also noops and halts |
| `rename_refinement` | `ImplementsInOrder` | the rings implement the in-order window | 3 entries, 2 named registers, 1 checkpoint; every branch writes a register |
| `rename_liveness` | `HeadRetires` `RoomComesBack` | the oldest always retires; room comes back | 3 entries, 1 named register, 1 checkpoint |
| `rename_rollback` | `FreeListNotFullAfterRollback` | **violated** (1 of section 5) | as `rename_liveness` |
| `storequeue_order` | `TypeOK` `QueueHoldsProgramOrder` `CheckpointsKeepTheOlder` `LoadsWaitForOlder` `LoadSeesYoungestOlder` `ImplementsFifo` | pointers, marks and indices describe the stores in program order; forwarding is right when an older store is in the queue; the queue is a FIFO | 4 slots, 3 in flight, 2 addresses, 1 branch |
| `result_path` | `TypeOK` `EachResultOnce` `MasksExact` `NothingBehindAGap` | a result reaches the bus once or is squashed, with exact masks | 5 results, 3 branches |
| `mult_path` | `EachProductOnce` `ProductMasksExact` `FullMeansCopied` | the same through the pipeline, outside the three cases of `MultSafeSpec` | 4 results, 2 branches, 3 registered stages as in the code |
| `execute_stations` | `EachInOnePlace` `OperandsExact` `OneLoadIssued` | from dispatch to broadcast nothing is lost or repeated; ready means computed; one load a cycle | 3 stations, 3 units, 3 in flight, 1 checkpoint |
| `memory_misses` | `CacheCoherent` `MissesExact` `FetchServed` | the data cache agrees with memory; the miss registers are the loads that wait; fetching is always served again | 3 lines, 2 cache lines, 5 tags, latency 4, 2 in flight |
| `fetch_path` | `OnePath` `OfferFits` `GoesOn` | what is fetched is one predicted path from where retirement stands; what is offered fits; the program goes on to its halt | a program of 8 words, 3 buffer entries, 3 in flight, 2 branches |
| `unit_tests` | `RenameSimsAgree` `IssueTestsPass` | after every sequence of inputs, four simulators agree with their modules; the free list's fails on just the lines that retire, the map table's only on pairs that the bypass touches | 3 or 4 entries; the bus with its 8 buffers |
| `debugger` | `TypeOK` `HistoryIsTheLast` `SeesARecord` `RunComesBack` `QuitEndsBoth` | the ring is the last records, whole; the user sees one; runs come back; quitting ends both | 3 slots, 2 registers, 5 edges |

Why the bounds are enough. The rings are the places where sizes matter: a ring
of 3 or 4 is empty, full, wrapped and one short of full, and two heads and two
tails can move over the seam in one cycle. Only two instructions are handled in
a cycle and comparisons are between a slot and one pointer, so a longer ring
adds distances but no new relation between pointers. One named register is
enough for every sharing of a name (every writer overwrites the last one's
result, or its own pair's); `rename_refinement` adds a second one, for pairs
that write, and retire, different registers. Two checkpoints can be taken,
freed and reused in either order, three in `result_path`. A store queue of four
with three instructions in flight is full of a mixture of retired stores that
wait for memory and stores in flight. The counts
of `Rename` keep the wrap of their width (`Wrap6`), scaled with the ring.

In `memory_misses` the bounds keep the relations of the code: memory answers
after `LATENCY` cycles, one request a cycle, so `LATENCY + 1` tags are in use at
most (9 of 15 in the code: 100 ns at a clock of 13 ns, and a half cycle), and the
lowest `RESOLVED` of them hear of a branch (8). A latency of 4 is the smallest in
which a store can be fetched, retired and sent between the request of a load that
is squashed and its answer. Of three lines two map to the same place of both
caches. The program of `fetch_path` has a loop, a jump with two targets, stores
in a row, a word of zero before a store and one before a plain instruction, and a
halt; its two branches have
a counter and a target each (that branches share them makes other predictions, and
what is proved holds for tables of any size). In
`execute_stations`, three stations are the fewest in which the slot where the
second search begins is neither the first nor the default one. All registers are
in use at times, and a register is given out again as soon as no station names it. The ring of `debugger` wraps,
and the program ends before, at and after the wrap.

Every bound is a constant of a `.cfg`: `ROB_SIZE`, `ARCH_REGS`, `BS_SIZE`,
`RSFree`, `SQ_SIZE`, `ADDR`, `WINDOW`, `BRANCHES`, `TAG`, `BRANCH`, `STAGES`,
`FUBS`, `RS_SIZE`, `LINE`, `LOADED`, `STORED`, `FETCHED`, `DEST`, `NUM_TAGS`,
`LATENCY`, `RESOLVED`, `CACHE_LINES`, `CODE`, `IB_SIZE`, `BHT_SIZE`, `BTB_SIZE`,
`NUM_HISTORY`, `NUM_REGS`, `MAX_EDGES`, and the sets of inputs that the unit
tests draw (`FreeRegs`, `TagOlds`, `Fetched`, `Dispatches`, `Busies`, `Tags`).
Symmetry is used where tags and checkpoints are only compared (`result_path`,
`mult_path`); those runs check invariants only. Deadlock is not checked in
`debugger`, where both processes end, and in `unit_tests`, where a test ends
when it fails and that of the bus after its last line.

**Restricted specifications.** Some defects derail everything behind them, and
the properties would all fail for the same reason. Where that is so, `Spec` is
the code, on which the defect shows, and `SafeSpec` is the code without the
steps in which it bites; the passing runs check `SafeSpec`. Each restriction is
a named operator:

* `Rename!Miscounted`: the mispredicted branch is the youngest of a full
  reorder buffer and nothing retires (FreeList.v:56).
* `MemOrder!AllOlder`: as many stores as the queue has slots are older than
  the mispredicted branch and none leaves (SQ.v:214); and all slots but one
  hold retired stores (SQ.v:221).
* `MultPath!Arrives`, `KeepsMask`, `HoldsSquashed`: the three cases of the
  multiplier. They all need the bus to stall a full buffer, so `MultSafeSpec`
  keeps every other pattern of stalls.
* `Memory!Hears`: a branch is resolved while a miss register above the eighth
  holds a load behind it (CacheCtrl.v:340).
* `Fetch!Misnoted`: a pair whose first word is zero and whose second is a
  branch or a store (if_stage.v). Such a pair comes one by one.
* `Execute!SecondFits`: a noop or halt goes first and only slots 0 and 7 are free
  for the second (RS.v:286); `WakesNobody`: a noop or halt names a register that is
  broadcast in the cycle (RS.v:305); `KeepsNothing`: a load or store executes in
  the cycle of its misprediction (dmemFU.v:86).
* `DebuggerProps!GotoBeforeFirst`: back from slot 0 to an earlier time, before
  the ring has wrapped (visual_c_hooks.c:958).
* The test of the reservation stations in `UnitTests` has no line that broadcasts
  in a cycle of dispatch: the simulator does not know the bypass (section 5).

## 5. What the code does that its texts do not say

Renaming and stores:

1. `FreeList.v:56`: after a misprediction that leaves the reorder buffer full,
   the free list says that all its registers are free. Its comment says that
   this cannot happen. (Run `rename_rollback`.)
2. `SQ.v:163`: a load dispatched to an empty queue shares its index with the
   next store, and takes that younger store's data if the addresses agree;
   `FinalProject.tex:83` speaks of stores that the load depends on. The guard
   `OlderCount(p) > 0` of `LoadSeesYoungestOlder` leaves out this case, without which
   the invariant fails, and with it every load whose older stores have all been
   sent by the time it looks them up: its index then stands before the head, so
   that the comparison in line 163 may take in every slot of the queue, younger
   stores' too.
3. `RS.v:89`: a load whose older stores have left is held by younger ones once
   they fill the queue.
4. `SQ.v:214`: recovery with a full queue of older stores empties it.
5. `SQ.v:221`: seven retired, unsent stores move the retirement pointer back.

Execution:

6. `dmemFU.v:86`: a load or store that executes in the cycle of its
   misprediction is broadcast later.
7. `pipe_mult_fu.v:81`: an instruction on its way to a multiplier whose first
   stage stalls is lost.
8. `pipe_mult_fu.v:46`: tag and mask of a stage move under different
   conditions, so an instruction can get another one's mask.
9. `pipe_mult_fu.v:81`: a stalled stage keeps a squashed instruction. (7 to 9
   need the multiplier's buffer to be stalled, that is two memory results, or one
   and the other multiplier's, in the same cycles.)
10. `CDB.v:18` says that branches come first; `pipeline.v:750-768` connects the
    branch unit to the highest index, which comes last.
11. `RS.v:286`: the second instruction's slot is searched from 1 and must differ
    from the first one's, which is 7 while the first takes none. If the first is a
    noop or halt and only slots 0 and 7 are free, the second is lost.
12. `RS.v:305`: the bypass to the instructions of the cycle sets the ready bits of
    their slots, also for a noop or halt, whose slot is 7: what stands there is
    woken in the name of another.

Caches:

13. `CacheCtrl.v:340`: only the first eight miss registers hear of a branch, and
    memory uses nine; a squashed load in the ninth answers to a register that
    has a new owner.
14. `CacheCtrl.v:327`: a load that memory refuses is not kept and never asked for
    again. With 15 tags and nine in use, memory never refuses; with
    `NUM_TAGS = LATENCY`, `MissesExact` fails.
15. An answer that comes in the cycle in which its branch mispredicts goes into
    the result buffer unchecked (6 is the same for a hit).
16. Answers are not kept when the load's and the store's cache index agree, also
    when there is no store; misses then are asked for again. Slow, not wrong. And
    the comparison with requests on their way takes whole addresses, so the two
    words of a line are two requests.

Fetch:

17. `if_stage.v:107-177`: if the first word of a pair is zero, the second is noted with
    the first one's control bits and next address: a branch or store goes
    unnoticed.

4, 5, 6, 8, 9, 11, 12, 13 and 17 are the steps that the restricted
specifications leave out. Replace `SafeSpec` by `Spec` (`FairSafeSpec` by `Spec`, for
invariants; `MultSafeSpec` by `MultSpec`) in the run's `.cfg` and TLC shows the shortest behaviour:
`QueueHoldsProgramOrder` fails for 4 and 5, `EachProductOnce` and
`ProductMasksExact` for 7 to 9, `EachInOnePlace` and `OperandsExact` for 11 and 12, `MissesExact` for
13, `OnePath` for 17. For 6, set `GATED = FALSE` in `ResultPath_gated.cfg`. 3 and
16 were read in the code: they are about when, not whether.

Visual debugger (`visual_c_hooks.c`), read while translating and part of the model:
a goto forward ends one record past the time asked for (1011-1018; the comment
above 943 says the time itself); `n` at the present with `history_num` 0 compares
with slot -1 and jumps to the oldest (906); a run to the end of the program that
ends with `history_num` 0 draws slot -1 (878-882); the end of the program, while
stepping, draws the slot after the last record (881); a goto back from slot 0
before the wrap searches slots that were never written (958); and a goto for
which no search is made uses the `i` of the last one (956, 988). After the end of
the program the simulator waits for a key that only `q` sends, so nothing after
that wait in the test bench runs.

Unit tests: they are disabled in the `Makefile` (78-142) and some have fallen
behind the ports of their modules. Two simulators differ from the Verilog on lines
that their own tests have, and the model keeps the difference. The free list's
counts what retires one line late (`FLPrintSim.c:33`, 57; `FreeList.v:51` counts it at
the edge), and `checkFLOutputs` compares the counts as they are: the test prints
FAILED on the first line that retires, the fourth of `FLCornerCases`. The ring agrees
also then. The map table's has no bypass within a pair (`MTPrintSim.c:119-135`,
`MapTable.v:36-45`), and its check does not ask what the pair is: the test prints
FAILED when both write one register, as on the second line of `MTCornerCases` and on
some random lines, or when the second reads what the first would write and neither
is dispatched. The map agrees also then. `RenameSimsAgree` says that these
are the only lines. Other cases are left out: the stations' simulator has neither the bypass of a broadcast to the instruction of the cycle
nor, with 16 slots and 8 units, the size of the module. The random tests never
enable two broadcasts or dispatches (`rand() % 2` as a two-bit enable). The
instruction buffer's `bs_nEntries` means free slots in C and used ones in
Verilog. `FUBIUnitTest.v` checks nothing. The store queue's simulator differs
from `SQ.v` after the first store that leaves or the first recovery, and its
initialisation writes `queue[8..31]` of 8: there is no agreement to check.

## 6. Fairness and liveness

`rename_liveness`, under `FairSpec`: weak fairness of three kinds of cycle, each
about the oldest instruction alone. `HeadLeaves`: the clock runs, so a complete
head retires. `HeadCompletes`: the head, all of whose operands are there because
everything older has retired, is executed and broadcast. `HeadResolves`: if it is
a branch, it also resolves (`branch_fu.v` does both). Nothing is assumed of any
other instruction, of what is fetched, or of how branches turn out. The
multiplier's loss (7) is a case in which the head does not complete.

`memory_misses`: weak fairness of the next-state relation, that is, the clock
runs. Nothing is assumed of the branches, loads and stores that compete with
fetching: they run out because the window is filled by fetching alone.

`fetch_path`: words come (`Delivering`, which `FetchServed` shows of the caches),
something is dispatched if anything is offered (`Dispatching`), a branch in
flight executes (`Executing`), and the oldest retires if it can (`Retiring`);
each is weakly fair, as each is a cycle of hardware that does not wait for the
others (`RoomComesBack`, `HeadRetires`).

`debugger`: each process runs if it can (`WF_vars(Simulator)`,
`WF_vars(Child)`). The user is not fair: nobody has to press a key.

`execute_stations` has no liveness. The bus serves by fixed priority (`CDB.v:29`),
so a result waits as long as others come; they stop coming because the window
fills, and to see that needs a window longer than TLC can take here.

## 7. Proofs

TLAPS checks the theorems below for every value of the constants that the named
assumptions of the modules allow (`SizeAssumption`, `EnvironmentAssumption`,
`QueueAssumption`, `WindowAssumption`, `PathAssumption`, `PipeAssumption`,
`MemAssumption`, `CacheAssumption`, `LinesAssumption`, `StationsAssumption`,
`TagAssumption`, `FubsAssumption`, `ExecuteAssumption`, `BPAssumption`,
`CodeAssumption`, `InstrBufferAssumption`, `FlightAssumption`,
`DebuggerAssumption`); TLC evaluates them on the
instances of section 4. They ask for sizes that make a ring or a memory at all, for
registers and units that are numbers, as `PHYS_REG` and the buffers' indices are,
and, of the instructions, one thing: a halt or a noop writes no register and is no
branch (`decoder.v:42-50` gives both the defaults, the zero register and no branch).
Of the program that is fetched they ask that addresses and targets are numbers and
that every word is of one of the six kinds.

| module | theorem | of |
|---|---|---|
| `RenameProofs` | `TypeCorrect`, `BranchOrderHolds` | `Spec` |
| | `RingHolds`, `CountsAgreeHolds`, `CheckpointsOrderedHolds`, `SquashesTheYoungerHolds`, `RegistersPartitionedHolds` | `SafeSpec` |
| | `ReadyBitsExactHolds`, `PreciseStateHolds`, `RenameImplementsInOrder` | `SafeSpec` |
| `MemOrderProofs` | `TypesHold`, `QueueHoldsProgramOrderHolds`, `CheckpointsKeepTheOlderHolds`, `LoadsWaitForOlderHolds`, `LoadSeesYoungestOlderHolds`, `QueueImplementsFifo` | `SafeSpec` |
| `PathProofs` | `TypesHold`, `EachResultOnceHolds`, `MasksExactHolds`, `NothingBehindAGapHolds` | `Spec`, if `GATED` |
| | `EachProductOnceHolds`, `ProductMasksExactHolds`, `FullMeansCopiedHolds` | `MultSafeSpec` |
| `MemoryProofs` | `CacheCoherentHolds` | `SafeSpec` |
| | `MissesExactHolds` | `SafeSpec`, if `LATENCY < NUM_TAGS` |
| `ExecuteProofs` | `ExecuteInvariant`, `EachInOnePlaceHolds`, `OperandsExactHolds`, `OneLoadIssuedHolds` | `SafeSpec` |
| `FetchProofs` | `OnePathHolds`, `OfferFitsHolds` | `SafeSpec` |
| `DebuggerProofs` | `TypeOKHolds`, `HistoryIsTheLastHolds` | `Spec` |
| | `SeesARecordHolds` | `SafeSpec` |

Each `XHolds` states the property `X` of section 4. What `SafeSpec` leaves out is
listed in section 4 as well: steps on which the code does break the property, each
of them shown by TLC under `Spec`. `GATED` is true of the ALUs and of the
branch unit; the memory unit is not gated, and there `EachResultOnce` is false
(6 of section 5). `LATENCY < NUM_TAGS` is 8 < 15 in the code; without it memory
refuses a load and the code loses it (14 of section 5).

**Renaming.** `TypeOK` and `BranchOrder` are inductive by themselves, for the code as
it is. In the first the work is pointer and counter arithmetic (`WrapType`,
`Wrap6Type`) and the bounds on what is dispatched; in the second, a new checkpoint
takes a slot outside `bs_bmask` and the mask of all that are in it, a resolved
branch takes its bit out of every mask, and a misprediction removes an up-set of
the order.

Everything else rests on `SafeInv == TypeOK /\ BranchOrder /\ RingInv`. The parts of
`RingInv` are there because each is needed to keep another:

* `CountsAgree`: the two counters, kept by different formulas, and the pointers.
  A recovery sets them from the checkpoint's tail, so it needs
* `CheckpointsOrdered`, the order of the masks is that of age: what a misprediction
  squashes by mask is what it cuts off the ring. It needs
* `BranchesWait`, a branch with a checkpoint has not completed: it has not
  retired, and its slot is still its own.
* `TagsInRing`: an instruction's register is what the free list holds in the slot
  of the same number. The reorder buffer and the free list are one ring seen
  twice, so rolling `fl_head` back gives back the registers of what is squashed.
* `Distinct`: the free list's slots and `at_map` name every register once.
* `Chained` and `MapsFit`: what an instruction replaces is known where it enters and
  replaced once; the map, and the map of every checkpoint, name only what is
  known at their point of the ring and not yet replaced there. So what
  retirement frees is nobody's, also after a recovery.

These are stated of a ring given as parameters, and three lemmas say what keeps
them: one instruction leaves at the front (`Leaving...`), one enters at the back
(`Entering...`), the window is cut (a smaller length is a weaker statement). A
clock edge is made of two of the first, two of the second or one of the third,
in any combination. `RegistersPartitioned` is then a count of the two arcs of the
ring. The one step at which the induction fails is `Miscounted` (1 of section 5),
which `SafeSpec` leaves out.

`ReadyBitsExact` adds what is pending to that invariant and is inductive with it.
`PreciseState` speaks of `Replay`, a fold over the window; the provers have no
induction over data. `ReplayInv` says instead that *there is* a function from
positions to maps that begins with `at_map`, is stepped by the instructions in
flight, ends with `map`, and equals each checkpoint's map at its branch. A cycle
moves this witness: it loses its first places and gets new ones at the end, or is
cut. That two such functions agree (`StepsAgree`) follows from the least
position at which they would differ, so `Replay` is the witness and the invariant
says what `PreciseState` does. `RenameImplementsInOrder` is shown step by step: a
cycle maps to a step of `InOrder` that retires, completes and appends, a
misprediction to one that cuts, and everything else leaves the window as it is.

**Store queue.** `QueueHoldsProgramOrder` is not inductive: it says nothing of
what loads and branches remember. `IInv` is `TypeOK` and, for some number `r` of
retired stores, `QueueInv(r)`. Its parts speak of the `k`-th slot from the head
and of `Below(w, r, p)`, how many stores of the queue are older than place `p`
of the window:

* `Ends`: the tail is behind as many slots as there are stores; empty and full
  differ by the flag alone. Recovery and the last store that leaves disturb it.
* `Marked` and `Known`: the first `r` slots, and no others, are marked retired, and
  they have executed; `retireHead` is behind them.
* `Placed`: every store of the window is in its slot, executed if its station
  says so; every load that has not looked up, and every waiting branch, remembers
  the last slot below it, or that there was none. The branch's is the delicate
  one: a tail just behind the head may also mean that all that was older has left
  since. And an issued load has only known addresses below it, which is what it
  waited for.

An entry of the window keeps its claim while its count below changes by what
left at the head, at most one store in a cycle: positions move by one, slots do
not. `CountSplit` and `BelowShift` say this of the counts, `RingFacts` of the
slots. The number `r` is a witness again: retired stores enter it by two at most
and leave by one. `QueueImplementsFifo` takes the refinement mapping (`ViewOf`, the
queue read from the head) through the same moves: marks grow from the front
(`MarkedAre`), the front leaves if it is marked, new stores are appended, and what a
recovery keeps contains all that is marked. Rank and selection in a sequence
(`Subsequence`: `Rank`, `Nth`, `Picked`) carry the window's stores, which are a
subsequence of it, to the queue's slots. The steps that `SafeSpec` excludes
are the two where `Ends` and `retireHead` break (4 and 5 of section 5).

**Result path and multiplier.** `PathProofs` says once how the window's order
changes in a cycle and what that does to the mask an instruction should have, for
the copies that stay in a station, move, or go into a buffer. Both invariants
have the same parts: every copy is that of an instruction in flight, with its
mask (`AllKnown`); no two copies are of the same one (`AllApart`); every
instruction has a copy (`AllHeld`). Neither is inductive without room: `FusHasRoom`
and `NothingBehindAGap` for the one-cycle unit (what is on its way finds the
buffer's first entry free), `FullMeansCopied` for the multiplier (what a full
buffer drops is still in the last stage, so the two copies that `AllApart` allows
are of the same result). The multiplier's pipeline is any number of stages long:
a stall runs back to the last bubble (`LastStalls`), which is a number and not a
recursion.

**Memory.** `MissInv` relates the miss registers to the loads that have sent a
request (`MissesOwed`, `OneEach`), memory's tags to their latencies
(`InTime`: no two answers are due in the same cycle; `ValidWaits`: a valid register's tag
is still out), and the caches to memory (`LinesPlaced`, `CacheCoherent`). The part
that holds it together is `Unforwarded`: no older store to its address is before a
load that is out, so what memory gave when it was asked is what the line still
holds when the answer comes, however many cycles later; a store to the line that
is sent in between is younger, and then the register has been answered or
squashed first, because stores retire in order. That every load that waits has
a register (`SentHeld`), the other half of `MissesExact`, needs memory never to
refuse: with one request a cycle, all due at different times, fewer than
`NUM_TAGS` tags are out.

**Execution.** `IInv` of `ExecuteProofs` has the three parts of the result path again
(`AllKnown`, `AllApart`, `AllHeld`), now over the slots of the stations, the
instructions in the units and both entries of every buffer; a mask is all of
`BRANCH` behind the unresolved branch and empty before it. A cycle is taken apart
into what each part does: the window (`WindowMoves`), the bus (`BusGrants`), a unit
(`UnitResult`), a buffer (`BufferShifts`), the two scans (`IssueIs`), the slots of a
dispatch (`SlotsAre`) and a slot's next content (`NextStation`). Then two lemmas hold
for everything at once: what is in a place afterwards comes from one place before
or enters (`Origins`), and what goes on is exactly what is neither broadcast
nor mispredicted in the cycle (`WhoRemains`). What else the induction needs:

* `UnitsFree`: an issued instruction finds the second entry of its unit's buffer
  free. It follows from the busy signal of the cycle before, which counts a
  result that is only being computed.
* `OperandsOlder`: who is waited for is older than who waits. `OperandsExact` is not
  inductive without it: a squash that took the producer and left the consumer
  would leave it waiting for ever, and a register given out again would wake it.
  A register that a station still names is not given out (`Named`).

`SafeSpec` leaves out the three steps on which the code breaks this (`SecondFits`,
`WakesNobody`, `KeepsNothing` of section 4). The first two are used where a dispatch
and a broadcast meet (`NextStation`: `dispatchPtr` names the slot or is nobody's), the
third in `UnitResult`.

**Fetching.** `OnePath` speaks of addresses, and what the code moves is what it noted
of them. `IInv` of `FetchProofs` is `OnePath` and `Base`, whose parts are:

* `RingOK`: every entry of the buffer is `Noted`: its branch and store bits, and if it
  is a branch its two next addresses, are those of the instruction at its address. The pair of
  `Misnoted` (17 of section 5) is the one step that breaks this. With the count and the
  pointers, it is all that `OfferFits` needs.
* `Registers`, `FlightOK`: widths, and an instruction in flight has a next address
  as soon as it has executed.
* `OneTold`: the branch unit's registers tell of one instruction at most, and a
  misprediction is of that one, so that everything kept is older or is the branch
  itself.

A cycle moves the ring (`RingCycle`), takes a pair of words (`Fetching`) and moves what
is in flight (`Moving`, `Bringing`). The path afterwards is then the path before
without what retires, with the branch's true next address in place of the predicted
one, and either cut behind it (`PathEnding`) or continued by what is fetched
(`PathGrowing`); `StepOnePath` shows the seams of both. The proof found an earlier
form of `OnePath` to be too strong, and TLC then showed it in the former program with a word of
zero before a plain instruction: of such a pair the second is noted with the next address
of the first, which nothing reads, because only a branch is followed to its
`pred_NPC`. So `Onward` reads it for branches alone, and the program of the run
now has such a pair.

**Debugger.** `IInv` of `DebuggerProofs` is `TypeOK` and, while the child lives,
`Live`. `Protocol` says whose turn it is: a record printed and not answered, of which
the pipe holds the last lines (`Printed`; `Gone` lines have been read); an answer of
which the parent has read none, one or all three bytes (`Answered`); or DONE
(`Announced`, `Idle`). So never more than one record is under way, and what is
counted as `Received` is the edges, or one less. `Partial` and `Names` say what of the record has been
filed, and in which row, `Slots` that `history_num` is `Received` in the ring, `Ring`
and `Clean` that the other slots hold whole records, the last ones, or nothing. `Ring`
counts back from `history_num` by one addition (`Back`); that this is the remainder
which the property writes (`SlotBack`), and that the next slot is that of the next record
(`NextSlot`), are the two facts about `%`. All this holds of the code as it is, whatever the user presses.
`SeesARecord` needs `Look` in addition: the slot the user looks at was written
(`Written`). It is kept by the keys because `KeyForward` stops at the present and
`KeyBack` at slot 0 before the wrap, and by a goto because its search stops at
`history_num`, at a hit, or at slot 0 (`SearchIs`), and so passes only written slots
(`FoundWritten`). A goto from slot 0 back skips that last stop, and is what `SafeSpec`
leaves out (`GotoBeforeFirst`).

What stays with TLC. Liveness and statements about `ENABLED` (`HeadRetires`,
`RoomComesBack`, `FetchServed`, `GoesOn`, `RunComesBack`, `QuitEndsBoth`), because the
provers have no rule for fairness here. `UnitTests`, whose simulators count in
recursive loops: what those compute for a ring of any length needs induction over
data.

## 8. Not modelled

* Values of data and the arithmetic of addresses, instruction decoding and the
  register file: tables and adders without control.
* Which address the prefetchers choose, and the two banks of the instruction
  cache (section 2).
* The halt condition of `pipeline.v`, all `*_DEBUG` outputs, delays (`#1`), and
  reset in mid-run: the processor is reset once.
* The store queue's simulator and the test of the result buffers (section 5).
* `pipe_print.c` and the windows of the debugger: they print.
* The baseline processor, a five-stage pipeline of the course, used to compare
  final memory states. Its copy of the debugger is the same file.
* Synthesis and performance scripts, test programs.
