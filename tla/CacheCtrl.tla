------------------------------ MODULE CacheCtrl ------------------------------
(***************************************************************************)
(* The cache controller, CacheCtrl.v, with its data cache, DMEM/dcache.v, and *)
(* what it needs of the instruction cache.  In a cycle one of these asks       *)
(* memory, in this order: a load that misses, the oldest retired store, the    *)
(* fetch, the prefetcher.  A miss register (statuses) is named by memory's tag *)
(* for its request.  Addresses are lines; both caches are direct mapped.       *)
(*                                                                          *)
(* RS.v issues at most one load in a cycle, so the two ports are one here.     *)
(***************************************************************************)
EXTENDS Mem

CONSTANTS
  BRANCH,      \* slots of the branch stack
  DEST,        \* destination registers of loads
  RESOLVED,    \* miss registers that hear of a branch: 8 of 15
  CACHE_LINES  \* lines of either cache

ASSUME CacheAssumption ==
  /\ RESOLVED \in 0 .. NUM_TAGS /\ CACHE_LINES \in Nat \ {0}
  /\ BRANCH \subseteq Nat /\ DEST \subseteq Nat

VARIABLES
  statuses,
  dcache,      \* the address and data of every line, or None
  icache       \* the address of every line, or NoLine

cc_vars == <<statuses, dcache, icache>>

None  == [valid |-> FALSE]
NoLine == -1
Idx(a) == a % CACHE_LINES

\* A squashed register keeps what it held until the answer comes, and is read
\* then; what an answered one keeps is never read, and not modelled.
Status(is_load, addr, dest, bmask) ==
  [valid |-> TRUE, is_load |-> is_load, addr |-> addr, destTag |-> dest, bmask |-> bmask]
Reset == [Status(FALSE, 0, 0, {}) EXCEPT !.valid = FALSE]

CCInit ==
  /\ statuses = [t \in MEM_TAG |-> Reset]
  /\ dcache = [i \in 0 .. (CACHE_LINES - 1) |-> None]
  /\ icache = [i \in 0 .. (CACHE_LINES - 1) |-> NoLine]

Cached(a)   == dcache[Idx(a)] # None /\ dcache[Idx(a)].addr = a
InICache(a) == icache[Idx(a)] = a
CAMHit(a)   == \E t \in MEM_TAG : statuses[t].valid /\ statuses[t].addr = a

(* The requests of a cycle: ld and st are None or valid, pc is fetched, and   *)
(* pf is prefetched when it is a line.                                         *)
ldMiss(ld) == ld.valid /\ ~Cached(ld.addr)
stRequest(ld, st) == st.valid /\ ~ldMiss(ld)
ifRequest(ld, st, pc) == ~CAMHit(pc) /\ ~InICache(pc) /\ ~ldMiss(ld) /\ ~st.valid
pfRequest(ld, st, pc, pf) ==
  /\ pf \in LINE /\ ~CAMHit(pf) /\ ~InICache(pf)
  /\ ~ifRequest(ld, st, pc) /\ ~ldMiss(ld) /\ ~st.valid

Request(ld, st, pc, pf) ==
  CASE ldMiss(ld) ->
         [command |-> "LOAD", addr |-> ld.addr, data |-> 0,
          status |-> Status(TRUE, ld.addr, ld.dest, ld.bmask)]
    [] stRequest(ld, st) ->
         [command |-> "STORE", addr |-> st.addr, data |-> st.data, status |-> Reset]
    [] ifRequest(ld, st, pc) ->
         [command |-> "LOAD", addr |-> pc, data |-> 0, status |-> Status(FALSE, pc, 0, {})]
    [] pfRequest(ld, st, pc, pf) ->
         [command |-> "LOAD", addr |-> pf, data |-> 0, status |-> Status(FALSE, pf, 0, {})]
    [] OTHER -> [command |-> "NONE", addr |-> 0, data |-> 0, status |-> Reset]

\* dcachectrl_st_request_sent
Sent(ld, st) == stRequest(ld, st) /\ mem2proc_response("STORE") # 0

(* Memory's answer of the cycle: to a load that still waits, and to a fetch.  *)
LoadAnswer ==
  mem2proc_tag # 0 /\ statuses[mem2proc_tag].is_load /\ statuses[mem2proc_tag].valid

\* (fault) An answer that nobody waits for is kept.
FilledDeaf(st_idx) ==
  /\ mem2proc_tag # 0 /\ statuses[mem2proc_tag].is_load
  /\ Idx(statuses[mem2proc_tag].addr) # st_idx
\* The answer goes into the data cache, unless a store's line stands there.
Filled(st_idx) == LoadAnswer /\ Idx(statuses[mem2proc_tag].addr) # st_idx

icache_valid(pc) ==
  InICache(pc) \/ (mem2proc_tag # 0 /\ statuses[mem2proc_tag].addr = pc)

(* The registers after a request is accepted, an answer has come, and the     *)
(* branch b has turned out (wrong or right; NoBranch when none).              *)
\* (fault) The register is not freed when its answer comes.
EnteredKept(req) ==
  LET r == mem2proc_response(req.command)
  IN  [t \in MEM_TAG |->
         IF t = r /\ req.command = "LOAD" THEN req.status ELSE statuses[t]]
Entered(req) ==
  LET r == mem2proc_response(req.command)
  IN  [t \in MEM_TAG |->
         IF t = r /\ req.command = "LOAD" THEN req.status
         ELSE IF t = mem2proc_tag THEN Reset
         ELSE statuses[t]]

\* (fault) The request of this cycle is not looked at.
nextStatusesOld(req, wrong, right) ==
  [t \in MEM_TAG |->
     IF t > RESOLVED \/ t = mem2proc_response(req.command) THEN Entered(req)[t]
     ELSE [Entered(req)[t] EXCEPT !.valid = @ /\ Entered(req)[t].bmask \cap wrong = {},
                                  !.bmask = @ \ right]]
nextStatuses(req, wrong, right) ==
  [t \in MEM_TAG |->
     IF t > RESOLVED THEN Entered(req)[t]
     ELSE [Entered(req)[t] EXCEPT !.valid = @ /\ Entered(req)[t].bmask \cap wrong = {},
                                  !.bmask = @ \ right]]

(* The clock edge.  st_idx is the line of the store at the queue's head, be   *)
(* it valid or not: a load's answer for that line is not kept.                *)
CCCycle(ld, st, pc, pf, wrong, right, st_idx) ==
  LET req  == Request(ld, st, pc, pf)
      slot == statuses[mem2proc_tag]
  IN  /\ statuses' = nextStatuses(req, wrong, right)
      /\ dcache' = [i \in DOMAIN dcache |->
           IF Sent(ld, st) /\ i = Idx(st.addr) THEN [addr |-> st.addr, data |-> st.data]
           ELSE IF Filled(st_idx) /\ i = Idx(slot.addr)
             THEN [addr |-> slot.addr, data |-> mem2proc_data]
           ELSE dcache[i]]
      /\ icache' = IF mem2proc_tag # 0 /\ ~slot.is_load
                     THEN [icache EXCEPT ![Idx(slot.addr)] = slot.addr] ELSE icache
      /\ MemCycle(req.command, req.addr, req.data)
=============================================================================
