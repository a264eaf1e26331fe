------------------------------ MODULE Debugger ------------------------------
(***************************************************************************)
(* The visual debugger, testbench/visual/visual_c_hooks.c.  initcurses      *)
(* forks: the parent goes on as the simulator, its standard output now a    *)
(* pipe, and at every clock edge prints a record of all signals and blocks  *)
(* in waitforresponse; the child keeps the last NUM_HISTORY records in a    *)
(* ring, draws one of them, and lets the user step, go back, run and quit.  *)
(*                                                                          *)
(* A record is that of the k-th edge: its head (time, cycle, reset, pipeline*)
(* and register file lines, all single), then NUM_REGS register lines of a  *)
(* window, which are told apart by their order alone, then "break".  The    *)
(* ten windows of the code are alike and stand here as one.                 *)
(***************************************************************************)
EXTENDS Integers, Sequences

CONSTANTS
  NUM_HISTORY,   \* records kept (256 in the code)
  NUM_REGS,      \* registers of the window, the argument of initcurses
  MAX_EDGES      \* bound: clock edges before the program is done

ASSUME DebuggerAssumption ==
  /\ NUM_HISTORY \in Nat /\ NUM_HISTORY >= 2
  /\ NUM_REGS \in Nat \ {0} /\ MAX_EDGES \in Nat \ {0}

VARIABLES
  sim,            \* the parent: "clock", "wait" (for 'n' or 'Z'), "bytes", "ended"
  edges,          \* edges it has printed
  writepipe,      \* lines from the parent to the child
  readpipe,       \* bytes from the child to the parent
  child,          \* the child: "loop", "keys" or "ended"
  contents,       \* the ring of records
  reg_num,        \* registers read of the present record
  reg_names,      \* names of the window's rows; set up with the first record
  setup_registers,
  history_num,    \* slot of the record that is read
  time_wrapped,
  hist_num_temp,  \* slot the user looks at
  i,              \* where the last search of the history stopped
  echo_data, running, goto_flag, cycle_flag, stop_time,
  done_received,
  screen          \* slot and contents that parsedata has drawn

pipes  == <<writepipe, readpipe>>
parent == <<sim, edges>>
ring   == <<contents, reg_num, reg_names, setup_registers>>
modes  == <<echo_data, running, goto_flag, cycle_flag, stop_time>>
place  == <<history_num, time_wrapped, hist_num_temp, i>>
vars   == <<parent, pipes, child, ring, place, modes, done_received, screen>>

Slot  == 0 .. (NUM_HISTORY - 1)
Reg   == 1 .. NUM_REGS
Edge  == 1 .. MAX_EDGES
Time  == 0 .. (MAX_EDGES + 1)      \* what get_time may return: past the end too

\* The lines of an edge's record, and the values in a slot that has none.
HeadLine(k)    == [tag |-> "t", reg |-> 0, edge |-> k]
RegLine(n, k) == [tag |-> "f", reg |-> n, edge |-> k]
Break       == [tag |-> "break", reg |-> 0, edge |-> 0]
DONE        == [tag |-> "DONE", reg |-> 0, edge |-> 0]
Record(k)   == <<HeadLine(k)>> \o [n \in Reg |-> RegLine(n, k)] \o <<Break>>
Line        == [tag : {"t", "f", "break", "DONE"}, reg : 0 .. NUM_REGS, edge : 0 .. MAX_EDGES]

None  == [reg |-> 0, edge |-> 0]
Value(line) == [reg |-> line.reg, edge |-> line.edge]
Blank == [head |-> 0, regs |-> [n \in Reg |-> None]]
Whole(k) == [head |-> k, regs |-> [n \in Reg |-> [reg |-> n, edge |-> k]]]
Contents == [head : 0 .. MAX_EDGES,
             regs : [Reg -> [reg : 0 .. NUM_REGS, edge : 0 .. MAX_EDGES]]]

Init ==
  /\ sim = "clock" /\ edges = 0 /\ child = "loop"
  /\ writepipe = <<>> /\ readpipe = <<>>
  /\ contents = [s \in Slot |-> Blank]
  /\ reg_num = 0 /\ reg_names = <<>> /\ setup_registers = FALSE
  /\ history_num = 0 /\ time_wrapped = FALSE /\ hist_num_temp = 0
  /\ i = NUM_HISTORY
  /\ echo_data = TRUE /\ running = FALSE /\ goto_flag = FALSE
  /\ cycle_flag = FALSE /\ stop_time = 0
  /\ done_received = FALSE
  /\ screen = [slot |-> 0, shows |-> Blank]

(***************************************************************************)
(* The parent.                                                              *)
(***************************************************************************)
\* A pipe whose reader is gone ends its writer.
PrintLines(lines) ==
  /\ writepipe' = IF child = "ended" THEN writepipe ELSE writepipe \o lines
  /\ sim' = IF child = "ended" THEN "ended" ELSE "wait"

\* A clock edge, and the end of the program some time after the first.
ClockEdge ==
  /\ sim = "clock" /\ edges < MAX_EDGES
  /\ edges' = edges + 1
  /\ PrintLines(Record(edges + 1))
ProgramDone ==
  /\ sim = "clock" /\ edges > 0
  /\ PrintLines(<<DONE>>)
  /\ UNCHANGED edges

\* (fault) Only an 'n' ends the wait.
waitforresponseN ==
  /\ sim = "wait" /\ readpipe # <<>>
  /\ readpipe' = Tail(readpipe)
  /\ sim' = IF Head(readpipe) = "n" THEN "bytes" ELSE "wait"
  /\ UNCHANGED edges
\* waitforresponse: whatever precedes an 'n' or a 'Z' is skipped, and two
\* bytes follow an 'n'.
waitforresponse ==
  /\ sim = "wait" /\ readpipe # <<>>
  /\ readpipe' = Tail(readpipe)
  /\ sim' = CASE Head(readpipe) = "n" -> "bytes"
              [] Head(readpipe) = "Z" -> "ended"
              [] OTHER -> "wait"
  /\ UNCHANGED edges
ReadBytes ==
  /\ sim = "bytes" /\ Len(readpipe) >= 2
  /\ readpipe' = SubSeq(readpipe, 3, Len(readpipe))
  /\ sim' = "clock"
  /\ UNCHANGED edges

Simulator ==
  /\ \/ (ClockEdge \/ ProgramDone) /\ UNCHANGED readpipe
     \/ (waitforresponse \/ ReadBytes) /\ UNCHANGED writepipe
  /\ UNCHANGED <<child, ring, place, modes, done_received, screen>>

(***************************************************************************)
(* The child reads a line and files it under history_num.                   *)
(***************************************************************************)
\* The remainder of C: that of -1 is -1.
CMod(x) == IF x < 0 THEN x ELSE x % NUM_HISTORY

ProcessHead(line) ==
  /\ contents' = [contents EXCEPT ![history_num].head = line.edge]
  /\ UNCHANGED <<reg_num, reg_names, setup_registers>>
\* The first record names the rows.
parse_register(line) == Append(reg_names, line.reg)
\* (fault) After the first record the rows are not told apart.
ProcessRegisterFirstRow(line) ==
  /\ contents' = [contents EXCEPT
                   ![history_num].regs[IF setup_registers THEN 1 ELSE reg_num + 1] = Value(line)]
  /\ reg_names' = IF setup_registers THEN reg_names ELSE parse_register(line)
  /\ reg_num' = reg_num + 1
  /\ UNCHANGED setup_registers
\* A register that is met for the first time takes the window's next row; the
\* value is copied in both cases.
ProcessRegister(line) ==
  /\ contents' = [contents EXCEPT ![history_num].regs[reg_num + 1] = Value(line)]
  /\ reg_names' = IF setup_registers THEN reg_names ELSE parse_register(line)
  /\ reg_num' = reg_num + 1
  /\ UNCHANGED setup_registers
ProcessBreak ==
  /\ setup_registers' = TRUE
  /\ reg_num' = 0
  /\ UNCHANGED <<contents, reg_names>>

\* parsedata: draws a slot.  Slot -1 lies before the arrays.
Parsedata(s) ==
  screen' = [slot |-> s, shows |-> IF s \in Slot THEN contents[s] ELSE Blank]

\* (fault) DONE does not end a run.
ReadyDeaf(done) ==
  LET next == (history_num + 1) % NUM_HISTORY
  IN  /\ IF echo_data THEN Parsedata(history_num) ELSE UNCHANGED screen
      /\ history_num' = next
      /\ time_wrapped' = (time_wrapped \/ history_num + 1 = NUM_HISTORY)
      /\ hist_num_temp' = IF next = 0 THEN NUM_HISTORY - 1 ELSE next - 1
      /\ readpipe' = IF done THEN readpipe ELSE readpipe \o <<"n", "0", "0">>
      /\ child' = "keys"
      /\ UNCHANGED <<i, modes>>

(* What the loop does when a record is complete, or after DONE every time:  *)
(* when a run ends with the program, the last record is shown again.        *)
Ready(done) ==
  LET ending == ~echo_data /\ done
      shown  == IF ending THEN CMod(history_num - 1) ELSE history_num
      next   == (shown + 1) % NUM_HISTORY
  IN  /\ IF ending THEN running' = FALSE /\ echo_data' = TRUE
                   ELSE UNCHANGED <<running, echo_data>>
      /\ IF echo_data' THEN Parsedata(shown) ELSE UNCHANGED screen
      /\ history_num' = next
      /\ time_wrapped' = (time_wrapped \/ shown + 1 = NUM_HISTORY)
      /\ hist_num_temp' = IF next = 0 THEN NUM_HISTORY - 1 ELSE next - 1
      /\ readpipe' = IF done THEN readpipe ELSE readpipe \o <<"n", "0", "0">>
      /\ child' = "keys"
      /\ UNCHANGED <<i, goto_flag, cycle_flag, stop_time>>

(* One turn of the main loop up to the keys: fgets and processinput, or     *)
(* after DONE nothing at all.                                                *)
Fgets ==
  /\ child = "loop" /\ ~done_received /\ writepipe # <<>>
  /\ LET line == Head(writepipe)
     IN  /\ writepipe' = Tail(writepipe)
         /\ done_received' = (line = DONE)
         /\ CASE line.tag = "t" -> ProcessHead(line)
              [] line.tag = "f" -> ProcessRegister(line)
              [] line.tag = "break" -> ProcessBreak
              [] line.tag = "DONE" -> UNCHANGED ring
         /\ IF line.tag \in {"break", "DONE"}
              THEN Ready(line = DONE)
              ELSE UNCHANGED <<readpipe, child, place, modes, screen>>
  /\ UNCHANGED parent
Again ==
  /\ child = "loop" /\ done_received
  /\ Ready(TRUE)
  /\ UNCHANGED <<parent, writepipe, ring, done_received>>

(***************************************************************************)
(* The keys.  Leave is the end of the inner loop: a run to a given time     *)
(* ends when the record just read has reached it.                           *)
(***************************************************************************)
TimeOf(k, cycles) == IF cycles THEN k \div 2 ELSE k
\* What sscanf makes of a slot; junk is what it finds in one never written.
TimeAt(s, cycles, junk) ==
  IF contents[s] = Blank THEN junk ELSE TimeOf(contents[s].head, cycles)

Leave(echo, run, toTime, cycles, stop, hist) ==
  LET reached == toTime /\ (TimeAt(hist, cycles, 0) >= stop \/ done_received)
  IN  /\ echo_data' = (echo \/ reached)
      /\ running'   = (run /\ ~reached)
      /\ goto_flag' = (toTime /\ ~reached)
      /\ cycle_flag' = cycles /\ stop_time' = stop
      /\ child' = "loop"

\* What no key does.
KeyFrame == UNCHANGED <<parent, writepipe, ring, history_num, time_wrapped, done_received>>

Waiting == child = "keys" /\ ~running
\* The present, as the key 'n' understands it: C makes -1 of it when the ring
\* has just wrapped, and no slot is that.
AtPresent == hist_num_temp = CMod(history_num - 1)

\* timeout(0): a running child only looks whether a 'p' is there.
Poll ==
  /\ child = "keys" /\ running
  /\ Leave(echo_data, running, goto_flag, cycle_flag, stop_time, hist_num_temp)
  /\ KeyFrame /\ UNCHANGED <<readpipe, hist_num_temp, i, screen>>
KeyPauseRun ==
  /\ child = "keys" /\ running
  /\ Parsedata(hist_num_temp)
  /\ Leave(TRUE, FALSE, goto_flag, cycle_flag, stop_time, hist_num_temp)
  /\ KeyFrame /\ UNCHANGED <<readpipe, hist_num_temp, i>>
KeyPause ==
  /\ Waiting
  /\ Parsedata(hist_num_temp) /\ echo_data' = TRUE
  /\ KeyFrame
  /\ UNCHANGED <<readpipe, child, running, goto_flag, cycle_flag, stop_time, hist_num_temp, i>>

KeyNext ==
  /\ Waiting /\ AtPresent /\ ~done_received
  /\ Leave(echo_data, running, goto_flag, cycle_flag, stop_time, hist_num_temp)
  /\ KeyFrame /\ UNCHANGED <<readpipe, hist_num_temp, i, screen>>
\* (fault) Forward from the last slot leaves the ring.
KeyForwardOff ==
  /\ Waiting /\ ~AtPresent
  /\ hist_num_temp' = hist_num_temp + 1
  /\ Parsedata(hist_num_temp')
  /\ KeyFrame /\ UNCHANGED <<readpipe, child, modes, i>>
KeyForward ==
  /\ Waiting /\ ~AtPresent
  /\ hist_num_temp' = (hist_num_temp + 1) % NUM_HISTORY
  /\ Parsedata(hist_num_temp')
  /\ KeyFrame /\ UNCHANGED <<readpipe, child, modes, i>>

\* (fault) Back from the first slot to the last, written or not.
KeyBackAlways ==
  /\ Waiting
  /\ hist_num_temp' = IF hist_num_temp > 0 THEN hist_num_temp - 1 ELSE NUM_HISTORY - 1
  /\ Parsedata(hist_num_temp')
  /\ KeyFrame /\ UNCHANGED <<readpipe, child, modes, i>>
KeyBack ==
  /\ Waiting
  /\ \/ hist_num_temp > 0 /\ hist_num_temp' = hist_num_temp - 1
     \/ hist_num_temp = 0 /\ time_wrapped /\ hist_num_temp' = NUM_HISTORY - 1
  /\ Parsedata(hist_num_temp')
  /\ KeyFrame /\ UNCHANGED <<readpipe, child, modes, i>>

KeyRun ==
  /\ Waiting
  /\ Leave(FALSE, TRUE, goto_flag, cycle_flag, stop_time, hist_num_temp)
  /\ KeyFrame /\ UNCHANGED <<readpipe, hist_num_temp, i, screen>>

KeyQuit ==
  /\ Waiting
  /\ child' = "ended"
  /\ readpipe' = Append(readpipe, "Z")
  /\ KeyFrame /\ UNCHANGED <<modes, hist_num_temp, i, screen>>

(* 'g' and 'c': look for the time in the history, one slot after the other  *)
(* in its direction, up to history_num or, going back before the ring has   *)
(* wrapped, to slot 0; a later time that is not there is run to.            *)
Direction(target, now) == IF target > now THEN 1 ELSE -1
Probe(delta, k) == (hist_num_temp + delta * (k + 1)) % NUM_HISTORY
Hit(s, delta, target, cycles, junk) ==
  IF delta = 1 THEN TimeAt(s, cycles, junk) >= target
               ELSE TimeAt(s, cycles, junk) <= target
Bottom(s, delta) == delta = -1 /\ s = 0 /\ ~time_wrapped
SearchEnds(delta, target, cycles, junk) ==
  LET ends(k) == \/ Probe(delta, k) = history_num
                 \/ Hit(Probe(delta, k), delta, target, cycles, junk)
                 \/ Bottom(Probe(delta, k), delta)
  IN  Probe(delta, CHOOSE k \in Slot : ends(k) /\ \A j \in 0 .. (k - 1) : ~ends(j))

KeyGoto(cycles, target, junk) ==
  LET delta == Direction(target, TimeAt(hist_num_temp, cycles, junk))
      skip  == CMod(hist_num_temp + delta) = history_num
      s     == IF skip THEN i ELSE SearchEnds(delta, target, cycles, junk)
      found == ~skip /\ s # history_num /\ Hit(s, delta, target, cycles, junk)
      floor == ~skip /\ s # history_num /\ ~found
      stop  == IF found \/ floor THEN 0
               ELSE IF s = history_num /\ (delta = -1 \/ done_received) THEN 0
               ELSE target
  IN  /\ Waiting
      /\ i' = s
      /\ hist_num_temp' = IF found THEN s ELSE hist_num_temp
      /\ IF found \/ floor THEN Parsedata(hist_num_temp') ELSE UNCHANGED screen
      /\ IF stop > 0
           THEN Leave(FALSE, TRUE, TRUE, cycles, stop, hist_num_temp)
           ELSE /\ cycle_flag' = cycles /\ stop_time' = stop
                /\ UNCHANGED <<child, echo_data, running, goto_flag>>
      /\ KeyFrame /\ UNCHANGED readpipe

User ==
  \/ KeyPause \/ KeyNext \/ KeyForward \/ KeyBack \/ KeyRun \/ KeyQuit
  \/ \E cycles \in BOOLEAN, target, junk \in Time : KeyGoto(cycles, target, junk)

Child == Fgets \/ Again \/ Poll \/ KeyPauseRun

Next == Simulator \/ Child \/ User

(* The simulator and a running child go on by themselves; the user need not.*)
Spec == Init /\ [][Next]_vars /\ WF_vars(Simulator) /\ WF_vars(Child)
=============================================================================
