--------------------------- MODULE DebuggerProps ---------------------------
(* What the visual debugger promises to who looks through it. *)
EXTENDS Debugger, FiniteSets

TypeOK ==
  /\ sim \in {"clock", "wait", "bytes", "ended"} /\ edges \in 0 .. MAX_EDGES
  /\ writepipe \in Seq(Line) /\ readpipe \in Seq({"n", "0", "Z"})
  /\ child \in {"loop", "keys", "ended"}
  /\ contents \in [Slot -> Contents] /\ reg_num \in 0 .. NUM_REGS
  /\ reg_names \in Seq(Reg) /\ Len(reg_names) <= NUM_REGS
  /\ setup_registers \in BOOLEAN /\ time_wrapped \in BOOLEAN
  /\ history_num \in Slot /\ hist_num_temp \in Slot /\ i \in 0 .. NUM_HISTORY
  /\ echo_data \in BOOLEAN /\ running \in BOOLEAN
  /\ goto_flag \in BOOLEAN /\ cycle_flag \in BOOLEAN /\ stop_time \in Time
  /\ done_received \in BOOLEAN
  /\ screen \in [slot : -1 .. (NUM_HISTORY - 1), shows : Contents]

\* Records that the child has read to their end.
Unread == Cardinality({p \in DOMAIN writepipe : writepipe[p] = Break})
Received == edges - Unread

(* The ring holds the last records, each whole and in its own slot, with     *)
(* its registers in the rows that carry their names, but for the one slot    *)
(* that is being filled; and the simulator is never more than one edge ahead *)
(* of the child (visual_c_hooks.c:593, :884, :1056).                          *)
HistoryIsTheLast ==
  child # "ended" =>
    /\ Unread <= 1
    /\ \A j \in 0 .. (NUM_HISTORY - 1) :
         j < Received /\ (j < NUM_HISTORY - 1 \/ child = "keys") =>
           contents[(Received - 1 - j) % NUM_HISTORY] = Whole(Received - j)
    /\ setup_registers => reg_names = [n \in Reg |-> n]
    /\ ~done_received => history_num = Received % NUM_HISTORY

(* Whenever the user is asked for a key, the screen shows the slot that the  *)
(* next 'n', 'b' or 'g' starts from, and one record in it, never a mixture   *)
(* or a slot that none was read into.  After DONE two things are exempt: a   *)
(* user who was stepping gets the slot after the last record, which may be   *)
(* blank, and a run that ends with the ring just wrapped draws slot -1       *)
(* (visual_c_hooks.c:878, :881, :932).                                        *)
SeesARecord ==
  Waiting =>
    \/ /\ screen.slot = hist_num_temp
       /\ screen.shows = contents[hist_num_temp]
       /\ \/ \E k \in Edge : screen.shows = Whole(k)
          \/ done_received /\ screen.shows = Blank
    \/ done_received /\ screen.slot = -1

(* A run, to the end or to a given time, always comes back to the user, who   *)
(* may press a key again, or has quit (visual_c_hooks.c:874, :1006).           *)
RunComesBack == running ~> Waiting \/ child = "ended"

(* When the user quits, both processes end: the simulator reads the 'Z', or   *)
(* prints into a pipe that nobody reads any more (visual_c_hooks.c:1027, :1057).      *)
QuitEndsBoth == child = "ended" ~> sim = "ended"

(* What the code does with a goto from slot 0 back, before the ring has       *)
(* wrapped: it searches the last slots, which no record was read into.  The   *)
(* behaviours without it are SafeSpec.                                         *)
GotoBeforeFirst ==
  \E cycles \in BOOLEAN, target, junk \in Time :
    /\ hist_num_temp = 0 /\ ~time_wrapped
    /\ Direction(target, TimeAt(0, cycles, junk)) = -1
    /\ KeyGoto(cycles, target, junk)
SafeNext == Next /\ ~GotoBeforeFirst
SafeSpec == Init /\ [][SafeNext]_vars /\ WF_vars(Simulator) /\ WF_vars(Child)
=============================================================================
