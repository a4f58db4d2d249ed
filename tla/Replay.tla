-------------------------------- MODULE Replay --------------------------------
(***************************************************************************)
(* Recording a session and running it again: the slices of rkw-debug's     *)
(* emu.rs, the stamps its log puts on what it applies, and replay.         *)
(*                                                                         *)
(* The machine is a program with a timer: instructions take their time and *)
(* cannot be cut short, a hardware event is due every Frame T-states and   *)
(* raises an interrupt, and a byte of memory decides which way the program *)
(* goes, so that two runs which order anything differently part company.   *)
(* The program has no calls; a step-over is over a repeat.  (Stepping has  *)
(* the calls and their guards.)  Poke, Keys and Tape are one "input".      *)
(***************************************************************************)
EXTENDS Integers, Sequences, SequencesExt

CONSTANTS
    Prog,        \* the instruction at each address, and the T-states it takes
    Addr,        \* addresses
    Targets,     \* the ones commands name
    Vector,      \* where an interrupt goes
    AckTime,     \* T-states it takes to get there
    Frame,       \* T-states from one hardware event to the next
    Bytes,       \* what an input may put in memory
    Intervals,   \* control intervals
    LogCapacity, \* commands the log has room for
    Sessions,    \* TRUE is the shell's session, which arms past the command ring
    MaxCommands, \* bound: commands applied
    MaxT         \* bound: T-states run

ASSUME ReplayAssumption ==
    /\ 0 \in Addr /\ Vector \in Addr /\ Targets \subseteq Addr /\ Bytes \subseteq Nat
    /\ AckTime \in Nat \ {0} /\ Frame \in Nat \ {0} /\ Intervals \subseteq Nat \ {0}
    /\ Sessions \subseteq BOOLEAN
    /\ LogCapacity \in Nat /\ MaxCommands \in Nat /\ MaxT \in Nat

(* Every instruction takes time, and none leads out of the program.         *)
ASSUME ProgAssumption ==
    \A a \in Addr :
      /\ Prog[a].time \in Nat \ {0}
      /\ Prog[a].op \in {"jump", "branch"} => Prog[a].to \in Addr
      /\ Prog[a].op # "jump" => a + 1 \in Addr
      /\ Prog[a].op = "load" => Prog[a].to \in Nat

VARIABLES
    emu,       \* the processor, the machine, what is armed and the run state
    interval,  \* control_interval
    shell,     \* whether it is a shell's session
    log,       \* the commands applied, each with its stamp
    applied,   \* how many there were
    overdue    \* history: a breakpoint stopped it with a hardware event due

vars == <<emu, interval, shell, log, applied, overdue>>

Emus == [pc : Addr, byte : Nat, int : BOOLEAN, t : Nat, next : Nat,
         breaks : SUBSET Addr, landing : SUBSET Addr, state : {"Paused", "Running", "Exited"}]

Machine(e) == [pc |-> e.pc, byte |-> e.byte, int |-> e.int, t |-> e.t, next |-> e.next]

Start == [pc |-> 0, byte |-> 0, int |-> FALSE, t |-> 0, next |-> Frame,
          breaks |-> {}, landing |-> {}, state |-> "Paused"]

Init ==
    /\ emu = Start
    /\ interval \in Intervals
    /\ shell \in Sessions
    /\ log = <<>> /\ applied = 0 /\ overdue = FALSE

-----------------------------------------------------------------------------
(* One instruction, or the interrupt instead of it. *)
Instruction(e) ==
    LET i == Prog[e.pc]
        goes == CASE i.op = "jump" -> i.to
                  [] i.op = "branch" -> IF e.byte > 0 THEN i.to ELSE e.pc + 1
                  [] i.op = "repeat" -> IF e.byte > 0 THEN e.pc ELSE e.pc + 1
                  [] OTHER -> e.pc + 1
        holds == CASE i.op = "repeat" /\ e.byte > 0 -> e.byte - 1
                   [] i.op = "load" -> i.to
                   [] OTHER -> e.byte
    IN  [e EXCEPT !.pc = goes, !.byte = holds, !.t = @ + i.time]

CpuStep(e) ==
    IF e.int THEN [e EXCEPT !.int = FALSE, !.pc = Vector, !.t = @ + AckTime]
             ELSE Instruction(e)

Halted(e, why) == [e EXCEPT !.state = why, !.landing = {}]

Stops(e) == CpuStep(e).pc \in e.landing \cup e.breaks

(* run_until: instructions until the clock is at the deadline or something  *)
(* armed is at the new pc.                                                  *)
RunUntil(e, deadline) ==
    LET run[m \in Emus] ==
          IF m.t >= deadline THEN m
          ELSE IF Stops(m) THEN Halted(CpuStep(m), "Paused")
          ELSE run[CpuStep(m)]
    IN  run[e]

DeadlineTarget(e, target) == target

(* The earlier of the target and the machine's next event. *)
Deadline(e, target) == IF e.next < target THEN e.next ELSE target

ServiceDue(e) == IF e.t >= e.next THEN [e EXCEPT !.int = TRUE, !.next = @ + Frame] ELSE e

(* A run that stops leaves the event that came due in it for the next run.  *)
OneRun(e, target) ==
    LET ran == RunUntil(e, Deadline(e, target))
    IN  IF ran.state = "Running" THEN ServiceDue(ran) ELSE ran

RunTo(e, target) ==
    LET run[m \in Emus] ==
          IF m.state # "Running" \/ m.t >= target THEN m ELSE run[OneRun(m, target)]
    IN  run[e]

-----------------------------------------------------------------------------
(* What a command does. A movement arms and goes on, but a step is over     *)
(* before this returns.                                                     *)
OneStep(e) == Halted(CpuStep(e), "Paused")

StepOver(e) ==
    LET after == CpuStep(e)
    IN  IF Prog[e.pc].op # "repeat" \/ after.pc = e.pc + 1
          THEN Halted(after, "Paused")
          ELSE [after EXCEPT !.landing = {e.pc + 1}, !.state = "Running"]

Effect(e, c) ==
    CASE c.op = "Resume" -> Halted(e, "Running")
      [] c.op = "Pause" -> [e EXCEPT !.state = "Paused"]
      [] c.op = "Step" -> OneStep(e)
      [] c.op = "StepOver" -> StepOver(e)
      [] c.op = "RunTo" -> [e EXCEPT !.landing = {c.arg}, !.state = "Running"]
      [] c.op = "Break" -> [e EXCEPT !.breaks = @ \cup {c.arg}]
      [] c.op = "Unbreak" -> [e EXCEPT !.breaks = @ \ {c.arg}]
      [] c.op = "Input" -> [e EXCEPT !.byte = c.arg]
      [] c.op = "SetPc" -> [e EXCEPT !.pc = c.arg]
      [] c.op = "Quit" -> [e EXCEPT !.state = "Exited"]

Command(ops, args) == [op : ops, arg : args]
Arming == Command({"Break", "Unbreak"}, Targets)
Commands == Command({"Resume", "Pause", "Step", "StepOver", "Quit"}, {0})
              \cup Command({"RunTo", "SetPc"}, Targets) \cup Command({"Input"}, Bytes) \cup Arming

StampLate(c) == [t |-> Effect(emu, c).t, command |-> c]

(* Stamped with the T-state it is applied at, read before it is applied.    *)
Stamp(c) == [t |-> emu.t, command |-> c]

(* A full log stops recording. *)
Recorded(c) == IF Len(log) < LogCapacity THEN Append(log, Stamp(c)) ELSE log

(* One command of a drain. *)
Apply(c) ==
    /\ emu.state # "Exited" /\ applied < MaxCommands
    /\ shell => c \notin Arming
    /\ emu' = Effect(emu, c)
    /\ applied' = applied + 1
    /\ log' = Recorded(c)
    /\ UNCHANGED <<interval, shell, overdue>>

(* The rest of a slice, once the drain is over. *)
Slice ==
    /\ emu.state = "Running" /\ emu.t < MaxT
    /\ emu' = RunTo(emu, emu.t + interval)
    /\ overdue' = (overdue \/ (emu'.state = "Paused" /\ emu'.t >= emu'.next
                                 /\ emu'.pc \in emu.breaks))
    /\ UNCHANGED <<interval, shell, log, applied>>

(* The shell arms and deletes a breakpoint itself, whatever the log holds.  *)
ArmDirectly(a) ==
    /\ shell /\ emu.state = "Paused"
    /\ emu' = [emu EXCEPT !.breaks = IF a \in @ THEN @ \ {a} ELSE @ \cup {a}]
    /\ UNCHANGED <<interval, shell, log, applied, overdue>>

Next == (\E c \in Commands : Apply(c)) \/ Slice \/ (\E a \in Targets : ArmDirectly(a))

Spec == Init /\ [][Next]_vars

-----------------------------------------------------------------------------
(* replay: each command at its stamp, on a machine that starts where the    *)
(* recorded one did, then on to where the recorded one got to.              *)
Replayed(until) ==
    RunTo(FoldLeft(LAMBDA e, entry : Effect(RunTo(e, entry.t), entry.command), Start, log), until)

TypeOK ==
    /\ emu \in Emus
    /\ interval \in Intervals /\ shell \in Sessions /\ overdue \in BOOLEAN
    /\ Len(log) <= LogCapacity /\ Len(log) <= applied
    /\ \A i \in 1 .. Len(log) : log[i] \in [t : 0 .. emu.t, command : Commands]

LogWhole == Len(log) = applied

(* A log nothing was left out of replays to the machine it was recorded     *)
(* from, at every moment of the session and whatever the control interval   *)
(* was; a session that arms through the ring replays to the same stop and   *)
(* the same things armed.  The exception is a shell's breakpoint that       *)
(* stopped the machine with a hardware event due: the replay, which has no  *)
(* such breakpoint, lets the event happen before the next command.          *)
ReplaysUnlessOverdue ==
    LogWhole => /\ ~shell => Replayed(emu.t) = emu
                /\ ~overdue => Machine(Replayed(emu.t)) = Machine(emu)

(* What exec.rs says of breakpoints armed past the ring: nothing is lost    *)
(* from the log by it.                                                      *)
ReplaysExactly == LogWhole => Machine(Replayed(emu.t)) = Machine(emu)
=============================================================================
