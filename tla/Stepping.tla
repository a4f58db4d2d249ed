------------------------------ MODULE Stepping ------------------------------
(***************************************************************************)
(* How the debugger moves a machine: step, step-over, step-out, run to an  *)
(* address and resume, of rkw-debug's lib.rs, over a processor that calls, *)
(* recurses, returns and repeats.  Composes Breakpoints with the processor.*)
(*                                                                         *)
(* A stack entry moves SP by one and SP wraps at StackSize, as the Z80's   *)
(* moves by two and wraps at 65536.  An instruction is one address long.   *)
(* Slices are not seen here: a run that reaches its deadline has arms and  *)
(* clears nothing, and goes on where it was.  Bus watches are Breakpoints' *)
(* business; here none are armed.                                          *)
(***************************************************************************)
EXTENDS Breakpoints, Integers

CONSTANTS
    Prog,       \* the instruction at each address
    StackSize,  \* SP's modulus
    StackTop,   \* SP when the program starts
    MaxDepth    \* bound: calls nested

ASSUME SteppingAssumption ==
    /\ StackSize \in Nat \ {0} /\ StackTop \in 0 .. StackSize - 1 /\ MaxDepth \in Nat
    /\ SP = 0 .. StackSize - 1

(* Every instruction leads to an address: where it sends the machine, and   *)
(* where it falls through to or returns.                                    *)
Moves == {"ret", "jump", "halt"}
ASSUME ProgAssumption ==
    /\ 0 \in Addr /\ Addr \subseteq Nat
    /\ \A a \in Addr : /\ Prog[a].to \in Addr /\ Prog[a].maybe \in BOOLEAN
                       /\ Prog[a].maybe \/ Prog[a].op \notin Moves => a + 1 \in Addr

VARIABLES
    pc, sp, stack,
    depth,    \* history: calls not yet returned from
    running,  \* the run state
    reason,   \* why it last stopped
    goal,     \* history: the movement under way or last made, and where it began
    unasked   \* history: why no breakpoint was looked for at pc, or "no"

cpuVars == <<pc, sp, stack, depth>>
moveVars == <<running, reason, goal, unasked>>
allVars == <<vars, cpuVars, moveVars>>

Here == [pc |-> pc, sp |-> sp, stack |-> stack, depth |-> depth, halted |-> FALSE]

(* What executing the instruction at pc may lead to. *)
Push == [Here EXCEPT !.pc = Prog[pc].to, !.sp = (sp - 1) % StackSize,
                     !.stack = [stack EXCEPT ![(sp - 1) % StackSize] = pc + 1],
                     !.depth = depth + 1]
Pull == [Here EXCEPT !.pc = stack[sp], !.sp = (sp + 1) % StackSize, !.depth = depth - 1]
Taken ==
    CASE Prog[pc].op = "call" -> Push
      [] Prog[pc].op = "ret" -> Pull
      [] Prog[pc].op = "jump" -> [Here EXCEPT !.pc = Prog[pc].to]
      [] Prog[pc].op = "repeat" -> Here
      [] Prog[pc].op = "halt" -> [Here EXCEPT !.halted = TRUE]
      [] OTHER -> [Here EXCEPT !.pc = pc + 1]
Outcomes == {Taken} \cup IF Prog[pc].maybe THEN {[Here EXCEPT !.pc = pc + 1]} ELSE {}

Becomes(to) ==
    /\ to.depth <= MaxDepth
    /\ pc' = to.pc /\ sp' = to.sp /\ stack' = to.stack /\ depth' = to.depth

Init2 ==
    /\ Init
    /\ pc = 0 /\ sp = StackTop /\ depth = 0
    /\ stack = [s \in SP |-> 0]
    /\ running = FALSE /\ reason = "Paused"
    /\ goal = [kind |-> "none", to |-> 0, depth |-> 0]
    /\ unasked = "start"

-----------------------------------------------------------------------------
Goal(kind, to, d) == goal' = [kind |-> kind, to |-> to, depth |-> d]
StopFor(why) == running' = FALSE /\ reason' = why /\ UNCHANGED unasked
GoOn(why) == running' = TRUE /\ unasked' = why /\ UNCHANGED reason

(* clear_temporaries, then add_temporary: what every pending movement does. *)
ArmOnly(t) ==
    /\ temporaries' = {t}
    /\ exec_bits' = (exec_bits \ TempAddrs(temporaries))
                       \cup (TempAddrs(temporaries) \cap EnabledAt(exec)) \cup {t.addr}
    /\ exec_armed' = TRUE
    /\ UNCHANGED <<exec, watchVars, portVars, next_id>>

(* A step is one instruction whatever is armed: no breakpoint is asked for. *)
StepOne(kind) ==
    /\ ClearTemporaries
    /\ \E to \in Outcomes :
         Becomes(to) /\ StopFor(IF to.halted THEN "Halted" ELSE "Step")
    /\ Goal(kind, pc, depth)

Step == ~running /\ StepOne("step")

(* begin_step_over: a call that was taken, or a repeat with more to do, is  *)
(* left running to a landing site after it; a call's is guarded by SP.      *)
IsOver(op) == op \in {"call", "repeat"}
LandingUnguarded(op) == [addr |-> pc + 1, floor |-> 0]
Landing(op) == [addr |-> pc + 1, floor |-> IF op = "repeat" THEN 0 ELSE sp]
StepOver ==
    /\ ~running
    /\ \/ ~IsOver(Prog[pc].op) /\ StepOne("over")
       \/ /\ IsOver(Prog[pc].op)
          /\ \E to \in Outcomes :
               /\ Becomes(to)
               /\ IF to.pc = pc + 1
                    THEN ClearTemporaries /\ StopFor("Step")
                    ELSE ArmOnly(Landing(Prog[pc].op)) /\ GoOn("call")
          /\ Goal("over", pc + 1, depth)

StepOutUnguarded ==
    /\ ~running
    /\ ArmOnly([addr |-> stack[sp], floor |-> sp])
    /\ GoOn("start")
    /\ Goal("out", stack[sp], depth)
    /\ UNCHANGED cpuVars

(* begin_step_out: the return address is whatever is on top of the stack.   *)
StepOut ==
    /\ ~running
    /\ ArmOnly([addr |-> stack[sp], floor |-> (sp + 1) % StackSize])
    /\ GoOn("start")
    /\ Goal("out", stack[sp], depth)
    /\ UNCHANGED cpuVars

RunTo(a) ==
    /\ ~running
    /\ ArmOnly([addr |-> a, floor |-> 0])
    /\ GoOn("start")
    /\ Goal("to", a, depth)
    /\ UNCHANGED cpuVars

ResumeStillArmed ==
    /\ ~running
    /\ GoOn("start")
    /\ Goal("resume", pc, depth)
    /\ UNCHANGED <<vars, cpuVars>>

Resume ==
    /\ ~running
    /\ ClearTemporaries
    /\ GoOn("start")
    /\ Goal("resume", pc, depth)
    /\ UNCHANGED cpuVars

(* A pause, applied between slices: the landing site stays armed.           *)
Pause == running /\ StopFor("Paused") /\ UNCHANGED <<vars, cpuVars, goal>>

-----------------------------------------------------------------------------
(* One turn of run_unwatched: an instruction, then `between`.  A stop clears *)
(* the temporaries; the tiers are asked about the new pc in this order.      *)
LandsAt(to) == ExecMaybe(to.pc) /\ FiredTemporary(to.pc, to.sp)
HitsAtUnlessLanding(to) == to.pc \notin TempAddrs(temporaries) /\ Qualifies(to.pc, TRUE)
HitsAt(to) == ~LandsAt(to) /\ Qualifies(to.pc, TRUE)

CountHit(to) ==
    /\ exec[to.pc].hits < MaxHits
    /\ exec' = [exec EXCEPT ![to.pc].hits = @ + 1,
                            ![to.pc].ignore = IF @ > 0 THEN @ - 1 ELSE @]

ClearAfterStop ==
    /\ temporaries' = {}
    /\ exec_bits' = (exec_bits \ TempAddrs(temporaries))
                       \cup (TempAddrs(temporaries) \cap EnabledAt(exec))
    /\ exec_armed' = IF temporaries = {} THEN exec_armed ELSE EnabledAt(exec) # {}
KeepArmed == UNCHANGED <<exec_bits, exec_armed, temporaries>>

RunInstruction ==
    /\ running
    /\ \E to \in Outcomes :
         /\ Becomes(to)
         /\ \/ to.halted /\ StopFor("Halted") /\ ClearAfterStop /\ UNCHANGED exec
            \/ /\ ~to.halted /\ LandsAt(to)
               /\ StopFor("Step") /\ ClearAfterStop /\ UNCHANGED exec
            \/ /\ ~to.halted /\ HitsAt(to) /\ CountHit(to)
               /\ IF exec[to.pc].ignore > 0
                    THEN GoOn("ignored") /\ KeepArmed
                    ELSE StopFor("Breakpoint") /\ ClearAfterStop
            \/ /\ ~to.halted /\ ~LandsAt(to) /\ ~HitsAt(to)
               /\ GoOn("no") /\ KeepArmed /\ UNCHANGED exec
    /\ UNCHANGED <<watchVars, portVars, next_id, goal>>

(* The user arms and disarms, between slices.  What is armed at pc itself   *)
(* is not asked about until the machine comes back to it.                   *)
Arming ==
    /\ \/ \E a \in Addr : AddExec(a) \/ RemoveExec(a) \/ SetEnabled(a, TRUE)
                          \/ SetEnabled(a, FALSE) \/ SetIgnore(a, MaxIgnore)
       \/ Clear
    /\ unasked' = "edit"
    /\ UNCHANGED <<cpuVars, running, reason, goal>>

Next2 ==
    \/ Step \/ StepOver \/ StepOut \/ Resume \/ Pause
    \/ \E a \in Addr : RunTo(a)
    \/ RunInstruction
    \/ Arming

Spec2 == Init2 /\ [][Next2]_allVars

-----------------------------------------------------------------------------
TypeOK2 ==
    /\ TypeOK
    /\ pc \in Addr /\ sp \in SP /\ stack \in [SP -> Addr] /\ depth \in Int /\ depth <= MaxDepth
    /\ running \in BOOLEAN
    /\ reason \in {"Paused", "Step", "Halted", "Breakpoint"}
    /\ unasked \in {"start", "call", "edit", "ignored", "no"}

(* SP has not come round since the program began: it is as far below where  *)
(* it started as there are calls not returned from.                         *)
Unwrapped == depth \in StackTop - StackSize + 1 .. StackTop

(* No call is to the instruction after it.  One that is cannot be told, by  *)
(* where it leads, from one that was not taken.                             *)
CallsLeadAway == \A a \in Addr : Prog[a].op = "call" => Prog[a].to # a + 1

Stopped(kind) == ~running /\ reason = "Step" /\ goal.kind = kind

(* A step-over that ends as one ends in the frame it began in, however      *)
(* deeply the routine recursed and whatever breakpoints came and went on    *)
(* its landing site; only a return may end it further out.                  *)
StepOverStaysInFrame == Stopped("over") => depth <= goal.depth

(* A step-out that ends as one has left the routine it began in, and not    *)
(* merely come back to its return address from deeper down.                 *)
StepOutLeavesFrame == Stopped("out") /\ goal.depth > 0 => depth < goal.depth

(* A run to an address that ends as one is there, and a resume never ends   *)
(* as a step: no landing site outlives the movement it was armed for, even  *)
(* one a pause cut short.                                                   *)
NoStaleLanding ==
    /\ Stopped("to") => pc = goal.to
    /\ ~Stopped("resume")
    /\ ~running /\ reason # "Paused" => temporaries = {}

(* What would stop the machine at an address, if it were asked. *)
WouldStop(a) == a \in EnabledAt(exec) /\ ~exec[a].conditional /\ exec[a].ignore = 0

(* A run never goes past an enabled breakpoint it has asked about.          *)
BreakpointsStop == running /\ unasked = "no" => ~WouldStop(pc)
=============================================================================
