-------------------------------- MODULE Isa --------------------------------
(***************************************************************************)
(* The processor at work, beside the disassembler and the encoder that      *)
(* claim to describe the same instructions.                                 *)
(*                                                                         *)
(* A scenario is a machine with a program in it, how many instructions to   *)
(* run, and how many interrupts of each kind may come; they come between    *)
(* any two steps.  `twin` is the same machine that nothing interrupts: it   *)
(* steps whenever the machine is in its own program, and waits while the    *)
(* machine is in a handler.                                                 *)
(***************************************************************************)
EXTENDS Encode

CONSTANT Scenarios      \* [machine, steps, ints, nmis, about]

VARIABLES
    cpu,
    twin,
    frames,     \* the interrupts being handled, innermost last
    left,       \* steps still to run
    ints, nmis, \* interrupts still to come
    born        \* the scenario

vars == <<cpu, twin, frames, left, ints, nmis, born>>

Init ==
    /\ born \in Scenarios
    /\ cpu = born.machine
    /\ twin = born.machine
    /\ frames = <<>>
    /\ left = born.steps
    /\ ints = born.ints
    /\ nmis = born.nmis

AtHome == frames = <<>>
Innermost == frames[Len(frames)]

\* A handler is over when the stack is back where its interrupt found it.
Remaining(sp) ==
    IF ~AtHome /\ sp = Innermost.sp THEN SubSeq(frames, 1, Len(frames) - 1) ELSE frames

\* Nothing interrupts: the line is up or down, but the step does not sample it.
Instruction ==
    /\ left > 0
    /\ left' = left - 1
    /\ cpu' = Step(cpu, FALSE, FALSE)
    /\ twin' = IF AtHome THEN Step(twin, FALSE, FALSE) ELSE twin
    /\ frames' = Remaining(cpu'.sp)
    /\ UNCHANGED <<ints, nmis, born>>

\* An interrupt is what a halted program waits for: it goes on after the HALT.
Woken(s) == IF s.halted THEN [s EXCEPT !.halted = FALSE, !.pc = NextAddr(s, s.pc)] ELSE s
Entered(kind) ==
    /\ left > 0
    /\ left' = left - 1
    /\ frames' = Append(frames, [kind |-> kind, sp |-> cpu.sp])
    /\ twin' = IF AtHome THEN Woken(twin) ELSE twin
    /\ UNCHANGED born

Interrupt ==
    /\ ints > 0
    /\ Accepts(cpu)
    /\ Entered("int")
    /\ cpu' = Step(cpu, TRUE, FALSE)
    /\ ints' = ints - 1
    /\ UNCHANGED nmis

Nmi ==
    /\ nmis > 0
    /\ Entered("nmi")
    /\ cpu' = Step(cpu, FALSE, TRUE)
    /\ nmis' = nmis - 1
    /\ UNCHANGED ints

Next == Instruction \/ Interrupt \/ Nmi

Spec == Init /\ [][Next]_vars

----------------------------------------------------------------------------
(***************************************************************************)
(* Properties                                                              *)
(***************************************************************************)

\* What an interrupt may leave different: R and MEMPTR, the flags' undocumented
\* bits, what the next boundary remembers, and the memory under the stack.
Visible(s) ==
    [n \in DOMAIN s \ {"r", "wz", "q", "qp", "f", "ei", "iffread", "restored", "mem"} |-> s[n]]
Documented(s) == s.f \ Undocumented
Under(s) == {at \in DOMAIN cpu.mem \cup DOMAIN twin.mem : at \in (s.sp - 24)..(s.sp - 1)}
SameMemory ==
    \A at \in (DOMAIN cpu.mem \cup DOMAIN twin.mem) \ Under(cpu) : Peek(cpu, at) = Peek(twin, at)

\* An interrupted program cannot tell: back from its handlers, whichever step of
\* it they broke into (a halt, a round of a block instruction, the instruction
\* after a prefixed one), the machine is where the uninterrupted one is.
Transparent ==
    AtHome => /\ Visible(cpu) = Visible(twin)
              /\ Documented(cpu) = Documented(twin)
              /\ SameMemory

\* A handler that ends in EI and a return is not entered again before the return
\* has happened, even if an NMI comes between the two (cpu.rs `ei_pending` and
\* `iff_restored`).
HandlersDoNotNest ==
    Cardinality({n \in 1..Len(frames) : frames[n].kind = "int"}) <= 1

\* The processor and the disassembler agree on what an instruction does to the
\* program counter and the stack: where it ends, where it goes, and what it
\* leaves to come back to (`Flow` and `len`, which step-over and the trace use).
Executed == left' < left /\ Len(frames') <= Len(frames) /\ ~cpu.halted
Flows(d, next) ==
    LET goes(to) == d.flow.target = NoTarget \/ to = d.flow.target
        falls == cpu'.pc = next /\ cpu'.sp = cpu.sp
    IN CASE d.flow.kind = "normal" -> cpu'.pc = next
         [] d.flow.kind = "halt" -> cpu'.halted /\ Wrap(cpu'.pc + 1) = next
         [] d.flow.kind = "repeat" -> cpu'.pc \in {Wrap(next - 2), next} /\ cpu'.sp = cpu.sp
         [] d.flow.kind = "jump" ->
              \/ goes(cpu'.pc) /\ cpu'.sp = cpu.sp
              \/ d.flow.conditional /\ falls
         [] d.flow.kind \in {"call", "rst"} ->
              \/ goes(cpu'.pc) /\ cpu'.sp = Wrap(cpu.sp - 2) /\ Top(cpu') = next
              \/ d.flow.conditional /\ falls
         [] d.flow.kind = "return" ->
              \/ cpu'.pc = Top(cpu) /\ cpu'.sp = Wrap(cpu.sp + 2)
              \/ d.flow.conditional /\ falls
FlowTrue == [][Executed => Flows(Decode(cpu, cpu.pc), NextAddr(cpu, cpu.pc))]_vars

\* The flags of an addition or subtraction say what the numbers did, read as
\* unsigned (C), as signed (P) and as half a byte (H); and a 16-bit ADC or SBC is
\* the two 8-bit ones it stands for.
Sum(y, a, v, c) == IF y \in {0, 1} THEN a + v + c ELSE a - v - c
AluCarry(y) == IF y \in {1, 3} THEN CarryIn(cpu) ELSE 0
EightBits(y, v) ==
    LET c == AluCarry(y)
    IN /\ cpu'.a = (IF y = 7 THEN cpu.a ELSE Low(Sum(y, cpu.a, v, c)))
       /\ "C" \in cpu'.f <=> Sum(y, cpu.a, v, c) \notin 0..255
       /\ "P" \in cpu'.f <=> Sum(y, Signed(cpu.a), Signed(v), c) \notin -128..127
       /\ "H" \in cpu'.f <=> Sum(y, Nibble(cpu.a), Nibble(v), c) \notin 0..15
       /\ "Z" \in cpu'.f <=> Low(Sum(y, cpu.a, v, c)) = 0
       /\ "S" \in cpu'.f <=> Low(Sum(y, cpu.a, v, c)) > 127
SixteenBits(op, v) ==
    LET y == IF op = "ADC" THEN 1 ELSE 3
        low == Apply(y, [cpu EXCEPT !.a = cpu.l], Low(v))
        high == Apply(y, [low EXCEPT !.a = cpu.h], High(v))
    IN /\ Get16(cpu', "hl") = Word(high.a, low.a)
       /\ cpu'.f \ {"Z"} = high.f \ {"Z"}
       /\ "Z" \in cpu'.f <=> Get16(cpu', "hl") = 0
ArithmeticTrue ==
    [][Executed =>
         LET op == Peek(cpu, cpu.pc)
             d == Decode(cpu, cpu.pc).op
         IN /\ X(op) = 2 /\ Y(op) \in {0, 1, 2, 3, 7} /\ Z(op) # 6 =>
                 EightBits(Y(op), cpu[R[Z(op) + 1]])
            /\ d[1] \in {"ADC", "SBC"} /\ d[2][1] = Name("hl") =>
                 SixteenBits(d[1], Get16(cpu, d[2][2][2]))]_vars

\* DAA: two decimal numbers added or subtracted as binary and then adjusted are
\* the decimal sum or difference, its hundreds in the carry.
FromBcd(v) == 10 * (v \div 16) + Nibble(v)
DecimalAdjusts ==
    born.about = "decimal" /\ left = 0 =>
        LET m == born.machine
            sum == Sum(Y(Peek(m, m.pc)), FromBcd(m.a), FromBcd(m.b), CarryIn(m))
        IN /\ FromBcd(cpu.a) = sum % 100
           /\ "C" \in cpu.f <=> sum \notin 0..99

\* A block move leaves what moving its bytes one by one leaves, overlapping or
\* not and however often it is interrupted, with its registers past the block.
RECURSIVE Moved(_, _, _, _, _)
Moved(s, from, to, n, delta) ==
    IF n = 0 THEN s
    ELSE Moved(Poke(s, to, Peek(s, from)), Wrap(from + delta), Wrap(to + delta), n - 1, delta)
BlockMoves ==
    LET m == born.machine
        d == Decode(m, m.pc).op[1]
        delta == IF d = "LDIR" THEN 1 ELSE -1
        n == Get16(m, "bc")
        after == Moved(m, Get16(m, "hl"), Get16(m, "de"), n, delta)
    IN born.about = "move" /\ AtHome /\ cpu.pc = NextAddr(m, m.pc) =>
          /\ Get16(cpu, "bc") = 0
          /\ Get16(cpu, "hl") = Wrap(Get16(m, "hl") + n * delta)
          /\ Get16(cpu, "de") = Wrap(Get16(m, "de") + n * delta)
          /\ \A at \in DOMAIN after.mem \ Under(cpu) : Peek(cpu, at) = after.mem[at]

\* What the disassembler prints, the assembler accepts, and its bytes print the
\* same (rkw-asm's round trip).  A relative jump across the top of memory is the
\* exception: its printed target is out of the encoder's reach.
Around(m, d) == d.op[1] \in {"JR", "DJNZ"} /\ d.flow.target - m.pc \notin -200..200
RoundTrip ==
    LET m == born.machine
        d == Decode(m, m.pc)
        plan == Plan(d.op[1], d.op[2])
        bytes == Emit(plan, m.pc)
        again == [m EXCEPT !.mem = [n \in {Wrap(m.pc + k - 1) : k \in 1..Len(bytes)} |->
                                      bytes[Wrap(n - m.pc) + 1]]]
    IN born.about = "page" /\ left = born.steps /\ ~Around(m, d) =>
          /\ Emits(plan, m.pc)
          /\ Decode(again, m.pc).op = d.op
          /\ Decode(again, m.pc).len = Len(bytes)
          /\ Len(bytes) = PlanLen(plan)
          /\ Len(bytes) <= d.len
============================================================================
