-------------------------------- MODULE Cpu --------------------------------
(***************************************************************************)
(* The processor (crates/z80/src/cpu.rs, exec_cb.rs, exec_ed.rs and         *)
(* registers.rs): what one call of `Cpu::step` makes of a machine.          *)
(*                                                                         *)
(* A machine is a record: the 8-bit registers (IX and IY as their halves,   *)
(* F as a set of flags), sp and pc, the shadow set sh, the interrupt state, *)
(* the memory that is not zero, the byte every port answers and the last    *)
(* byte sent to one, and the byte an interrupting device puts on the bus.   *)
(* Time (T-states and contention) is left out.                              *)
(***************************************************************************)
EXTENDS Alu, Sequences, TLC

PowerOn ==
    [a |-> 255, f |-> Flags, b |-> 255, c |-> 255, d |-> 255, e |-> 255,
     h |-> 255, l |-> 255, ixh |-> 255, ixl |-> 255, iyh |-> 255, iyl |-> 255,
     sp |-> 65535, pc |-> 0, i |-> 0, r |-> 0, wz |-> 0, q |-> {}, qp |-> {},
     sh |-> [a |-> 255, f |-> Flags, b |-> 255, c |-> 255, d |-> 255, e |-> 255,
             h |-> 255, l |-> 255],
     iff1 |-> FALSE, iff2 |-> FALSE, im |-> 0, halted |-> FALSE,
     ei |-> FALSE, iffread |-> FALSE, restored |-> FALSE,
     mem |-> <<>>, answers |-> 255, sent |-> <<>>, data |-> 255]

Reset(s) ==
    [s EXCEPT !.pc = 0, !.i = 0, !.r = 0, !.iff1 = FALSE, !.iff2 = FALSE, !.im = 0,
              !.halted = FALSE, !.wz = 0, !.q = {}, !.qp = {},
              !.ei = FALSE, !.iffread = FALSE, !.restored = FALSE]

Peek(s, at) == IF at \in DOMAIN s.mem THEN s.mem[at] ELSE 0
Peek16(s, at) == Word(Peek(s, Wrap(at + 1)), Peek(s, at))
Poke(s, at, v) == [s EXCEPT !.mem = (at :> v) @@ @]
Poke16(s, at, w) == Poke(Poke(s, at, Low(w)), Wrap(at + 1), High(w))

Input(s, port) == s.answers
Output(s, port, v) == [s EXCEPT !.sent = <<port, v>>]

\* The opcode's fields.
X(op) == op \div 64
Y(op) == (op \div 8) % 8
Z(op) == op % 8

----------------------------------------------------------------------------
\* Registers.  `idx` is the pair the HL slot stands for: "hl", "ix" or "iy".

Halves == [bc |-> <<"b", "c">>, de |-> <<"d", "e">>, hl |-> <<"h", "l">>,
           ix |-> <<"ixh", "ixl">>, iy |-> <<"iyh", "iyl">>]
R == <<"b", "c", "d", "e", "h", "l", "(hl)", "a">>
Slot(idx, y) == IF y \in {4, 5} THEN Halves[idx][y - 3] ELSE R[y + 1]
RP(idx, p) == <<"bc", "de", idx, "sp">>[p + 1]
RP2(idx, p) == <<"bc", "de", idx, "af">>[p + 1]

Get16(s, rr) ==
    CASE rr = "sp" -> s.sp
      [] rr = "af" -> Word(s.a, ToByte(s.f))
      [] OTHER -> Word(s[Halves[rr][1]], s[Halves[rr][2]])
Set16(s, rr, w) ==
    CASE rr = "sp" -> [s EXCEPT !.sp = w]
      [] rr = "af" -> [s EXCEPT !.a = High(w), !.f = FromByte(Low(w))]
      [] OTHER -> [s EXCEPT ![Halves[rr][1]] = High(w), ![Halves[rr][2]] = Low(w)]

ExAf(s) == [s EXCEPT !.a = s.sh.a, !.f = s.sh.f, !.sh.a = s.a, !.sh.f = s.f]
Exx(s) ==
    [s EXCEPT !.b = s.sh.b, !.c = s.sh.c, !.d = s.sh.d, !.e = s.sh.e, !.h = s.sh.h,
              !.l = s.sh.l, !.sh = [a |-> s.sh.a, f |-> s.sh.f, b |-> s.b, c |-> s.c,
                                    d |-> s.d, e |-> s.e, h |-> s.h, l |-> s.l]]

\* Bit 7 of R is held; the rest counts.
BumpR(s) == [s EXCEPT !.r = 128 * (@ \div 128) + ((@ + 1) % 128)]

----------------------------------------------------------------------------
\* Fetching, the stack, jumps and operands.

Past(s, n) == [s EXCEPT !.pc = Wrap(@ + n)]
NextByte(s) == Peek(s, s.pc)
NextWord(s) == Peek16(s, s.pc)
FetchOpcode(s) == BumpR(Past(s, 1))

Push(s, w) == Poke16([s EXCEPT !.sp = Wrap(@ - 2)], Wrap(s.sp - 2), w)
Top(s) == Peek16(s, s.sp)
Popped(s) == [s EXCEPT !.sp = Wrap(@ + 2)]

Jump(s, target) == [s EXCEPT !.pc = target, !.wz = target]
JumpRelative(s) == Jump(s, Wrap(s.pc + 1 + Signed(NextByte(s))))
Call(s, target) == Jump(Push(s, s.pc), target)
Return(s) == Jump(Popped(s), Top(s))

Condition(s, y) == (<<"Z", "C", "P", "S">>[y \div 2 + 1] \in s.f) <=> (y % 2 = 1)

\* The memory operand: HL, or the index register displaced by the next byte.
Displaced(s, idx) == Wrap(Get16(s, idx) + Signed(NextByte(s)))
Address(s, idx) == IF idx = "hl" THEN Get16(s, "hl") ELSE Displaced(s, idx)
Addressed(s, idx) ==
    IF idx = "hl" THEN s ELSE [Past(s, 1) EXCEPT !.wz = Displaced(s, idx)]

ReadSlot(s, idx, y) == IF y = 6 THEN Peek(s, Address(s, idx)) ELSE s[Slot(idx, y)]
Reached(s, idx, y) == IF y = 6 THEN Addressed(s, idx) ELSE s
WriteSlot(s, idx, y, at, v) == IF y = 6 THEN Poke(s, at, v) ELSE [s EXCEPT ![Slot(idx, y)] = v]

----------------------------------------------------------------------------
\* The unprefixed page.  Each operator is given the machine with pc past the opcode.

Djnz(s) ==
    LET t == [s EXCEPT !.b = Low(@ - 1)]
    IN IF t.b # 0 THEN JumpRelative(t) ELSE Past(t, 1)

Relative(s, y) ==
    CASE y = 0 -> s
      [] y = 1 -> ExAf(s)
      [] y = 2 -> Djnz(s)
      [] y = 3 -> JumpRelative(s)
      [] y >= 4 -> IF Condition(s, y - 4) THEN JumpRelative(s) ELSE Past(s, 1)

Add16Into(s, idx, rr) ==
    LET lhs == Get16(s, idx)
        rhs == Get16(s, rr)
    IN Latch(Set16([s EXCEPT !.wz = Wrap(lhs + 1)], idx, Add16(lhs, rhs)),
             Add16Flags(s, lhs, rhs))

\* MEMPTR after a store of A: the low byte counts on, the high byte is A.
AfterStore(s, at) == [s EXCEPT !.wz = Word(s.a, Low(at + 1))]
LoadA(s, at) == [s EXCEPT !.a = Peek(s, at), !.wz = Wrap(at + 1)]
StoreA(s, at) == AfterStore(Poke(s, at, s.a), at)
LoadPair(s, rr, at) == Set16([s EXCEPT !.wz = Wrap(at + 1)], rr, Peek16(s, at))
StorePair(s, rr, at) == [Poke16(s, at, Get16(s, rr)) EXCEPT !.wz = Wrap(at + 1)]

Indirect(s, idx, y) ==
    CASE y = 0 -> StoreA(s, Get16(s, "bc"))
      [] y = 1 -> LoadA(s, Get16(s, "bc"))
      [] y = 2 -> StoreA(s, Get16(s, "de"))
      [] y = 3 -> LoadA(s, Get16(s, "de"))
      [] y = 4 -> StorePair(Past(s, 2), idx, NextWord(s))
      [] y = 5 -> LoadPair(Past(s, 2), idx, NextWord(s))
      [] y = 6 -> StoreA(Past(s, 2), NextWord(s))
      [] y = 7 -> LoadA(Past(s, 2), NextWord(s))

IncDec(s, idx, y, up) ==
    LET old == ReadSlot(s, idx, y)
        new == IF up THEN Low(old + 1) ELSE Low(old - 1)
        t == Latch(Reached(s, idx, y), IF up THEN IncFlags(s, new) ELSE DecFlags(s, new))
    IN WriteSlot(t, idx, y, Address(s, idx), new)

LoadImmediate(s, idx, y) ==
    LET t == Reached(s, idx, y)
    IN WriteSlot(Past(t, 1), idx, y, Address(s, idx), NextByte(t))

Accumulator(s, y) ==
    CASE y < 4 -> RotateA(y, s)
      [] y = 4 -> DecimalAdjust(s)
      [] y = 5 -> Complement(s)
      [] y = 6 -> SetCarry(s)
      [] y = 7 -> FlipCarry(s)

X0(s, idx, y, z) ==
    LET p == y \div 2
        q == y % 2
        rr == RP(idx, p)
    IN CASE z = 0 -> Relative(s, y)
         [] z = 1 /\ q = 0 -> Set16(Past(s, 2), rr, NextWord(s))
         [] z = 1 /\ q = 1 -> Add16Into(s, idx, rr)
         [] z = 2 -> Indirect(s, idx, y)
         [] z = 3 -> Set16(s, rr, Wrap(Get16(s, rr) + (IF q = 0 THEN 1 ELSE -1)))
         [] z = 4 -> IncDec(s, idx, y, TRUE)
         [] z = 5 -> IncDec(s, idx, y, FALSE)
         [] z = 6 -> LoadImmediate(s, idx, y)
         [] z = 7 -> Accumulator(s, y)

\* HALT leaves pc on itself.  Beside a memory operand the other slot is H or L.
Halt(s) == [s EXCEPT !.halted = TRUE, !.pc = Wrap(@ - 1)]
Load(s, idx, y, z) ==
    IF y = 6 /\ z = 6 THEN Halt(s)
    ELSE IF z = 6
      THEN WriteSlot(Addressed(s, idx), "hl", y, 0, Peek(s, Address(s, idx)))
    ELSE IF y = 6
      THEN WriteSlot(Addressed(s, idx), "hl", y, Address(s, idx), s[Slot("hl", z)])
      ELSE [s EXCEPT ![Slot(idx, y)] = s[Slot(idx, z)]]

Arithmetic(s, idx, y, z) == Apply(y, Reached(s, idx, z), ReadSlot(s, idx, z))

OutImmediate(s) ==
    [Output(Past(s, 1), Word(s.a, NextByte(s)), s.a)
       EXCEPT !.wz = Word(s.a, Low(NextByte(s) + 1))]
InImmediate(s) ==
    LET port == Word(s.a, NextByte(s))
    IN [Past(s, 1) EXCEPT !.a = Input(s, port), !.wz = Wrap(port + 1)]
ExchangeTop(s, idx) ==
    Set16([Poke16(s, s.sp, Get16(s, idx)) EXCEPT !.wz = Top(s)], idx, Top(s))
ExDeHl(s) == Set16(Set16(s, "de", Get16(s, "hl")), "hl", Get16(s, "de"))
DisableInterrupts(s) == [s EXCEPT !.iff1 = FALSE, !.iff2 = FALSE]
EnableInterrupts(s) == [s EXCEPT !.iff1 = TRUE, !.iff2 = TRUE, !.ei = TRUE]

\* A conditional jump or call leaves its target in WZ whether it is taken or not.
JumpIf(s, taken) ==
    LET t == [Past(s, 2) EXCEPT !.wz = NextWord(s)]
    IN IF taken THEN Jump(t, NextWord(s)) ELSE t
CallIf(s, taken) ==
    LET t == [Past(s, 2) EXCEPT !.wz = NextWord(s)]
    IN IF taken THEN Call(t, NextWord(s)) ELSE t

----------------------------------------------------------------------------
\* The CB page.  For the indexed forms the displacement comes before the opcode,
\* and every one of them works on memory and copies its result to the register.

CbResult(s, op, v) ==
    CASE X(op) = 0 -> Shifted(Y(op), s, v)
      [] X(op) = 2 -> IF Bit(Y(op), v) THEN v - 2^Y(op) ELSE v
      [] X(op) = 3 -> IF Bit(Y(op), v) THEN v ELSE v + 2^Y(op)

ExecuteCb(s, op, idx) ==
    LET indexed == idx # "hl"
        memory == indexed \/ Z(op) = 6
        at == IF indexed THEN s.wz ELSE Get16(s, "hl")
        v == IF memory THEN Peek(s, at) ELSE s[R[Z(op) + 1]]
        new == CbResult(s, op, v)
        t == IF X(op) = 0 THEN Latch(s, ShiftFlags(Y(op), s, v)) ELSE s
    IN IF X(op) = 1
         THEN Latch(s, BitFlags(Y(op), s, v, IF memory THEN High(s.wz) ELSE v))
       ELSE IF ~memory
         THEN [t EXCEPT ![R[Z(op) + 1]] = new]
       ELSE IF indexed /\ Z(op) # 6
         THEN [Poke(t, at, new) EXCEPT ![R[Z(op) + 1]] = new]
         ELSE Poke(t, at, new)

Cb(s, idx) ==
    IF idx = "hl" THEN ExecuteCb(FetchOpcode(s), NextByte(s), idx)
    ELSE LET t == Addressed(s, idx)
         IN ExecuteCb(Past(t, 1), NextByte(t), idx)

----------------------------------------------------------------------------
\* The ED page.

InC(s, y) ==
    LET v == Input(s, Get16(s, "bc"))
        t == Latch([s EXCEPT !.wz = Wrap(Get16(s, "bc") + 1)], InFlags(s, v))
    IN IF y = 6 THEN t ELSE [t EXCEPT ![R[y + 1]] = v]
OutC(s, y) ==
    [Output(s, Get16(s, "bc"), IF y = 6 THEN 0 ELSE s[R[y + 1]])
       EXCEPT !.wz = Wrap(Get16(s, "bc") + 1)]

CarryInto(s, rr, adding) ==
    LET lhs == Get16(s, "hl")
        rhs == Get16(s, rr)
        t == [s EXCEPT !.wz = Wrap(lhs + 1)]
    IN IF adding THEN Latch(Set16(t, "hl", Adc16(s, lhs, rhs)), Adc16Flags(s, lhs, rhs))
                 ELSE Latch(Set16(t, "hl", Sbc16(s, lhs, rhs)), Sbc16Flags(s, lhs, rhs))

ReturnFromNmiUnmarked(s) == Return([s EXCEPT !.iff1 = s.iff2])
ReturnFromNmi(s) ==
    Return([s EXCEPT !.restored = (s.iff1 # s.iff2), !.iff1 = s.iff2])

\* LD A,I and LD A,R report IFF2 in P.
ReadIR(s, v) ==
    Latch([s EXCEPT !.a = v, !.iffread = TRUE],
          (s.f \cap {"C"}) \cup SZ(v) \cup Up(s.iff2, "P") \cup XY(v))

RotateDigit(s, right) ==
    LET at == Get16(s, "hl")
        m == Peek(s, at)
        digit == IF right THEN Nibble(m) ELSE m \div 16
        new == IF right THEN m \div 16 + 16 * Nibble(s.a) ELSE 16 * Nibble(m) + Nibble(s.a)
        a == s.a - Nibble(s.a) + digit
        t == [Poke(s, at, new) EXCEPT !.a = a, !.wz = Wrap(at + 1)]
    IN Latch(t, InFlags(s, a))

EdMisc(s, y) ==
    CASE y = 0 -> [s EXCEPT !.i = s.a]
      [] y = 1 -> [s EXCEPT !.r = s.a]
      [] y = 2 -> ReadIR(s, s.i)
      [] y = 3 -> ReadIR(s, s.r)
      [] y = 4 -> RotateDigit(s, TRUE)
      [] y = 5 -> RotateDigit(s, FALSE)
      [] y > 5 -> s

\* A block instruction that is not done goes back onto itself, and takes two of
\* its flags from the address it goes back to.
Again(s) ==
    LET back == Wrap(s.pc - 2)
        t == [s EXCEPT !.pc = back, !.wz = Wrap(back + 1)]
    IN Latch(t, (t.f \ Undocumented) \cup XY(High(back)))

BlockXY(n) == Up(Bit(1, n), "Y") \cup Up(Bit(3, n), "X")
SteppedInPage(s, rr, delta) ==
    Set16(s, rr, Word(High(Get16(s, rr)), Low(Get16(s, rr) + delta)))
Stepped(s, rr, delta) == Set16(s, rr, Wrap(Get16(s, rr) + delta))

BlockLoad(s, delta, repeating) ==
    LET v == Peek(s, Get16(s, "hl"))
        t == Stepped(Stepped(Stepped(Poke(s, Get16(s, "de"), v), "hl", delta), "de", delta),
                     "bc", -1)
        more == Get16(t, "bc") # 0
        u == Latch(t, (s.f \cap {"S", "Z", "C"}) \cup Up(more, "P") \cup BlockXY(Low(s.a + v)))
    IN IF repeating /\ more THEN Again(u) ELSE u

BlockCompare(s, delta, repeating) ==
    LET v == Peek(s, Get16(s, "hl"))
        result == Low(s.a - v)
        half == Nibble(s.a) < Nibble(v)
        t == Stepped(Stepped(s, "hl", delta), "bc", -1)
        more == Get16(t, "bc") # 0
        u == Latch(t, (s.f \cap {"C"}) \cup {"N"} \cup SZ(result) \cup Up(half, "H")
                        \cup Up(more, "P") \cup BlockXY(Low(result - BitOf(half))))
    IN IF repeating /\ more /\ result # 0 THEN Again(u)
       ELSE [u EXCEPT !.wz = Wrap(@ + delta)]

IoFlags(v, addend, b) ==
    SZ(b) \cup XY(b) \cup Up(Bit(7, v), "N")
      \cup (IF v + addend > 255 THEN {"H", "C"} ELSE {})
      \cup Up(Even(((v + addend) % 8) ^^ b), "P")
IoAgainFlags(f, v, addend, b) ==
    LET p == ((v + addend) % 8) ^^ b
        kept == f \cap {"S", "X", "Y", "N"}
        adjusted == Low(IF Bit(7, v) THEN b - 1 ELSE b + 1)
        half == Nibble(b) = (IF Bit(7, v) THEN 0 ELSE 15)
    IN IF v + addend > 255
         THEN kept \cup {"C"} \cup Up(half, "H") \cup Up(Even(p ^^ (adjusted % 8)), "P")
         ELSE kept \cup Up(Even(p ^^ (b % 8)), "P")
IoAgain(s, v, addend) ==
    LET t == Again(s) IN Latch(t, IoAgainFlags(t.f, v, addend, t.b))

BlockIn(s, delta, repeating) ==
    LET v == Input(s, Get16(s, "bc"))
        addend == Low(s.c + delta)
        t == [Stepped(Poke(s, Get16(s, "hl"), v), "hl", delta)
                EXCEPT !.wz = Wrap(Get16(s, "bc") + delta), !.b = Low(@ - 1)]
        u == Latch(t, IoFlags(v, addend, t.b))
    IN IF repeating /\ t.b # 0 THEN IoAgain(u, v, addend) ELSE u

\* B counts down before the port is driven.
BlockOut(s, delta, repeating) ==
    LET v == Peek(s, Get16(s, "hl"))
        t == [s EXCEPT !.b = Low(@ - 1)]
        port == Get16(t, "bc")
        u == [Stepped(Output(t, port, v), "hl", delta) EXCEPT !.wz = Wrap(port + delta)]
        w == Latch(u, IoFlags(v, u.l, u.b))
    IN IF repeating /\ u.b # 0 THEN IoAgain(w, v, u.l) ELSE w

Block(s, y, z) ==
    LET delta == IF y % 2 = 0 THEN 1 ELSE -1
        repeating == y >= 6
    IN CASE z = 0 -> BlockLoad(s, delta, repeating)
         [] z = 1 -> BlockCompare(s, delta, repeating)
         [] z = 2 -> BlockIn(s, delta, repeating)
         [] z = 3 -> BlockOut(s, delta, repeating)

EdX1(s, y, z) ==
    LET rr == RP("hl", y \div 2)
        q == y % 2
    IN CASE z = 0 -> InC(s, y)
         [] z = 1 -> OutC(s, y)
         [] z = 2 -> CarryInto(s, rr, q = 1)
         [] z = 3 /\ q = 0 -> StorePair(Past(s, 2), rr, NextWord(s))
         [] z = 3 /\ q = 1 -> LoadPair(Past(s, 2), rr, NextWord(s))
         [] z = 4 -> Negate(s)
         [] z = 5 -> ReturnFromNmi(s)
         [] z = 6 -> [s EXCEPT !.im = <<0, 0, 1, 2>>[(y % 4) + 1]]
         [] z = 7 -> EdMisc(s, y)

ExecuteEd(s, op) ==
    CASE X(op) = 1 -> EdX1(s, Y(op), Z(op))
      [] X(op) = 2 /\ Z(op) <= 3 /\ Y(op) >= 4 -> Block(s, Y(op), Z(op))
      [] OTHER -> s

----------------------------------------------------------------------------
\* A DD or FD makes the next opcode part of the same step.

RECURSIVE Execute(_, _)

Miscellany(s, idx, y) ==
    CASE y = 0 -> JumpIf(s, TRUE)
      [] y = 1 -> Cb(s, idx)
      [] y = 2 -> OutImmediate(s)
      [] y = 3 -> InImmediate(s)
      [] y = 4 -> ExchangeTop(s, idx)
      [] y = 5 -> ExDeHl(s)
      [] y = 6 -> DisableInterrupts(s)
      [] y = 7 -> EnableInterrupts(s)

PushOrPrefix(s, idx, y) ==
    CASE y % 2 = 0 -> Push(s, Get16(s, RP2(idx, y \div 2)))
      [] y = 1 -> CallIf(s, TRUE)
      [] y = 3 -> Execute(s, "ix")
      [] y = 5 -> ExecuteEd(FetchOpcode(s), NextByte(s))
      [] y = 7 -> Execute(s, "iy")

PopOrReturn(s, idx, y) ==
    CASE y % 2 = 0 -> Set16(Popped(s), RP2(idx, y \div 2), Top(s))
      [] y = 1 -> Return(s)
      [] y = 3 -> Exx(s)
      [] y = 5 -> [s EXCEPT !.pc = Get16(s, idx)]
      [] y = 7 -> [s EXCEPT !.sp = Get16(s, idx)]

X3(s, idx, y, z) ==
    CASE z = 0 -> IF Condition(s, y) THEN Return(s) ELSE s
      [] z = 1 -> PopOrReturn(s, idx, y)
      [] z = 2 -> JumpIf(s, Condition(s, y))
      [] z = 3 -> Miscellany(s, idx, y)
      [] z = 4 -> CallIf(s, Condition(s, y))
      [] z = 5 -> PushOrPrefix(s, idx, y)
      [] z = 6 -> Apply(y, Past(s, 1), NextByte(s))
      [] z = 7 -> Call(s, 8 * y)

Execute(s, idx) ==
    LET op == NextByte(s)
        t == FetchOpcode(s)
    IN CASE X(op) = 0 -> X0(t, idx, Y(op), Z(op))
         [] X(op) = 1 -> Load(t, idx, Y(op), Z(op))
         [] X(op) = 2 -> Arithmetic(t, idx, Y(op), Z(op))
         [] X(op) = 3 -> X3(t, idx, Y(op), Z(op))

----------------------------------------------------------------------------
\* One step: an interrupt if there is one to take, and otherwise an instruction.

LeaveHaltInPlace(s) == [s EXCEPT !.halted = FALSE]
LeaveHalt(s) == IF s.halted THEN [Past(s, 1) EXCEPT !.halted = FALSE] ELSE s

TakeNmi(s) == Call([BumpR(LeaveHalt(s)) EXCEPT !.iff1 = FALSE], 102)

Vector(s) ==
    CASE s.im = 0 -> s.data & 56
      [] s.im = 1 -> 56
      [] s.im = 2 -> Peek16(s, Word(s.i, s.data))
TakeInterrupt(s) ==
    LET t == Push(DisableInterrupts(BumpR(LeaveHalt(s))), LeaveHalt(s).pc)
    IN Jump(t, Vector(t))

\* An interrupt straight after LD A,I finds that P never took IFF2's value.
Spoiled(s) == [s EXCEPT !.f = @ \ {"P"}, !.q = s.f \ {"P"}]

Accepts(s) == s.iff1 /\ ~s.ei /\ ~s.restored

Step(s, int, nmi) ==
    LET t == [s EXCEPT !.iffread = FALSE, !.restored = FALSE]
        u == [t EXCEPT !.qp = s.q, !.q = {}]
    IN IF nmi THEN TakeNmi(t)
       ELSE IF int /\ Accepts(s) THEN TakeInterrupt(IF s.iffread THEN Spoiled(t) ELSE t)
       ELSE IF s.halted THEN [BumpR(t) EXCEPT !.ei = FALSE]
       ELSE [Execute(u, "hl") EXCEPT !.ei = @ /\ ~s.ei]
============================================================================
