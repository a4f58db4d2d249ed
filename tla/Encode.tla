------------------------------- MODULE Encode -------------------------------
(***************************************************************************)
(* The assembler's instruction encoder (crates/rkw-asm/src/encode.rs and    *)
(* operand.rs).  A plan is the shape of an instruction, worked out from its *)
(* syntax alone: a sequence of bytes known already or still to be filled    *)
(* from a value.  Operands are those of Disasm, and a bare word that is no   *)
(* register and may yet be a condition, I, R, AF' or a symbol.              *)
(***************************************************************************)
EXTENDS Disasm
LOCAL INSTANCE SequencesExt

NoForm == << <<"none">> >>

Fixed(b) == <<"fixed", b>>
Imm8(v) == <<"imm8", v>>
Imm16(v) == <<"imm16", v>>
Displacement(d) == <<"displacement", d>>
RelativeJump(v) == <<"relative", v>>
BitField(base, v) == <<"field", base, v>>
Restart(v) == <<"rst", v>>
Mode(v) == <<"im", v>>

Bare(v, n) == <<"bare", v, n>>

----------------------------------------------------------------------------
\* What an operand can be read as.  Each encoder asks for the readings it has a
\* use for, and takes the first that fits.

IndexOf(n) ==
    CASE n \in {"ix", "ixh", "ixl"} -> "ix"
      [] n \in {"iy", "iyh", "iyl"} -> "iy"
      [] OTHER -> "hl"
Reg8Names == [b |-> 0, c |-> 1, d |-> 2, e |-> 3, h |-> 4, l |-> 5, a |-> 7,
              ixh |-> 4, ixl |-> 5, iyh |-> 4, iyl |-> 5]
Reg16Names == {"bc", "de", "hl", "sp", "af", "ix", "iy"}
IsRegister(n) == n \in DOMAIN Reg8Names \/ n \in Reg16Names

WordOf(o) == CASE o[1] = "name" -> o[2] [] o[1] = "bare" -> o[3] [] OTHER -> ""
IsNamed(o, n) == WordOf(o) = n
IsReg8(o) == o[1] = "name" /\ o[2] \in DOMAIN Reg8Names
IsReg16(o) == o[1] = "name" /\ o[2] \in Reg16Names
IsIndexed(o) == o[1] = "index" \/ o \in {At("ix"), At("iy")}
IsMemory(o) == o = At("hl") \/ IsIndexed(o)
\* One of the eight r[] slots, with the prefix it needs.
IsR(o) == IsReg8(o) \/ IsMemory(o)
SlotNumber(o) == IF IsMemory(o) THEN 6 ELSE Reg8Names[o[2]]
IndexR(o) == IF o[1] = "index" \/ o[1] = "at" THEN o[2] ELSE IndexOf(o[2])
DisplacementOf(o) ==
    CASE o[1] = "index" -> <<Displacement(o[3])>>
      [] o \in {At("ix"), At("iy")} -> <<Displacement(0)>>
      [] OTHER -> <<>>

IsAddress(o) == o[1] = "mem" \/ (o[1] = "at" /\ ~IsRegister(o[2]))
IsValue(o) == o[1] \in {"num", "bare"}
IsTarget(o) == IsAddress(o) \/ IsValue(o)
IsCondition(o) == \E y \in 1..8 : Conditions[y] = WordOf(o)
ConditionNumber(o) == (CHOOSE y \in 1..8 : Conditions[y] = WordOf(o)) - 1

RPNumber(n) == CASE n = "bc" -> 0 [] n = "de" -> 1 [] n \in {"hl", "ix", "iy"} -> 2 [] n = "sp" -> 3
IsRP(o) == IsReg16(o) /\ o[2] # "af"
IsRP2(o) == IsReg16(o) /\ o[2] # "sp"

\* Two operands share a prefix if one needs none or both need the same.
Combines(i, j) == i = "hl" \/ j = "hl" \/ i = j
CombinedFirst(i, j) == i
Combined(i, j) == IF i = "hl" THEN j ELSE i

WithPrefix(idx) == CASE idx = "hl" -> <<>> [] idx = "ix" -> <<Fixed(221)>> [] idx = "iy" -> <<Fixed(253)>>
Ed(b) == <<Fixed(237), Fixed(b)>>

----------------------------------------------------------------------------
\* LD

LdRegReg(d, s) ==
    LET memory == IF IsMemory(d) THEN d ELSE s
        other == IF IsMemory(d) THEN s ELSE d
        idx == IF IsMemory(memory) THEN IndexR(memory) ELSE Combined(IndexR(d), IndexR(s))
        possible == IF IsMemory(memory) THEN ~IsMemory(other) /\ IndexR(other) = "hl"
                    ELSE Combines(IndexR(d), IndexR(s))
    IN IF ~possible THEN NoForm
       ELSE WithPrefix(idx) \o <<Fixed(64 + 8 * SlotNumber(d) + SlotNumber(s))>>
              \o DisplacementOf(d) \o DisplacementOf(s)

\* The accumulator's own forms, from and to a register, a pair or an address.
LdToA(s) ==
    CASE s = At("bc") -> <<Fixed(10)>>
      [] s = At("de") -> <<Fixed(26)>>
      [] IsNamed(s, "i") -> Ed(87)
      [] IsNamed(s, "r") -> Ed(95)
      [] IsAddress(s) -> <<Fixed(58), Imm16(s[2])>>
      [] OTHER -> NoForm
LdFromA(d) ==
    CASE d = At("bc") -> <<Fixed(2)>>
      [] d = At("de") -> <<Fixed(18)>>
      [] IsNamed(d, "i") -> Ed(71)
      [] IsNamed(d, "r") -> Ed(79)
      [] IsAddress(d) -> <<Fixed(50), Imm16(d[2])>>
      [] OTHER -> NoForm
LdSpecial(d, s) ==
    IF IsNamed(d, "a") /\ LdToA(s) # NoForm THEN LdToA(s)
    ELSE IF IsNamed(s, "a") THEN LdFromA(d)
    ELSE NoForm

LdSixteen(d, s) ==
    CASE IsNamed(d, "sp") /\ IsReg16(s) /\ RPNumber(s[2]) = 2 ->
           WithPrefix(IndexOf(s[2])) \o <<Fixed(249)>>
      [] IsRP(d) /\ IsAddress(s) ->
           IF RPNumber(d[2]) = 2 THEN WithPrefix(IndexOf(d[2])) \o <<Fixed(42), Imm16(s[2])>>
           ELSE Ed(75 + 16 * RPNumber(d[2])) \o <<Imm16(s[2])>>
      [] IsRP(d) /\ IsValue(s) ->
           WithPrefix(IndexOf(d[2])) \o <<Fixed(1 + 16 * RPNumber(d[2])), Imm16(s[2])>>
      [] IsAddress(d) /\ IsRP(s) ->
           IF RPNumber(s[2]) = 2 THEN WithPrefix(IndexOf(s[2])) \o <<Fixed(34), Imm16(d[2])>>
           ELSE Ed(67 + 16 * RPNumber(s[2])) \o <<Imm16(d[2])>>
      [] OTHER -> NoForm

Ld(args) ==
    IF Len(args) # 2 THEN NoForm
    ELSE LET d == args[1]
             s == args[2]
         IN IF IsR(d) /\ IsR(s) THEN LdRegReg(d, s)
            ELSE IF LdSpecial(d, s) # NoForm THEN LdSpecial(d, s)
            ELSE IF LdSixteen(d, s) # NoForm THEN LdSixteen(d, s)
            ELSE IF IsR(d) /\ IsValue(s)
              THEN WithPrefix(IndexR(d)) \o <<Fixed(6 + 8 * SlotNumber(d))>>
                     \o DisplacementOf(d) \o <<Imm8(s[2])>>
              ELSE NoForm

----------------------------------------------------------------------------
\* Arithmetic

\* SUB B and SUB A,B are the same instruction.
AluForm(args, n) ==
    LET o == args[Len(args)]
    IN IF ~(Len(args) = 1 \/ (Len(args) = 2 /\ IsNamed(args[1], "a"))) THEN NoForm
       ELSE IF IsR(o)
         THEN WithPrefix(IndexR(o)) \o <<Fixed(128 + 8 * n + SlotNumber(o))>> \o DisplacementOf(o)
       ELSE IF IsValue(o) THEN <<Fixed(198 + 8 * n), Imm8(o[2])>>
       ELSE NoForm

\* Under a prefix slot 2 is the index register itself: ADD IX,HL is nothing.
AddForm(args) ==
    IF ~(Len(args) = 2 /\ IsReg16(args[1])) THEN AluForm(args, 0)
    ELSE LET d == args[1][2]
             o == args[2]
         IN IF d \in {"hl", "ix", "iy"} /\ IsRP(o) /\ (RPNumber(o[2]) = 2 => o[2] = d)
              THEN WithPrefix(IndexOf(d)) \o <<Fixed(9 + 16 * RPNumber(o[2]))>>
              ELSE NoForm

CarryForm(args, n, ed) ==
    IF ~(Len(args) = 2 /\ IsNamed(args[1], "hl")) THEN AluForm(args, n)
    ELSE IF IsRP(args[2]) /\ IndexOf(args[2][2]) = "hl" THEN Ed(ed + 16 * RPNumber(args[2][2]))
    ELSE NoForm

IncDecForm(args, reg, pair) ==
    IF Len(args) # 1 THEN NoForm
    ELSE LET o == args[1]
         IN IF IsR(o)
              THEN WithPrefix(IndexR(o)) \o <<Fixed(reg + 8 * SlotNumber(o))>> \o DisplacementOf(o)
            ELSE IF IsRP(o) THEN WithPrefix(IndexOf(o[2])) \o <<Fixed(pair + 16 * RPNumber(o[2]))>>
            ELSE NoForm

----------------------------------------------------------------------------
\* The CB page, whose displacement comes before the opcode.

\* `opcode` is the byte for each slot; `copy` holds the register the indexed
\* forms may also leave their result in.
CbForm(o, copy, opcode) ==
    LET slot == IF copy = <<>> THEN SlotNumber(o) ELSE SlotNumber(copy[1])
    IN IF IsR(o) /\ (copy # <<>> => IsIndexed(o) /\ IsReg8(copy[1]) /\ IndexR(copy[1]) = "hl")
         THEN WithPrefix(IndexR(o)) \o <<Fixed(203)>> \o DisplacementOf(o) \o <<opcode[slot]>>
         ELSE NoForm

Rotate(args, n) ==
    IF Len(args) \in 1..2 THEN CbForm(args[1], Tail(args), [y \in 0..7 |-> Fixed(8 * n + y)]) ELSE NoForm

BitForm(args, group) ==
    IF Len(args) \in 2..3 /\ IsValue(args[1]) /\ (Len(args) = 3 => group # 1)
      THEN CbForm(args[2], Tail(Tail(args)),
                  [y \in 0..7 |-> BitField(64 * group + y, args[1][2])])
      ELSE NoForm

----------------------------------------------------------------------------
\* Control flow, exchanges and ports

Stack(args, base) ==
    IF Len(args) = 1 /\ IsRP2(args[1])
      THEN LET n == args[1][2]
           IN WithPrefix(IndexOf(n))
                \o <<Fixed(base + 16 * (IF n = "af" THEN 3 ELSE RPNumber(n)))>>
      ELSE NoForm

\* A target, with or without a condition before it.
Branch(args, always, base, step) ==
    IF Len(args) = 1 /\ IsTarget(args[1]) THEN <<Fixed(always), Imm16(args[1][2])>>
    ELSE IF Len(args) = 2 /\ IsCondition(args[1]) /\ IsTarget(args[2])
      THEN <<Fixed(base + step * ConditionNumber(args[1])), Imm16(args[2][2])>>
      ELSE NoForm
Jp(args) ==
    IF args \in {<<At("hl")>>, <<At("ix")>>, <<At("iy")>>}
      THEN WithPrefix(args[1][2]) \o <<Fixed(233)>>
      ELSE Branch(args, 195, 194, 8)
Jr(args) ==
    IF Len(args) = 1 /\ IsTarget(args[1]) THEN <<Fixed(24), RelativeJump(args[1][2])>>
    ELSE IF Len(args) = 2 /\ IsCondition(args[1]) /\ ConditionNumber(args[1]) < 4 /\ IsTarget(args[2])
      THEN <<Fixed(32 + 8 * ConditionNumber(args[1])), RelativeJump(args[2][2])>>
      ELSE NoForm
DjnzForm(args) ==
    IF Len(args) = 1 /\ IsTarget(args[1]) THEN <<Fixed(16), RelativeJump(args[1][2])>> ELSE NoForm
Ret(args) ==
    CASE args = <<>> -> <<Fixed(201)>>
      [] Len(args) = 1 /\ IsCondition(args[1]) -> <<Fixed(192 + 8 * ConditionNumber(args[1]))>>
      [] OTHER -> NoForm

Ex(args) ==
    CASE /\ Len(args) \in 1..2 /\ IsNamed(args[1], "af")
         /\ Len(args) = 2 => IsNamed(args[2], "af'") \/ IsNamed(args[2], "af") -> <<Fixed(8)>>
      [] args = <<Name("de"), Name("hl")>> -> <<Fixed(235)>>
      [] Len(args) = 2 /\ args[1] = At("sp") /\ args[2] \in {Name("hl"), Name("ix"), Name("iy")} ->
           WithPrefix(IndexOf(args[2][2])) \o <<Fixed(227)>>
      [] OTHER -> NoForm

PortRegister(o) == IsReg8(o) /\ IndexR(o) = "hl"
In(args) ==
    CASE args = <<At("c")>> -> Ed(112)
      [] Len(args) = 2 /\ args[2] = At("c") /\ PortRegister(args[1]) -> Ed(64 + 8 * SlotNumber(args[1]))
      [] Len(args) = 2 /\ args[1] = Name("a") /\ IsAddress(args[2]) -> <<Fixed(219), Imm8(args[2][2])>>
      [] OTHER -> NoForm
Out(args) ==
    CASE args = <<At("c"), Num(0)>> -> Ed(113)
      [] Len(args) = 2 /\ args[1] = At("c") /\ PortRegister(args[2]) -> Ed(65 + 8 * SlotNumber(args[2]))
      [] Len(args) = 2 /\ args[2] = Name("a") /\ IsAddress(args[1]) -> <<Fixed(211), Imm8(args[1][2])>>
      [] OTHER -> NoForm

----------------------------------------------------------------------------
\* The instructions with no operands.
Simple ==
    [NOP |-> <<0>>, HALT |-> <<118>>, DI |-> <<243>>, EI |-> <<251>>, EXX |-> <<217>>,
     EXA |-> <<8>>, RLCA |-> <<7>>, RRCA |-> <<15>>, RLA |-> <<23>>, RRA |-> <<31>>,
     DAA |-> <<39>>, CPL |-> <<47>>, SCF |-> <<55>>, CCF |-> <<63>>,
     NEG |-> <<237, 68>>, RETN |-> <<237, 69>>, RETI |-> <<237, 77>>,
     RRD |-> <<237, 103>>, RLD |-> <<237, 111>>,
     LDI |-> <<237, 160>>, CPI |-> <<237, 161>>, INI |-> <<237, 162>>, OUTI |-> <<237, 163>>,
     LDD |-> <<237, 168>>, CPD |-> <<237, 169>>, IND |-> <<237, 170>>, OUTD |-> <<237, 171>>,
     LDIR |-> <<237, 176>>, CPIR |-> <<237, 177>>, INIR |-> <<237, 178>>, OTIR |-> <<237, 179>>,
     LDDR |-> <<237, 184>>, CPDR |-> <<237, 185>>, INDR |-> <<237, 186>>, OTDR |-> <<237, 187>>]

SinglePlan(op, v) == IF IsValue(v) THEN <<op>> ELSE NoForm

Plan(name, args) ==
    CASE name \in DOMAIN Simple -> IF args = <<>> THEN [n \in DOMAIN Simple[name] |-> Fixed(Simple[name][n])]
                                   ELSE NoForm
      [] name = "LD" -> Ld(args)
      [] name = "ADD" -> AddForm(args)
      [] name = "ADC" -> CarryForm(args, 1, 74)
      [] name = "SBC" -> CarryForm(args, 3, 66)
      [] name \in {"SUB", "AND", "XOR", "OR", "CP"} ->
           AluForm(args, (CHOOSE n \in 1..8 : AluNames[n] = name) - 1)
      [] name = "INC" -> IncDecForm(args, 4, 3)
      [] name = "DEC" -> IncDecForm(args, 5, 11)
      [] \E n \in 1..8 : RotNames[n] = name ->
           Rotate(args, (CHOOSE n \in 1..8 : RotNames[n] = name) - 1)
      [] name = "BIT" -> BitForm(args, 1)
      [] name = "RES" -> BitForm(args, 2)
      [] name = "SET" -> BitForm(args, 3)
      [] name = "PUSH" -> Stack(args, 197)
      [] name = "POP" -> Stack(args, 193)
      [] name = "JP" -> Jp(args)
      [] name = "JR" -> Jr(args)
      [] name = "DJNZ" -> DjnzForm(args)
      [] name = "CALL" -> Branch(args, 205, 196, 8)
      [] name = "RET" -> Ret(args)
      [] name = "RST" -> IF Len(args) = 1 THEN SinglePlan(Restart(args[1][2]), args[1]) ELSE NoForm
      [] name = "EX" -> Ex(args)
      [] name = "IN" -> In(args)
      [] name = "OUT" -> Out(args)
      [] name = "IM" -> IF Len(args) = 1 /\ IsValue(args[1]) THEN <<Fixed(237), Mode(args[1][2])>>
                        ELSE NoForm

PlanLen(plan) == Len(plan) + Cardinality({n \in 1..Len(plan) : plan[n][1] = "imm16"})

\* Whether a value goes where it is put, and the bytes it makes there.
Fits(b, next) ==
    CASE b[1] = "fixed" -> TRUE
      [] b[1] = "imm8" -> b[2] \in -128..255
      [] b[1] = "displacement" -> b[2] \in -128..127
      [] b[1] = "imm16" -> b[2] \in -32768..65535
      [] b[1] = "relative" -> b[2] - next \in -128..127
      [] b[1] = "field" -> b[3] \in 0..7
      [] b[1] = "rst" -> b[2] \in 0..56 /\ b[2] % 8 = 0
      [] b[1] = "im" -> b[2] \in 0..2
      [] b[1] = "none" -> FALSE
BytesOf(b, next) ==
    CASE b[1] = "fixed" -> <<b[2]>>
      [] b[1] \in {"imm8", "displacement"} -> <<Low(b[2])>>
      [] b[1] = "imm16" -> <<Low(b[2]), Low(b[2] \div 256)>>
      [] b[1] = "relative" -> <<Low(b[2] - next)>>
      [] b[1] = "field" -> <<b[2] + 8 * b[3]>>
      [] b[1] = "rst" -> <<199 + b[2]>>
      [] b[1] = "im" -> << <<70, 86, 94>>[b[2] + 1] >>

Emits(plan, here) == \A n \in 1..Len(plan) : Fits(plan[n], here + PlanLen(plan))
Emit(plan, here) ==
    FlattenSeq([n \in 1..Len(plan) |-> BytesOf(plan[n], here + PlanLen(plan))])
=============================================================================
