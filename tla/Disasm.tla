------------------------------- MODULE Disasm -------------------------------
(***************************************************************************)
(* The disassembler (crates/z80/src/disasm.rs): what the bytes at an        *)
(* address are.  An instruction is its mnemonic and operands, its length    *)
(* and what it does to the program counter.  An operand is a bare word, a   *)
(* word in parentheses, a number, a number in parentheses, or an index      *)
(* register with its displacement; spelling is left out.                    *)
(***************************************************************************)
EXTENDS Cpu

Name(n) == <<"name", n>>
At(n) == <<"at", n>>
Num(v) == <<"num", v>>
Mem(v) == <<"mem", v>>
Index(idx, d) == <<"index", idx, d>>

NoTarget == -1
Normal == [kind |-> "normal", target |-> NoTarget, conditional |-> FALSE]
Transfer(kind, target, conditional) ==
    [kind |-> kind, target |-> target, conditional |-> conditional]

Conditions == <<"nz", "z", "nc", "c", "po", "pe", "p", "m">>
AluNames == <<"ADD", "ADC", "SUB", "SBC", "AND", "XOR", "OR", "CP">>
RotNames == <<"RLC", "RRC", "RL", "RR", "SLA", "SRA", "SLL", "SRL">>
BlockNames == << <<"LDI", "CPI", "INI", "OUTI">>, <<"LDD", "CPD", "IND", "OUTD">>,
                 <<"LDIR", "CPIR", "INIR", "OTIR">>, <<"LDDR", "CPDR", "INDR", "OTDR">> >>
AccumulatorNames == <<"RLCA", "RRCA", "RLA", "RRA", "DAA", "CPL", "SCF", "CCF">>

\* What was decoded from `n` bytes after the opcode's first; `odd` if undocumented.
Decoded(name, args, n, flow, odd) ==
    [op |-> <<name, args>>, len |-> n, flow |-> flow, undocumented |-> odd]
Plain(name, args, n) == Decoded(name, args, n, Normal, FALSE)
Prefixed(d, n) == [d EXCEPT !.len = @ + n]
Odd(d, c) == [d EXCEPT !.undocumented = @ \/ c]

----------------------------------------------------------------------------
\* Operands.  `at` is the address of the opcode.

ByteAfter(s, at, n) == Peek(s, Wrap(at + n))
WordAfter(s, at) == Word(ByteAfter(s, at, 2), ByteAfter(s, at, 1))
RelativeToUnsigned(s, at) == Wrap(at + 2 + ByteAfter(s, at, 1))
RelativeTo(s, at) == Wrap(at + 2 + Signed(ByteAfter(s, at, 1)))

Indexed(idx) == idx # "hl"
IsHalf(idx, y) == Indexed(idx) /\ y \in {4, 5}
Displacements(idx, y) == IF Indexed(idx) /\ y = 6 THEN 1 ELSE 0
SlotOperand(s, at, idx, y) ==
    IF y # 6 THEN Name(Slot(idx, y))
    ELSE IF Indexed(idx) THEN Index(idx, Signed(ByteAfter(s, at, 1)))
    ELSE At("hl")

\* ADD, ADC and SBC name the accumulator; the other five do not.
AluArgs(y, operand) == IF y \in {0, 1, 3} THEN <<Name("a"), operand>> ELSE <<operand>>

----------------------------------------------------------------------------
DecodeRelative(s, at, y) ==
    LET t == RelativeTo(s, at)
    IN CASE y = 0 -> Plain("NOP", <<>>, 1)
         [] y = 1 -> Plain("EX", <<Name("af"), Name("af'")>>, 1)
         [] y = 2 -> Decoded("DJNZ", <<Num(t)>>, 2, Transfer("jump", t, TRUE), FALSE)
         [] y = 3 -> Decoded("JR", <<Num(t)>>, 2, Transfer("jump", t, FALSE), FALSE)
         [] y > 3 -> Decoded("JR", <<Name(Conditions[y - 3]), Num(t)>>, 2,
                             Transfer("jump", t, TRUE), FALSE)

DecodeIndirect(s, at, idx, y) ==
    LET nn == Mem(WordAfter(s, at))
    IN CASE y = 0 -> Plain("LD", <<At("bc"), Name("a")>>, 1)
         [] y = 1 -> Plain("LD", <<Name("a"), At("bc")>>, 1)
         [] y = 2 -> Plain("LD", <<At("de"), Name("a")>>, 1)
         [] y = 3 -> Plain("LD", <<Name("a"), At("de")>>, 1)
         [] y = 4 -> Plain("LD", <<nn, Name(idx)>>, 3)
         [] y = 5 -> Plain("LD", <<Name(idx), nn>>, 3)
         [] y = 6 -> Plain("LD", <<nn, Name("a")>>, 3)
         [] y = 7 -> Plain("LD", <<Name("a"), nn>>, 3)

DecodeX0(s, at, idx, y, z) ==
    LET rr == Name(RP(idx, y \div 2))
        q == y % 2
        n == Displacements(idx, y)
        operand == SlotOperand(s, at, idx, y)
    IN CASE z = 0 -> DecodeRelative(s, at, y)
         [] z = 1 /\ q = 0 -> Plain("LD", <<rr, Num(WordAfter(s, at))>>, 3)
         [] z = 1 /\ q = 1 -> Plain("ADD", <<Name(idx), rr>>, 1)
         [] z = 2 -> DecodeIndirect(s, at, idx, y)
         [] z = 3 -> Plain(<<"INC", "DEC">>[q + 1], <<rr>>, 1)
         [] z \in {4, 5} -> Odd(Plain(<<"INC", "DEC">>[z - 3], <<operand>>, 1 + n),
                                IsHalf(idx, y))
         [] z = 6 -> Odd(Plain("LD", <<operand, Num(ByteAfter(s, at, 1 + n))>>, 2 + n),
                         IsHalf(idx, y))
         [] z = 7 -> Plain(AccumulatorNames[y + 1], <<>>, 1)

\* Beside a memory operand the other keeps its unprefixed name.
DecodeLoad(s, at, idx, y, z) ==
    IF y = 6 /\ z = 6 THEN Decoded("HALT", <<>>, 1, Transfer("halt", NoTarget, FALSE), FALSE)
    ELSE IF y = 6
      THEN Plain("LD", <<SlotOperand(s, at, idx, y), Name(R[z + 1])>>, 1 + Displacements(idx, y))
    ELSE IF z = 6
      THEN Plain("LD", <<Name(R[y + 1]), SlotOperand(s, at, idx, z)>>, 1 + Displacements(idx, z))
      ELSE Odd(Plain("LD", <<Name(Slot(idx, y)), Name(Slot(idx, z))>>, 1),
               IsHalf(idx, y) \/ IsHalf(idx, z))

DecodeArithmetic(s, at, idx, y, z) ==
    Odd(Plain(AluNames[y + 1], AluArgs(y, SlotOperand(s, at, idx, z)),
              1 + Displacements(idx, z)),
        IsHalf(idx, z))

\* `at` is here the address of the CB.
DecodeCb(s, at, idx) ==
    LET n == IF Indexed(idx) THEN 2 ELSE 1
        op == ByteAfter(s, at, n)
        y == Y(op)
        operand == IF Indexed(idx) THEN Index(idx, Signed(ByteAfter(s, at, 1)))
                   ELSE SlotOperand(s, at, "hl", Z(op))
        copy == IF Indexed(idx) /\ Z(op) # 6 THEN <<Name(R[Z(op) + 1])>> ELSE <<>>
        numbered(name, extra) == Plain(name, <<Num(y), operand>> \o extra, n + 1)
    IN CASE X(op) = 0 -> Odd(Plain(RotNames[y + 1], <<operand>> \o copy, n + 1),
                             y = 6 \/ copy # <<>>)
         [] X(op) = 1 -> numbered("BIT", <<>>)
         [] X(op) = 2 -> Odd(numbered("RES", copy), copy # <<>>)
         [] X(op) = 3 -> Odd(numbered("SET", copy), copy # <<>>)

DecodeEdMisc(y) ==
    CASE y = 0 -> Plain("LD", <<Name("i"), Name("a")>>, 2)
      [] y = 1 -> Plain("LD", <<Name("r"), Name("a")>>, 2)
      [] y = 2 -> Plain("LD", <<Name("a"), Name("i")>>, 2)
      [] y = 3 -> Plain("LD", <<Name("a"), Name("r")>>, 2)
      [] y = 4 -> Plain("RRD", <<>>, 2)
      [] y = 5 -> Plain("RLD", <<>>, 2)
      [] y > 5 -> Odd(Plain("NOP", <<>>, 2), TRUE)

Back == Transfer("return", NoTarget, FALSE)

DecodeEdX1(s, at, y, z) ==
    LET rr == Name(RP("hl", y \div 2))
        q == y % 2
        nn == Mem(WordAfter(s, Wrap(at + 1)))
    IN CASE z = 0 -> Odd(Plain("IN", (IF y = 6 THEN <<>> ELSE <<Name(R[y + 1])>>) \o <<At("c")>>, 2),
                         y = 6)
         [] z = 1 -> Odd(Plain("OUT", <<At("c"), IF y = 6 THEN Num(0) ELSE Name(R[y + 1])>>, 2),
                         y = 6)
         [] z = 2 -> Plain(<<"SBC", "ADC">>[q + 1], <<Name("hl"), rr>>, 2)
         [] z = 3 -> Plain("LD", IF q = 0 THEN <<nn, rr>> ELSE <<rr, nn>>, 4)
         [] z = 4 -> Odd(Plain("NEG", <<>>, 2), y # 0)
         [] z = 5 -> Decoded(IF y = 1 THEN "RETI" ELSE "RETN", <<>>, 2, Back, y > 1)
         [] z = 6 -> Odd(Plain("IM", <<Num(<<0, 0, 1, 2>>[(y % 4) + 1])>>, 2), y \in {1, 4, 5})
         [] z = 7 -> DecodeEdMisc(y)

\* `at` is here the address of the ED.
DecodeEd(s, at) ==
    LET op == ByteAfter(s, at, 1)
    IN CASE X(op) = 1 -> DecodeEdX1(s, at, Y(op), Z(op))
         [] X(op) = 2 /\ Z(op) <= 3 /\ Y(op) >= 4 ->
              Decoded(BlockNames[Y(op) - 3][Z(op) + 1], <<>>, 2,
                      IF Y(op) >= 6 THEN Transfer("repeat", NoTarget, FALSE) ELSE Normal, FALSE)
         [] OTHER -> Odd(Plain("NOP", <<>>, 2), TRUE)

----------------------------------------------------------------------------
RECURSIVE DecodeOp(_, _, _)

DecodeMiscellany(s, at, idx, y) ==
    LET nn == WordAfter(s, at)
        n == ByteAfter(s, at, 1)
    IN CASE y = 0 -> Decoded("JP", <<Num(nn)>>, 3, Transfer("jump", nn, FALSE), FALSE)
         [] y = 1 -> DecodeCb(s, at, idx)
         [] y = 2 -> Plain("OUT", <<Mem(n), Name("a")>>, 2)
         [] y = 3 -> Plain("IN", <<Name("a"), Mem(n)>>, 2)
         [] y = 4 -> Plain("EX", <<At("sp"), Name(idx)>>, 1)
         [] y = 5 -> Plain("EX", <<Name("de"), Name("hl")>>, 1)
         [] y = 6 -> Plain("DI", <<>>, 1)
         [] y = 7 -> Plain("EI", <<>>, 1)

DecodePop(idx, y) ==
    CASE y % 2 = 0 -> Plain("POP", <<Name(RP2(idx, y \div 2))>>, 1)
      [] y = 1 -> Decoded("RET", <<>>, 1, Back, FALSE)
      [] y = 3 -> Plain("EXX", <<>>, 1)
      [] y = 5 -> Decoded("JP", <<At(idx)>>, 1, Transfer("jump", NoTarget, FALSE), FALSE)
      [] y = 7 -> Plain("LD", <<Name("sp"), Name(idx)>>, 1)

DecodePush(s, at, idx, y) ==
    LET nn == WordAfter(s, at)
    IN CASE y % 2 = 0 -> Plain("PUSH", <<Name(RP2(idx, y \div 2))>>, 1)
         [] y = 1 -> Decoded("CALL", <<Num(nn)>>, 3, Transfer("call", nn, FALSE), FALSE)
         [] y = 3 -> Prefixed(DecodeOp(s, Wrap(at + 1), "ix"), 1)
         [] y = 5 -> DecodeEd(s, at)
         [] y = 7 -> Prefixed(DecodeOp(s, Wrap(at + 1), "iy"), 1)

DecodeX3(s, at, idx, y, z) ==
    LET nn == WordAfter(s, at)
        cc == Name(Conditions[y + 1])
    IN CASE z = 0 -> Decoded("RET", <<cc>>, 1, [Back EXCEPT !.conditional = TRUE], FALSE)
         [] z = 1 -> DecodePop(idx, y)
         [] z = 2 -> Decoded("JP", <<cc, Num(nn)>>, 3, Transfer("jump", nn, TRUE), FALSE)
         [] z = 3 -> DecodeMiscellany(s, at, idx, y)
         [] z = 4 -> Decoded("CALL", <<cc, Num(nn)>>, 3, Transfer("call", nn, TRUE), FALSE)
         [] z = 5 -> DecodePush(s, at, idx, y)
         [] z = 6 -> Plain(AluNames[y + 1], AluArgs(y, Num(ByteAfter(s, at, 1))), 2)
         [] z = 7 -> Decoded("RST", <<Num(8 * y)>>, 1, Transfer("rst", 8 * y, FALSE), FALSE)

DecodeOp(s, at, idx) ==
    LET op == Peek(s, at)
    IN CASE X(op) = 0 -> DecodeX0(s, at, idx, Y(op), Z(op))
         [] X(op) = 1 -> DecodeLoad(s, at, idx, Y(op), Z(op))
         [] X(op) = 2 -> DecodeArithmetic(s, at, idx, Y(op), Z(op))
         [] X(op) = 3 -> DecodeX3(s, at, idx, Y(op), Z(op))

\* The length is kept in a byte.
Decode(s, at) == [DecodeOp(s, at, "hl") EXCEPT !.len = Low(@)]
NextAddr(s, at) == Wrap(at + Decode(s, at).len)
============================================================================
