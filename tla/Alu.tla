-------------------------------- MODULE Alu --------------------------------
(***************************************************************************)
(* What the Z80's arithmetic does to its operands and its flags             *)
(* (crates/z80/src/alu.rs).  A flag register is the set of the flags that   *)
(* are up, so "P" is also the overflow flag.  Each operation takes the      *)
(* registers and gives the registers after it; `Latch` mirrors the flags    *)
(* into Q, as every operation there does.                                   *)
(***************************************************************************)
EXTENDS Integers, FiniteSets, Bitwise

Low(v) == v % 256
Nibble(v) == v % 16
Low12(w) == w % 4096
High(w) == w \div 256
Word(hi, lo) == hi * 256 + lo
Wrap(w) == w % 65536
Signed(v) == IF v < 128 THEN v ELSE v - 256

Bit(n, v) == (v \div 2^n) % 2 = 1
BitOf(c) == IF c THEN 1 ELSE 0
Up(c, f) == IF c THEN {f} ELSE {}

Flags == {"S", "Z", "Y", "H", "X", "P", "N", "C"}
Weight == [S |-> 128, Z |-> 64, Y |-> 32, H |-> 16, X |-> 8, P |-> 4, N |-> 2, C |-> 1]
FromByte(v) == {f \in Flags : (v \div Weight[f]) % 2 = 1}
ToByte(f) ==
    LET w(g) == IF g \in f THEN Weight[g] ELSE 0
    IN w("S") + w("Z") + w("Y") + w("H") + w("X") + w("P") + w("N") + w("C")

Undocumented == {"X", "Y"}
XY(v) == Up(Bit(5, v), "Y") \cup Up(Bit(3, v), "X")
SZ(v) == Up(Bit(7, v), "S") \cup Up(v = 0, "Z")
Even(v) == Cardinality({n \in 0..7 : Bit(n, v)}) % 2 = 0
SZP(v) == SZ(v) \cup Up(Even(v), "P") \cup XY(v)

Latch(r, f) == [r EXCEPT !.f = f, !.q = f]
CarryIn(r) == BitOf("C" \in r.f)

----------------------------------------------------------------------------
\* Eight bits.

\* The operands agree in sign and the result does not; for a subtraction, they
\* differ and the result has the sign of what was taken away.
AddOverflow(n, a, v, result) == Bit(n, a) = Bit(n, v) /\ Bit(n, a) # Bit(n, result)
SubOverflow(n, a, v, result) == Bit(n, a) # Bit(n, v) /\ Bit(n, a) # Bit(n, result)

AddCommon(r, v, carry) ==
    LET wide == r.a + v + carry
        result == Low(wide)
        f == SZ(result) \cup XY(result)
               \cup Up(Nibble(r.a) + Nibble(v) + carry > 15, "H")
               \cup Up(AddOverflow(7, r.a, v, result), "P")
               \cup Up(wide > 255, "C")
    IN Latch([r EXCEPT !.a = result], f)

SubResult(r, v, carry) == Low(r.a - v - carry)
SubFlags(r, v, carry) ==
    LET result == SubResult(r, v, carry)
    IN {"N"} \cup SZ(result) \cup XY(result)
         \cup Up(Nibble(r.a) - Nibble(v) - carry < 0, "H")
         \cup Up(SubOverflow(7, r.a, v, result), "P")
         \cup Up(r.a - v - carry < 0, "C")
SubCommon(r, v, carry) ==
    Latch([r EXCEPT !.a = SubResult(r, v, carry)], SubFlags(r, v, carry))

\* The comparison takes its undocumented flags from the operand.
Compare(r, v) == Latch(r, (SubFlags(r, v, 0) \ Undocumented) \cup XY(v))

Logic(r, result, extra) == Latch([r EXCEPT !.a = result], extra \cup SZP(result))

\* The alu[] field of an opcode (`apply_alu`).
Apply(op, r, v) ==
    CASE op = 0 -> AddCommon(r, v, 0)
      [] op = 1 -> AddCommon(r, v, CarryIn(r))
      [] op = 2 -> SubCommon(r, v, 0)
      [] op = 3 -> SubCommon(r, v, CarryIn(r))
      [] op = 4 -> Logic(r, r.a & v, {"H"})
      [] op = 5 -> Logic(r, r.a ^^ v, {})
      [] op = 6 -> Logic(r, r.a | v, {})
      [] op = 7 -> Compare(r, v)

IncFlags(r, result) ==
    (r.f \cap {"C"}) \cup SZ(result) \cup XY(result)
       \cup Up(Nibble(result) = 0, "H") \cup Up(result = 128, "P")
DecFlags(r, result) ==
    (r.f \cap {"C"}) \cup {"N"} \cup SZ(result) \cup XY(result)
       \cup Up(Nibble(result) = 15, "H") \cup Up(result = 127, "P")

Negate(r) == SubCommon([r EXCEPT !.a = 0], r.a, 0)

CorrectionOnDigits(r) ==
    (IF Nibble(r.a) > 9 THEN 6 ELSE 0) + (IF "C" \in r.f \/ r.a > 153 THEN 96 ELSE 0)
Correction(r) ==
    (IF "H" \in r.f \/ Nibble(r.a) > 9 THEN 6 ELSE 0)
      + (IF "C" \in r.f \/ r.a > 153 THEN 96 ELSE 0)
DecimalAdjust(r) ==
    LET down == "N" \in r.f
        result == Low(IF down THEN r.a - Correction(r) ELSE r.a + Correction(r))
        half == IF down THEN "H" \in r.f /\ Nibble(r.a) < 6 ELSE Nibble(r.a) > 9
        f == (r.f \cap {"N"}) \cup SZP(result) \cup Up(half, "H")
               \cup Up("C" \in r.f \/ r.a > 153, "C")
    IN Latch([r EXCEPT !.a = result], f)

Complement(r) ==
    Latch([r EXCEPT !.a = 255 - r.a],
          (r.f \ Undocumented) \cup {"H", "N"} \cup XY(255 - r.a))

\* SCF and CCF add the flags of A to those already there, unless the instruction
\* before them wrote flags, when A's replace them.
Inherited(r) == XY(r.a) \cup (IF r.qp = {} THEN r.f \cap Undocumented ELSE {})
SetCarry(r) == Latch(r, (r.f \cap {"S", "Z", "P"}) \cup {"C"} \cup Inherited(r))
FlipCarry(r) ==
    Latch(r, (r.f \cap {"S", "Z", "P"}) \cup Inherited(r)
               \cup (IF "C" \in r.f THEN {"H"} ELSE {"C"}))

----------------------------------------------------------------------------
\* Sixteen bits.  Each gives the flags; the caller stores the result.

Add16(lhs, rhs) == Wrap(lhs + rhs)
Add16Flags(r, lhs, rhs) ==
    (r.f \cap {"S", "Z", "P"}) \cup XY(High(Add16(lhs, rhs)))
       \cup Up(Low12(lhs) + Low12(rhs) > 4095, "H")
       \cup Up(lhs + rhs > 65535, "C")

SZ16(w) == Up(Bit(15, w), "S") \cup Up(w = 0, "Z") \cup XY(High(w))
Adc16(r, lhs, rhs) == Wrap(lhs + rhs + CarryIn(r))
Adc16Flags(r, lhs, rhs) ==
    SZ16(Adc16(r, lhs, rhs))
      \cup Up(Low12(lhs) + Low12(rhs) + CarryIn(r) > 4095, "H")
      \cup Up(AddOverflow(15, lhs, rhs, Adc16(r, lhs, rhs)), "P")
      \cup Up(lhs + rhs + CarryIn(r) > 65535, "C")
Sbc16(r, lhs, rhs) == Wrap(lhs - rhs - CarryIn(r))
Sbc16FlagsBorrowless(r, lhs, rhs) ==
    {"N"} \cup SZ16(Sbc16(r, lhs, rhs))
      \cup Up(Low12(lhs) < Low12(rhs), "H")
      \cup Up(SubOverflow(15, lhs, rhs, Sbc16(r, lhs, rhs)), "P")
      \cup Up(lhs - rhs - CarryIn(r) < 0, "C")
Sbc16Flags(r, lhs, rhs) ==
    {"N"} \cup SZ16(Sbc16(r, lhs, rhs))
      \cup Up(Low12(lhs) - Low12(rhs) - CarryIn(r) < 0, "H")
      \cup Up(SubOverflow(15, lhs, rhs, Sbc16(r, lhs, rhs)), "P")
      \cup Up(lhs - rhs - CarryIn(r) < 0, "C")

----------------------------------------------------------------------------
\* Rotates and shifts, by the y field: RLC RRC RL RR SLA SRA SLL SRL.

Leaves(y, v) == IF y % 2 = 0 THEN Bit(7, v) ELSE Bit(0, v)
Enters(y, r, v) ==
    CASE y \in {0, 1} -> Leaves(y, v)
      [] y \in {2, 3} -> "C" \in r.f
      [] y = 5 -> Bit(7, v)
      [] y = 6 -> TRUE
      [] y \in {4, 7} -> FALSE
Shifted(y, r, v) ==
    IF y % 2 = 0 THEN Low(2 * v) + BitOf(Enters(y, r, v))
                 ELSE v \div 2 + 128 * BitOf(Enters(y, r, v))
ShiftFlags(y, r, v) == SZP(Shifted(y, r, v)) \cup Up(Leaves(y, v), "C")

\* The accumulator's four keep S, Z and P.
RotateA(y, r) ==
    LET result == Shifted(y, r, r.a)
    IN Latch([r EXCEPT !.a = result],
             (r.f \cap {"S", "Z", "P"}) \cup XY(result) \cup Up(Leaves(y, r.a), "C"))

\* BIT: the undocumented flags come from `from`, the register or WZ's high byte.
BitFlags(n, r, v, from) ==
    (r.f \cap {"C"}) \cup {"H"} \cup XY(from)
      \cup (IF Bit(n, v) THEN Up(n = 7, "S") ELSE {"Z", "P"})

\* IN r,(C), and RLD and RRD on what they leave in A.
InFlags(r, v) == (r.f \cap {"C"}) \cup SZP(v)
============================================================================
