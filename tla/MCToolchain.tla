----------------------------- MODULE MCToolchain -----------------------------
(***************************************************************************)
(* Every opcode of every prefix page for a step; sums at the edges of their *)
(* ranges; decimal sums; block moves; and short programs whose every        *)
(* boundary an interrupt or an NMI may break into.                          *)
(*                                                                          *)
(* Short programs in source: forward references and temporary labels,       *)
(* macros and repetitions, modules, conditionals and included files, a      *)
(* program that patches itself together with ORG, one that never settles    *)
(* and one that gets everything wrong.                                      *)
(***************************************************************************)
EXTENDS Toolchain

\* ORGANISED as a program at `org` with handlers at their fixed addresses.
At1(org, bytes) == [at \in {Wrap(org + n - 1) : n \in 1..Len(bytes)} |-> bytes[Wrap(at - org) + 1]]

\* PUSH AF; XOR A; INC A; POP AF; EI; RET  and, for the NMI,  RETN.
Handler == At1(56, <<245, 175, 60, 241, 251, 201>>)
NmiHandler == At1(102, <<237, 69>>)
\* The mode 2 table points at the same handler.
Table == At1(65279, <<56, 0>>)
Scratch == At1(16384, <<17, 34, 51, 68, 85>>)
StackTop == 24576
OnStack == At1(StackTop, <<52, 18>>)

Machine(org, bytes) ==
    [Reset(PowerOn) EXCEPT
        !.pc = org, !.sp = StackTop, !.f = {}, !.a = 5, !.b = 1, !.c = 0, !.d = 72, !.e = 0,
        !.h = 64, !.l = 0, !.ixh = 64, !.ixl = 2, !.iyh = 64, !.iyl = 3, !.i = 254, !.im = 1,
        !.mem = At1(org, bytes) @@ Handler @@ NmiHandler @@ Table @@ Scratch @@ OnStack]

Scenario(about, machine, steps, n, m) ==
    [about |-> about, machine |-> machine, steps |-> steps, ints |-> n, nmis |-> m]

Pages == {<<>>, <<203>>, <<237>>, <<221>>, <<253>>, <<221, 203>>, <<253, 203>>,
          <<221, 221>>, <<253, 221>>, <<221, 237>>}
\* Under DD CB and FD CB the displacement comes before the opcode.
InPage(page, op, fill) ==
    page \o (IF Len(page) = 2 /\ page[2] = 203 THEN <<fill>> ELSE <<>>) \o <<op, fill, fill, fill>>
PageScenarios ==
    {Scenario("page", Machine(at[1], InPage(page, op, at[2])), 1, 0, 0) :
        page \in Pages, op \in 0..255, at \in {<<32768, 5>>, <<65533, 251>>}}
    \cup
    {Scenario("page", [Machine(32768, InPage(page, op, 251)) EXCEPT
                         !.f = Flags, !.b = 0, !.c = 2], 1, 0, 0) : page \in Pages, op \in 0..255}

Edges == {0, 1, 15, 16, 127, 128, 255}
Sums ==
    {Scenario("sum", [Machine(32768, <<128 + 8 * y>>) EXCEPT !.a = a, !.b = v, !.f = f], 1, 0, 0) :
        y \in 0..7, a \in Edges, v \in Edges, f \in {{}, {"C"}}}
WideEdges == {0, 1, 255, 4095, 32767, 32768, 65535}
WideSums ==
    {Scenario("sum", Set16(Set16([Machine(32768, <<237, op>>) EXCEPT !.f = f], "hl", lhs), "de", rhs),
              1, 0, 0) :
        op \in {82, 90}, lhs \in WideEdges, rhs \in WideEdges, f \in {{}, {"C"}}}

Digits == {0, 1, 4, 5, 9}
Bcd == {16 * t + u : t \in Digits, u \in Digits}
\* ADD, ADC, SUB or SBC A,B, then DAA; the carry in is up only where it counts.
Decimals ==
    {Scenario("decimal", [Machine(32768, <<128 + 8 * w[1], 39>>) EXCEPT !.a = a, !.b = v, !.f = w[2]],
              2, 0, 0) :
        a \in Bcd, v \in Bcd,
        w \in {<<0, {}>>, <<1, {"C"}>>, <<2, {}>>, <<3, {"C"}>>}}

Armed(m, mode) == [m EXCEPT !.iff1 = TRUE, !.iff2 = TRUE, !.im = mode]
\* LDIR forwards, onto itself and round the top of memory; LDDR.
Moves ==
    {Scenario("move",
        Set16(Set16(Set16(Armed(Machine(32768, <<237, b[1], 0>>), mode), "hl", b[2]), "de", b[3]), "bc", 3),
        22, 2, 0) :
        mode \in {0, 1, 2},
        b \in {<<176, 16384, 18432>>, <<176, 16384, 16385>>, <<176, 16383, 65534>>,
               <<184, 16386, 18432>>, <<184, 16388, 16387>>}}

\* DI INC A EI NOP INC A; HALT INC A; LD B,2 DJNZ; prefixed loads and a bit set in
\* memory; CALL RET and EX (SP); OTIR; CPIR; an index pushed and popped.
Programs ==
    {<<243, 60, 251, 0, 60, 60>>, <<251, 118, 60, 118, 60>>, <<6, 2, 16, 254, 60>>,
     <<221, 54, 1, 7, 221, 203, 1, 198, 253, 126, 0>>, <<205, 5, 128, 60, 0, 227, 227, 201>>,
     <<6, 2, 237, 179, 60>>, <<14, 3, 6, 0, 62, 51, 237, 177, 60>>, <<221, 229, 253, 225, 60>>}
Interrupted ==
    {Scenario("program", Armed(Machine(32768, p), mode), 26, 2, 1) : p \in Programs, mode \in {1, 2}}

AllScenarios == PageScenarios \cup Sums \cup WideSums \cup Decimals \cup Moves \cup Interrupted

-----------------------------------------------------------------------------
\* Statements as they are written, and the names and values in them.
Global(n) == [kind |-> "global", path |-> <<n>>]
Inside(m, n) == [kind |-> "global", path |-> <<m, n>>]
Local(n) == [kind |-> "local", path |-> <<n>>]
Verbatim(n) == [kind |-> "verbatim", path |-> <<n>>]
Temp(n) == [kind |-> "temp", path |-> <<n>>]
V(n) == <<"ident", Global(n)>>
N(v) == <<"number", v>>
P(e) == <<"paren", e>>
Add(a, b) == <<"binary", "+", a, b>>
Sub(a, b) == <<"binary", "-", a, b>>
Less(a, b) == <<"binary", "<", a, b>>
Fwd(n) == <<"temp", n, TRUE>>
Bwd(n) == <<"temp", n, FALSE>>
Here == <<"here">>
File(n) == <<"file", n>>
S(op, args) == [at |-> <<0, 0>>, label |-> None, op |-> op, args |-> args]
L(name, op, args) == [at |-> <<0, 0>>, label |-> Some(name), op |-> op, args |-> args]
A(name) == L(Global(name), "", <<>>)

Placing(files) ==
    [f \in DOMAIN files |-> [n \in DOMAIN files[f] |-> [files[f][n] EXCEPT !.at = <<f, n>>]]]
Program(steps, files) == [files |-> Placing(files), steps |-> steps, ints |-> 1, nmis |-> 1]

\* A loop over a table that comes after it, sized by a label after that.
Forward ==
    << S("ORG", <<N(32768)>>),
       S("LD", <<V("b"), V("count")>>),
       L(Global("main"), "LD", <<V("hl"), V("table")>>),
       L(Temp("1"), "INC", <<P(V("hl"))>>),
       S("INC", <<V("hl")>>),
       S("DJNZ", <<Bwd("1")>>),
       L(Global("count"), "EQU", <<Sub(V("last"), V("table"))>>),
       S("JR", <<V("z"), Fwd("1")>>),
       S("JR", <<Fwd("1")>>),
       S("DS", <<V("gap"), N(255)>>),
       L(Temp("1"), "LD", <<P(V("last")), V("a")>>),
       S("JP", <<V("done")>>),
       L(Global("gap"), "EQU", <<Sub(V("count"), N(1))>>),
       L(Global("table"), "DB", <<N(1), <<"str", <<65, 66>> >>, <<"unary", "-", N(1)>> >>),
       L(Global("last"), "DW", <<Sub(Here, <<"section">>), V("main")>>),
       L(Global("done"), "HALT", <<>>) >>

\* A macro whose local loop is another at each use, inside a repetition and
\* another macro.
Macros ==
    << S("MACRO", <<V("wait"), V("n")>>),
       S("LD", <<V("b"), V("n")>>),
       L(Local("spin"), "DJNZ", << <<"ident", Local("spin")>> >>),
       S("ENDM", <<>>),
       L(Global("twice"), "MACRO", <<V("p"), V("q")>>),
       S("wait", <<V("p")>>),
       S("JR", << <<"ident", Local("over")>> >>),
       S("wait", <<Add(V("q"), V("extra"))>>),
       L(Local("over"), "LD", <<P(Add(V("ix"), V("q"))), V("a")>>),
       S("ENDM", <<>>),
       S("ORG", <<N(32768)>>),
       A("start"),
       S("twice", <<N(1), N(2)>>),
       S("REPT", <<V("extra"), V("k")>>),
       S("wait", <<Add(V("k"), N(1))>>),
       S("ENDR", <<>>),
       S("JP", <<V("start")>>),
       L(Global("extra"), "EQU", <<N(1)>>) >>

\* Modules and an included file, each with names of its own.
Modular ==
    << << S("ORG", <<N(32768)>>),
          S("MODULE", <<V("one")>>),
          L(Global("start"), "CALL", << <<"ident", Inside("two", "start")>> >>),
          L(Local("x"), "LD", <<V("a"), P(V("value"))>>),
          S("ENDMODULE", <<>>),
          S("INCLUDE", <<File(2)>>),
          L(Global("value"), "DB", <<N(7)>>),
          S("END", <<>>),
          S("NOP", <<>>) >>,
       << S("MODULE", <<V("two")>>),
          L(Global("start"), "LD", <<V("hl"), << "ident", Inside("one", "start")>> >>),
          L(Verbatim("shared"), "LD", <<V("de"), V("shared")>>),
          L(Local("x"), "LD", <<V("a"), P(V("value"))>>),
          S("RET", <<>>),
          L(Global("value"), "DB", <<N(9)>>),
          S("ENDMODULE", <<>>) >> >>

\* What is assembled depends on what comes later.
Conditional ==
    << S("ORG", <<N(32768)>>),
       S("IF", <<V("wide")>>),
       S("LD", <<V("hl"), V("end")>>),
       S("ELSE", <<>>),
       S("LD", <<V("a"), N(0)>>),
       S("ENDIF", <<>>),
       S("IFN", <<V("wide")>>),
       S("IF", <<V("nothing")>>),
       S("ELSE", <<>>),
       S("NOP", <<>>),
       S("ENDIF", <<>>),
       S("ELSEIF", <<Less(V("end"), N(32800))>>),
       S("OUT", <<P(V("c")), N(0)>>),
       S("BIT", <<N(7), P(Sub(V("iy"), N(3)))>>),
       S("ELSE", <<>>),
       S("REPT", <<N(3)>>),
       S("NOP", <<>>),
       S("ENDR", <<>>),
       S("ENDIF", <<>>),
       S("IFDEF", <<V("wide")>>),
       L(Global("n"), "DEFL", <<N(1)>>),
       L(Global("n"), "DEFL", <<Add(V("n"), N(1))>>),
       S("ENDIF", <<>>),
       S("IFNDEF", <<V("unheard")>>),
       S("RST", <<N(16)>>),
       S("ENDIF", <<>>),
       S("IM", <<V("n")>>),
       S("ALIGN", <<N(8), N(0)>>),
       S("DZ", << <<"str", <<72>> >>, Add(N(1), V("wide"))>>),
       A("end"),
       L(Global("wide"), "EQU", <<Less(N(0), Sub(V("end"), N(32768)))>>) >>

\* Code placed out of order, and a jump table filled in afterwards, under names
\* that are conditions where a condition is asked for.
Patched ==
    << S("ORG", <<N(33024)>>),
       L(Global("m"), "INC", <<V("a")>>),
       S("JP", <<V("p")>>),
       S("ORG", <<N(32768)>>),
       L(Global("p"), "DEC", <<V("a")>>),
       L(Global("jump"), "JP", <<N(0)>>),
       S("ORG", <<Add(V("jump"), N(1))>>),
       S("DW", <<V("m")>>) >>

\* A gap that is there when it is not.
Restless ==
    << S("IF", <<Less(V("after"), N(2))>>), S("DS", <<N(4)>>), S("ENDIF", <<>>), A("after") >>

Mistaken ==
    << S("ENDM", <<>>), S("ENDIF", <<>>), S("ELSE", <<>>), S("LD", <<V("a"), V("nowhere")>>),
       S("LD", <<V("a"), N(300)>>), S("FROB", <<>>), A("x"), A("x"), L(Global("y"), "EQU", <<V("y")>>),
       S("DB", <<N(256), V("y")>>), S("DW", <<N(70000)>>), S("ALIGN", <<N(3)>>), S("ALIGN", <<V("y")>>),
       S("DS", <<N(-1)>>), S("REPT", <<N(-1)>>), S("ENDR", <<>>), S("REPT", <<N(99)>>), S("ENDR", <<>>),
       S("EQU", <<N(1)>>), L(Global("NOP"), "MACRO", <<>>), S("ENDM", <<>>),
       L(Global("m"), "MACRO", <<>>), S("m", <<>>), S("ENDM", <<>>),
       L(Global("m"), "MACRO", <<>>), S("ENDM", <<>>), S("MACRO", <<>>), S("ENDM", <<>>),
       S("m", <<>>), S("m", <<N(1)>>), S("INCLUDE", <<File(1)>>), S("INCLUDE", <<File(9)>>),
       S("DB", << <<"binary", "/", N(1), N(0)>>, <<"binary", "mod", N(-7), N(2)>> >>),
       S("IF", <<N(1)>>), S("REPT", <<N(1)>>) >>

AllSources ==
    {Program(14, <<Forward>>), Program(30, <<Macros>>), Program(12, Modular), Program(8, <<Conditional>>),
     Program(6, <<Patched>>), Program(0, <<Restless>>), Program(0, <<Mistaken>>)}

\* A constant is what $ was at its definition.  Used before that, it is what $ was
\* there on the pass before, and nothing notices that it has moved since.
Lagging ==
    << S("DW", <<V("c")>>),
       S("DS", <<Sub(V("m"), N(100))>>),
       L(Global("c"), "EQU", <<Here>>),
       S("ORG", <<N(100)>>),
       S("DS", <<V("n")>>),
       A("m"),
       L(Global("n"), "EQU", <<N(2)>>) >>
LaggingSource == {Program(0, <<Lagging>>)}
\* $ twice in one statement.
Hereabouts == << S("ORG", <<N(32768)>>), S("DW", <<Here, Here>>) >>
HereaboutsSource == {Program(0, <<Hereabouts>>)}
Unscheduled == {}

BlankMachine == Machine(32768, <<>>)
==============================================================================
