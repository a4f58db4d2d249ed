--------------------------------- MODULE Asm ---------------------------------
(***************************************************************************)
(* The assembler proper (crates/rkw-asm/src/assemble.rs): walk the          *)
(* statements, place the bytes, and go round until the symbols stay put.    *)
(*                                                                         *)
(* A source is a sequence of files, the first its root; a file is a         *)
(* sequence of statements [at, label, op, args], `at` being the file and    *)
(* line, `label` a name or None.  INCLUDE names its file by number.  Paths, *)
(* INCBIN and the wording of what is reported are left out.                 *)
(***************************************************************************)
EXTENDS Encode, Symbols
LOCAL INSTANCE SequencesExt

CONSTANTS PassLimit, MaxExpansionDepth, MaxRepetitions

----------------------------------------------------------------------------
\* The state of one pass.

Fresh(source, symbols) ==
    [source |-> source, symbols |-> symbols, address |-> 0, section |-> 0, seq |-> 0, emitted |-> 0,
     image |-> [at \in {} |-> 0], lines |-> <<>>, errors |-> <<>>, conditionals |-> <<>>,
     includes |-> <<1>>, macros |-> [n \in {} |-> 0], expansions |-> <<>>, expanding |-> <<>>,
     finished |-> FALSE, at |-> <<1, 0>>]

Active(s) == \A n \in 1..Len(s.conditionals) : s.conditionals[n].taken
SiteOf(s) == Site(s.address, s.section, s.seq)

\* A complaint names the statement and the expansions it happened inside.
Report(s, what) == [s EXCEPT !.errors = Append(@, [what |-> what, at |-> s.at, within |-> s.expanding])]

Write(s, bytes) ==
    LET at(n) == Wrap(s.address + n - 1)
        run == [a \in {at(n) : n \in 1..Len(bytes)} |-> bytes[Wrap(a - s.address) + 1]]
    IN [s EXCEPT !.image = run @@ @, !.address = @ + Len(bytes), !.emitted = @ + Len(bytes)]

Zeros(n, fill) == [k \in 1..n |-> fill]

\* A forward reference is no complaint but a request for another pass.
Asked(e, s) ==
    LET after(r) == [s EXCEPT !.symbols = r.symbols]
        answer(r) ==
          [known |-> r.ok, value |-> r.value,
           state |-> IF r.ok \/ r.error = "not yet defined" THEN after(r) ELSE Report(after(r), r.error)]
    IN answer(Eval(e, SiteOf(s), s.symbols))
ValueOr(default, e, s) ==
    LET orElse(v) == [value |-> IF v.known THEN v.value ELSE default, state |-> v.state]
    IN orElse(Asked(e, s))

\* A definition's outcome.  One refused has named the scope of the locals after it.
Defined(s, outcome) ==
    LET after == [s EXCEPT !.symbols = outcome.symbols]
    IN IF outcome.ok THEN after ELSE Report(after, "already defined")

----------------------------------------------------------------------------
\* Instructions.  An operand is given to the encoder by what it looks like, and
\* its value by its argument's number, since a plan needs no values; 0 is the
\* literal zero.

BareWord(e) == IF e[1] = "ident" /\ Len(e[2].path) = 1 THEN e[2].path[1] ELSE ""
RECURSIVE IndexRegister(_)
IndexRegister(e) ==
    CASE e[1] = "ident" /\ BareWord(e) \in {"ix", "iy"} -> BareWord(e)
      [] e[1] = "binary" /\ e[2] \in {"+", "-"} -> IndexRegister(e[3])
      [] OTHER -> ""
RECURSIVE ZeroIndexed(_)
ZeroIndexed(e) ==
    IF e[1] = "ident" THEN <<"number", 0>> ELSE <<e[1], e[2], ZeroIndexed(e[3]), e[4]>>

Operand(e, n) ==
    CASE e[1] = "ident" /\ IsRegister(BareWord(e)) -> Name(BareWord(e))
      [] e[1] = "ident" /\ ~IsRegister(BareWord(e)) -> Bare(n, BareWord(e))
      [] e[1] = "paren" /\ IsRegister(BareWord(e[2])) -> At(BareWord(e[2]))
      [] e[1] = "paren" /\ IndexRegister(e[2]) # "" /\ BareWord(e[2]) = "" -> Index(IndexRegister(e[2]), n)
      [] e[1] = "paren" /\ IndexRegister(e[2]) = "" /\ ~IsRegister(BareWord(e[2])) -> Mem(n)
      [] e = <<"number", 0>> -> Num(0)
      [] OTHER -> Num(n)
\* What the operand's value is computed from.
Carried(e) ==
    IF e[1] # "paren" THEN e ELSE IF IndexRegister(e[2]) # "" THEN ZeroIndexed(e[2]) ELSE e[2]

Instructions ==
    DOMAIN Simple \cup {AluNames[n] : n \in 1..8} \cup {RotNames[n] : n \in 1..8} \cup
    {"LD", "INC", "DEC", "BIT", "RES", "SET", "PUSH", "POP", "JP", "JR", "DJNZ", "CALL", "RET", "RST",
     "EX", "IN", "OUT", "IM"}

\* The value a byte of a plan is made from.
ValueFor(b, args, s, symbols) ==
    IF b[1] = "fixed" \/ b[Len(b)] = 0 THEN Worth(b[Len(b)], symbols)
    ELSE Eval(Carried(args[b[Len(b)]]), SiteOf(s), symbols)

\* One byte more, unless one before it, its value or its fit says otherwise.
FilledWith(r, b, v, next) ==
    LET byte == [b EXCEPT ![Len(b)] = v.value]
    IN IF ~v.ok THEN [r EXCEPT !.symbols = v.symbols, !.error = v.error]
       ELSE IF ~Fits(byte, next) THEN [r EXCEPT !.symbols = v.symbols, !.error = "does not fit"]
       ELSE [r EXCEPT !.symbols = v.symbols, !.bytes = @ \o BytesOf(byte, next)]
FillFrom(plan, args, s, next) ==
    LET fill(r, b) ==
          IF r.error # "" THEN r ELSE FilledWith(r, b, ValueFor(b, args, s, r.symbols), next)
    IN FoldLeft(fill, [symbols |-> s.symbols, bytes |-> <<>>, error |-> ""], plan)

\* As Filled, a relative jump measured from itself.
FilledFromHere(plan, args, s) == FillFrom(plan, args, s, s.address)

\* Fill a plan in, byte by byte, until a value is missing or does not fit.
Filled(plan, args, s) == FillFrom(plan, args, s, s.address + PlanLen(plan))

\* The address advances by the plan's length even when no bytes can be placed.
Encoded(op, args, s) ==
    LET placed(r, after, len) ==
          CASE r.error = "" -> Write(after, r.bytes)
            [] r.error = "not yet defined" -> [after EXCEPT !.address = @ + len]
            [] OTHER -> [Report(after, r.error) EXCEPT !.address = @ + len]
        filled(r, len) == placed(r, [s EXCEPT !.symbols = r.symbols], len)
        planned(plan) ==
          IF plan = NoForm THEN Report(s, "no such form")
          ELSE filled(Filled(plan, args, s), PlanLen(plan))
    IN planned(IF op \in Instructions THEN Plan(op, [n \in 1..Len(args) |-> Operand(args[n], n)])
               ELSE NoForm)

----------------------------------------------------------------------------
\* Layout and data.

Org(args, s) ==
    LET moved(v) ==
          IF v.known THEN [v.state EXCEPT !.address = v.value, !.section = v.value] ELSE v.state
    IN moved(Asked(args[1], s))

\* A block of n bytes, each the second argument or zero.
Padding(n, args, s) ==
    LET filled(fill) == Write(fill.state, Zeros(n, Low(fill.value)))
    IN filled(IF Len(args) > 1 THEN ValueOr(0, args[2], s) ELSE [value |-> 0, state |-> s])

Align(args, s) ==
    LET aligned(v) ==
          IF ~v.known THEN Report(v.state, "needs a boundary")
          ELSE IF ~\E n \in 0..15 : v.value = 2^n THEN Report(v.state, "not a power of two")
          ELSE Padding((-s.address) % v.value, args, v.state)
    IN aligned(Asked(args[1], s))

Reserve(args, s) ==
    LET reserved(v) ==
          IF ~v.known THEN v.state
          ELSE IF v.value < 0 THEN Report(v.state, "negative")
          ELSE Padding(v.value, args, v.state)
    IN reserved(Asked(args[1], s))

\* A value that does not fit is reported, and zeros keep its place.
Placed(kind, s, e) ==
    LET put(v) ==
          IF Fits(<<kind, v.value>>, 0) THEN Write(v.state, BytesOf(<<kind, v.value>>, 0))
          ELSE Write(Report(v.state, "does not fit"), BytesOf(<<kind, 0>>, 0))
    IN put(ValueOr(0, e, s))
Data(args, zero_terminated, s) ==
    LET place(r, e) == IF e[1] = "str" THEN Write(r, e[2]) ELSE Placed("imm8", r, e)
        ended(all) == IF zero_terminated THEN Write(all, <<0>>) ELSE all
    IN ended(FoldLeft(place, s, args))
Words(args, s) == FoldLeft(LAMBDA r, e : Placed("imm16", r, e), s, args)

\* EQU is held as an expression and may refer forwards; DEFL is evaluated now.
DefineConstant(st, s) ==
    LET name == st.label[1]
        assigned(v) ==
          IF v.known THEN Defined(v.state, DefineVariable(v.state.symbols, name, v.value)) ELSE v.state
    IN IF st.label = None THEN Report(s, "needs a name")
       ELSE IF st.op = "EQU" THEN Defined(s, DefineConst(s.symbols, name, st.args[1], SiteOf(s)))
       ELSE assigned(Asked(st.args[1], s))

----------------------------------------------------------------------------
\* Conditionals.  An unresolved condition counts as zero for now.

Holds(op, args, s) ==
    LET defined == IsDefined(s.symbols, args[1][2])
        nonzero(v) == [taken |-> (v.value # 0) = (op # "IFN"), state |-> v.state]
    IN CASE op = "IFDEF" -> [taken |-> defined, state |-> s]
         [] op = "IFNDEF" -> [taken |-> ~defined, state |-> s]
         [] op \in {"IF", "IFN", "ELSEIF"} -> nonzero(ValueOr(0, args[1], s))

Opened(s, taken, done) ==
    [s EXCEPT !.conditionals = Append(@, [taken |-> taken, done |-> done])]
OpenConditional(op, args, s) ==
    LET opened(c) == Opened(c.state, c.taken, c.taken)
    IN IF Active(s) THEN opened(Holds(op, args, s)) ELSE Opened(s, FALSE, FALSE)

Closed(s) == [s EXCEPT !.conditionals = Front(@)]
ElseBranch(op, args, s) ==
    CASE s.conditionals = <<>> -> Report(s, "no IF")
      [] s.conditionals # <<>> /\ Last(s.conditionals).done -> Opened(Closed(s), FALSE, TRUE)
      [] OTHER -> IF op = "ELSE" THEN Opened(Closed(s), TRUE, TRUE)
                  ELSE OpenConditional(op, args, Closed(s))
EndIf(s) == IF s.conditionals = <<>> THEN Report(s, "no IF") ELSE Closed(s)

----------------------------------------------------------------------------
\* Blocks: macros, repetitions and included files, each a run of statements.

RECURSIVE Run(_, _, _)

Opens == {"MACRO", "REPT"}
Closes == {"ENDM", "ENDR"}
\* The statement closing the block opened at `from`, honouring nesting.
BlockEnd(body, from) ==
    LET depth(n) == Cardinality({k \in from..n : body[k].op \in Opens})
                      - Cardinality({k \in from..n : body[k].op \in Closes})
        ends == {n \in from..Len(body) : depth(n) = 0}
    IN IF ends = {} THEN None ELSE Some(CHOOSE n \in ends : \A m \in ends : n <= m)

DefineMacro(st, body, s) ==
    LET named == st.label # None
        name == IF named THEN st.label[1].path[1] ELSE BareWord(st.args[1])
        parameters == IF named THEN st.args ELSE Tail(st.args)
    IN IF ~named /\ st.args = <<>> THEN Report(s, "needs a name")
       ELSE IF name \in Instructions THEN Report(s, "an instruction")
       ELSE IF name \in DOMAIN s.macros THEN Report(s, "already a macro")
       ELSE [s EXCEPT !.macros =
               (name :> [name |-> name, body |-> body,
                         parameters |-> [n \in 1..Len(parameters) |-> BareWord(parameters[n])]]) @@ @]

\* Parameters stand for the expressions given for them, wherever an argument
\* mentions one.
RECURSIVE Substitute(_, _)
Substitute(e, bindings) ==
    CASE e[1] = "ident" /\ BareWord(e) \in DOMAIN bindings -> bindings[BareWord(e)]
      [] e[1] = "paren" -> <<"paren", Substitute(e[2], bindings)>>
      [] e[1] = "unary" -> <<"unary", e[2], Substitute(e[3], bindings)>>
      [] e[1] = "binary" -> <<"binary", e[2], Substitute(e[3], bindings), Substitute(e[4], bindings)>>
      [] OTHER -> e

Bound(m, args) ==
    LET position(p) == CHOOSE n \in DOMAIN m.parameters : m.parameters[n] = p
    IN [p \in {m.parameters[n] : n \in DOMAIN m.parameters} |-> args[position(p)]]
Substituted(body, bindings) ==
    [n \in DOMAIN body |->
        [body[n] EXCEPT !.args = [k \in DOMAIN @ |-> Substitute(@[k], bindings)]]]

ThisExpansion(s) == IF s.expanding = <<>> THEN None ELSE Some(Last(s.expanding))
Scope(s, scope) == [s EXCEPT !.symbols.last_global = scope]
\* Local labels in the body hang off a name unique to the expansion.
Enter(m, s) ==
    LET index == Len(s.expansions) + 1
    IN [Scope(s, Some(<<m.name, ToString(index)>>)) EXCEPT
          !.expansions = Append(@, [name |-> m.name, invoked_at |-> s.at, parent |-> ThisExpansion(s)]),
          !.expanding = Append(@, index)]
Expand(st, s) ==
    LET m == s.macros[st.op]
    IN IF Len(st.args) # Len(m.parameters) THEN Report(s, "wrong number of arguments")
       ELSE IF Len(s.expanding) >= MaxExpansionDepth THEN Report(s, "expanded too deep")
       ELSE [Scope(Run(Substituted(m.body, Bound(m, st.args)), 1, Enter(m, s)), s.symbols.last_global)
               EXCEPT !.expanding = s.expanding]

\* The counter is a variable, assigned before each round.
Repeat(st, body, s) ==
    LET counted(r, n) ==
          IF Len(st.args) < 2 THEN r
          ELSE Defined(r, DefineVariable(r.symbols, st.args[2][2], n - 1))
        round(r, n) == IF r.finished THEN r ELSE Run(body, 1, counted(r, n))
        repeated(v) ==
          IF ~v.known THEN v.state
          ELSE IF v.value < 0 THEN Report(v.state, "repeats a negative number of times")
          ELSE IF v.value > MaxRepetitions THEN Report(v.state, "too many")
          ELSE FoldLeft(round, v.state, [n \in 1..v.value |-> n])
    IN repeated(Asked(st.args[1], s))

Include(args, s) ==
    LET file == args[1][2]
    IN IF file \in {s.includes[n] : n \in 1..Len(s.includes)} THEN Report(s, "already being included")
       ELSE IF file \notin DOMAIN s.source THEN Report(s, "cannot read")
       ELSE [Run(s.source[file], 1, [s EXCEPT !.includes = Append(@, file)]) EXCEPT !.includes = s.includes]

----------------------------------------------------------------------------
\* Statements.

Directives ==
    {"", "ORG", "ALIGN", "DS", "DB", "DZ", "DW", "MODULE", "ENDMODULE", "INCLUDE", "END"}
IsCall(st, s) == st.op \notin Directives /\ st.op \in DOMAIN s.macros

DirectiveOrInstruction(st, s) ==
    CASE st.op = "" -> s
      [] st.op = "ORG" -> Org(st.args, s)
      [] st.op = "ALIGN" -> Align(st.args, s)
      [] st.op = "DS" -> Reserve(st.args, s)
      [] st.op = "DB" -> Data(st.args, FALSE, s)
      [] st.op = "DZ" -> Data(st.args, TRUE, s)
      [] st.op = "DW" -> Words(st.args, s)
      [] st.op = "MODULE" -> [s EXCEPT !.symbols = EnterModule(@, BareWord(st.args[1]))]
      [] st.op = "ENDMODULE" -> [s EXCEPT !.symbols = LeaveModule(@)]
      [] st.op = "INCLUDE" -> Include(st.args, s)
      [] st.op = "END" -> [s EXCEPT !.finished = TRUE]
      [] st.op \notin Directives ->
           IF IsCall(st, s) THEN Expand(st, s) ELSE Encoded(st.op, st.args, s)

\* What a statement that emitted bytes is recorded as: where, and what its
\* names meant there, which nothing but a property reads.
Recorded(st, s, labelled, after) ==
    [after EXCEPT !.lines = Append(@,
       [at |-> st.at, address |-> Wrap(s.address), length |-> Wrap(after.emitted - s.emitted),
        expansion |-> ThisExpansion(s),
        written |-> [op |-> st.op, args |-> st.args, site |-> SiteOf(s),
                     modules |-> labelled.modules, last_global |-> labelled.last_global,
                     within |-> s.expanding]])]
Labelled(st, s) ==
    IF st.label = None THEN s ELSE Defined(s, DefineLabel(s.symbols, st.label[1], s.address, s.seq))

\* As Assembled, the calls of macros recorded as well.
AssembledRecordingCalls(st, s) ==
    LET outcome(labelled, after) ==
          IF after.emitted = s.emitted THEN after ELSE Recorded(st, s, labelled, after)
        carried_out(labelled) == outcome(labelled.symbols, DirectiveOrInstruction(st, labelled))
    IN IF st.op \in {"EQU", "DEFL"} THEN DefineConstant(st, s) ELSE carried_out(Labelled(st, s))

\* A constant takes the name to its left; everything else labels the address.
\* What emits through statements that record themselves is not recorded again.
Assembled(st, s) ==
    LET outcome(labelled, after) ==
          IF st.op = "INCLUDE" \/ IsCall(st, s) \/ after.emitted = s.emitted THEN after
          ELSE Recorded(st, s, labelled, after)
        carried_out(labelled) == outcome(labelled.symbols, DirectiveOrInstruction(st, labelled))
    IN IF st.op \in {"EQU", "DEFL"} THEN DefineConstant(st, s) ELSE carried_out(Labelled(st, s))

\* Conditionals are read even in a block that is being skipped.
Statement(st, before) ==
    LET s == [before EXCEPT !.seq = @ + 1, !.at = st.at]
    IN CASE st.op \in {"IF", "IFN", "IFDEF", "IFNDEF"} -> OpenConditional(st.op, st.args, s)
         [] st.op \in {"ELSE", "ELSEIF"} -> ElseBranch(st.op, st.args, s)
         [] st.op = "ENDIF" -> EndIf(s)
         [] OTHER -> IF Active(s) THEN Assembled(st, s) ELSE s

Collected(st, body, s) ==
    CASE ~Active(s) -> s
      [] Active(s) /\ st.op = "MACRO" -> DefineMacro(st, body, [s EXCEPT !.at = st.at])
      [] Active(s) /\ st.op = "REPT" -> Repeat(st, body, [s EXCEPT !.at = st.at])

Run(body, at, s) ==
    IF at > Len(body) \/ s.finished THEN s
    ELSE LET st == body[at]
             end == BlockEnd(body, at)
         IN CASE st.op \in Opens /\ end = None -> Report(s, "never closed")
              [] st.op \in Opens /\ end # None ->
                   Run(body, end[1] + 1, Collected(st, SubSeq(body, at + 1, end[1] - 1), s))
              [] st.op \in Closes -> Run(body, at + 1, Report(s, "closes nothing"))
              [] OTHER -> Run(body, at + 1, Statement(st, s))

Finish(s) ==
    LET open == [n \in DOMAIN s.conditionals |->
                   [what |-> "never closed", at |-> s.at, within |-> s.expanding]]
    IN [s EXCEPT !.errors = @ \o open, !.conditionals = <<>>]

OnePass(source, symbols) == Finish(Run(source[1], 1, Fresh(source, symbols)))

\* As Settled, two passes being enough.
SettledByTwo(out) == out.symbols.pass >= 2
Settled(out) == Converged(out.symbols) /\ out.symbols.pass >= 2
Exhausted(out) == out.symbols.pass >= PassLimit
\* A source still moving at the limit is an error.
Concluded(out) == IF Exhausted(out) /\ ~Settled(out) THEN Report(out, "did not settle") ELSE out
=============================================================================
