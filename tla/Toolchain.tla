------------------------------ MODULE Toolchain ------------------------------
(***************************************************************************)
(* From source text to a running program: the assembler's passes, the debug *)
(* information made of their outcome, the load (crates/rkw-cli/src/load.rs) *)
(* and the processor running what was loaded.  Programs that are given as   *)
(* bytes skip the first part.                                               *)
(***************************************************************************)
EXTENDS Isa, Asm, DebugInfo
LOCAL INSTANCE SequencesExt

CONSTANTS
    Sources,    \* [files, steps, ints, nmis]
    Blank       \* the machine a program is loaded into

VARIABLES
    source,
    symbols,    \* the table the next pass starts from
    out,        \* what the last pass produced
    stage       \* "assembling", "settled", "gave up" or "running"

toolVars == <<cpu, twin, frames, left, ints, nmis, born, source, symbols, out, stage>>

NoSource == [files |-> << <<>> >>, steps |-> 0, ints |-> 0, nmis |-> 0]

ToolInit ==
    \/ Init /\ source = NoSource /\ symbols = NewSymbols /\ out = Fresh(<<>>, NewSymbols)
       /\ stage = "running"
    \/ /\ source \in Sources
       /\ symbols = NewSymbols
       /\ out = Fresh(source.files, NewSymbols)
       /\ stage = "assembling"
       /\ cpu = Blank /\ twin = Blank /\ frames = <<>> /\ left = 0 /\ ints = 0 /\ nmis = 0
       /\ born = [about |-> "source", machine |-> Blank, steps |-> 0, ints |-> 0, nmis |-> 0]

Assemble ==
    /\ stage = "assembling"
    /\ out' = Concluded(OnePass(source.files, symbols))
    /\ symbols' = IF Settled(out') \/ Exhausted(out') THEN out'.symbols ELSE BeginPass(out'.symbols)
    /\ stage' = IF Settled(out') THEN "settled" ELSE IF Exhausted(out') THEN "gave up" ELSE stage
    /\ UNCHANGED <<vars, source>>

\* A program with an error is not loaded; its entry is its lowest address.
Origin(image) == CHOOSE at \in DOMAIN image : \A other \in DOMAIN image : at <= other
LoadProgram ==
    LET machine == [Blank EXCEPT !.mem = out.image @@ @, !.pc = Origin(out.image)]
    IN /\ stage = "settled"
       /\ out.errors = <<>>
       /\ DOMAIN out.image # {}
       /\ stage' = "running"
       /\ cpu' = machine /\ twin' = machine /\ frames' = <<>>
       /\ left' = source.steps /\ ints' = source.ints /\ nmis' = source.nmis
       /\ born' = [about |-> "assembled", machine |-> machine, steps |-> source.steps,
                   ints |-> source.ints, nmis |-> source.nmis]
       /\ UNCHANGED <<source, symbols, out>>

Execution == Next /\ UNCHANGED <<source, symbols, out, stage>>

ToolNext == Assemble \/ LoadProgram \/ Execution
ToolSpec == ToolInit /\ [][ToolNext]_toolVars

----------------------------------------------------------------------------
(***************************************************************************)
(* Properties                                                              *)
(***************************************************************************)

\* Settled means settled: one more pass would place the same bytes and record
\* the same lines (symbols.rs `converged`: "another pass would produce identical
\* output").  It is a claim about the sources of the run and not about every one:
\* a constant that is EQU `$` and is read before its definition still has the `$`
\* of the pass before, and when that is the last to move the bytes placed are a
\* pass behind (LaggingSource in MCToolchain).
SettledIsFixpoint ==
    stage = "settled" =>
        LET same(again) == again.image = out.image /\ again.lines = out.lines
        IN same(OnePass(source.files, BeginPass(out.symbols)))

Accepted == stage = "settled" /\ out.errors = <<>>

\* The settled table, asked from where a line was written.
TableFor(line) ==
    [out.symbols EXCEPT !.modules = line.written.modules, !.last_global = line.written.last_global,
                        !.temps_previous = out.symbols.temps]
Final(line, e) == Eval(e, line.written.site, TableFor(line)).value

\* A decoded operand against a written one.
SameOperand(line, n, d) ==
    LET o == Operand(line.written.args[n], n)
        v == Final(line, Carried(line.written.args[n]))
    IN CASE o[1] \in {"name", "at"} -> d = o
         [] o[1] = "bare" -> d = Name(o[3]) \/ (d[1] = "num" /\ d[2] \in {v, Low(v), Wrap(v)})
         [] o[1] \in {"num", "mem"} -> d[1] = o[1] /\ d[2] \in {v, Low(v), Wrap(v)}
         [] o[1] = "index" -> d[1] = o[1] /\ d[2] = o[2] /\ d[3] = v

BytesAt(line) == [n \in 1..line.length |-> out.image[Wrap(line.address + n - 1)]]
DataBytes(line, e) ==
    IF e[1] = "str" THEN e[2]
    ELSE IF line.written.op = "DW" THEN <<Low(Final(line, e)), High(Wrap(Final(line, e)))>>
    ELSE <<Low(Final(line, e))>>
Texts(line) == FlattenSeq([n \in 1..Len(line.written.args) |-> DataBytes(line, line.written.args[n])])
AsWritten(line) ==
    LET w == line.written
        d == Decode([Blank EXCEPT !.mem = out.image], line.address)
    IN CASE w.op \in {"DB", "DW"} -> BytesAt(line) = Texts(line)
         [] w.op = "DZ" -> BytesAt(line) = Texts(line) \o <<0>>
         [] w.op = "DS" -> line.length = Final(line, w.args[1])
         [] w.op = "ALIGN" -> (line.address + line.length) % Final(line, w.args[1]) = 0
         [] OTHER -> /\ d.op[1] = w.op
                     /\ d.len = line.length
                     /\ Len(d.op[2]) = Len(w.args)
                     /\ \A n \in 1..Len(w.args) : SameOperand(line, n, d.op[2][n])

Span(line) == line.address..(line.address + line.length - 1)
Overwritten(n) == \E m \in (n + 1)..Len(out.lines) : Span(out.lines[n]) \cap Span(out.lines[m]) # {}

\* Each record of an accepted program that nothing was placed over, read back
\* from its bytes, is the statement as written, every name standing for what the
\* finished table says it is there: no byte is left from a pass that knew less,
\* whatever the conditionals, blocks, scopes and forward references on the way.
\* `$` is the address of the statement, as eval.rs says: that is not so in an
\* argument of DB or DW after the first, which sees the bytes before it
\* (HereaboutsSource in MCToolchain); the sources of the run use it only in first ones.
AssembledAsWritten ==
    Accepted => \A n \in DOMAIN out.lines : Overwritten(n) \/ AsWritten(out.lines[n])

ProgramInfo ==
    Info([n \in DOMAIN source.files |-> <<ToString(n)>>], out.lines, out.expansions)
Reversed(q) == [n \in 1..Len(q) |-> q[Len(q) + 1 - n]]

\* Wherever an assembled program is executing, the debugger finds the statement
\* that is being executed, the expansions it was written through, innermost
\* first, and among the addresses of its line this one.
SourceTold ==
    born.about = "assembled" /\ AtHome /\ ~cpu.halted /\ cpu.pc \in DOMAIN out.image =>
        LET line == LineAt(ProgramInfo, cpu.pc)
            w == line[1].written
        IN /\ line # <<>>
           /\ line[1].address = cpu.pc
           /\ w.op = Decode(cpu, cpu.pc).op[1]
           /\ cpu.pc \in AddressesOf(ProgramInfo, line[1].at)
           /\ Locate(ProgramInfo, cpu.pc)[1].frames =
                [n \in DOMAIN w.within |-> out.expansions[Reversed(w.within)[n]]]

\* A breakpoint asked for on any line of an accepted program, one without code
\* included, is put on the addresses of the first line from there on that has
\* some, and stopping at any of them shows that line.
BreakpointsLand ==
    Accepted =>
        \A file \in DOMAIN source.files : \A line \in 1..Len(source.files[file]) :
            LET site == SourceSite(ProgramInfo, <<ToString(file)>>, line)
                coded == {out.lines[n].at[2] : n \in {k \in DOMAIN out.lines :
                             out.lines[k].at[1] = file /\ out.lines[k].at[2] >= line}}
            IN /\ site.ok <=> coded # {}
               /\ site.ok => /\ site.line \in coded /\ \A other \in coded : site.line <= other
                             /\ \A at \in site.addresses :
                                  LineAt(ProgramInfo, at)[1].at = <<file, site.line>>
=============================================================================
