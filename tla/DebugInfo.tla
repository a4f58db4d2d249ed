------------------------------ MODULE DebugInfo ------------------------------
(***************************************************************************)
(* What the debugger is told about an assembled program, and the questions  *)
(* it asks (crates/rkw-asm/src/debug.rs, crates/rkw-dbginfo/src/info.rs and *)
(* source.rs).  A position is the file and the line; a file is known by the *)
(* sequence of its path's components.  Text, columns, symbols, staleness    *)
(* and the spelling of the sidecar are left out.                            *)
(***************************************************************************)
EXTENDS Integers, FiniteSets, Sequences
LOCAL INSTANCE SequencesExt
LOCAL INSTANCE FiniteSetsExt

Before(p, q) == p[1] < q[1] \/ (p[1] = q[1] /\ p[2] < q[2])
Precedes(a, b) ==
    a.address < b.address \/ (a.address = b.address /\ Before(a.at, b.at))

\* The records of a program, sorted so that a lookup is a search.
Info(files, lines, expansions) ==
    [files |-> files, lines |-> SortSeq(lines, Precedes), expansions |-> expansions]

Covers(line, address) == address \in line.address..(line.address + line.length - 1)

\* The last entry starting at or before the address that reaches it.
LineAt(info, address) ==
    LET covering == {n \in DOMAIN info.lines : Covers(info.lines[n], address)}
    IN IF covering = {} THEN <<>> ELSE <<info.lines[Max(covering)]>>

\* A line used by several expansions produced several addresses.
AddressesOf(info, at) ==
    {info.lines[n].address : n \in {k \in DOMAIN info.lines : info.lines[k].at = at}}
\* As LineWithCode, whichever file the later line is in.
LineWithCodeAnywhere(info, at) ==
    LET later == {info.lines[n].at[2] : n \in {k \in DOMAIN info.lines : info.lines[k].at[2] > at[2]}}
    IN IF AddressesOf(info, at) # {} THEN <<at[2]>>
       ELSE IF later = {} THEN <<>> ELSE <<Min(later)>>
LineWithCode(info, at) ==
    LET later == {info.lines[n].at[2] : n \in {k \in DOMAIN info.lines :
                    info.lines[k].at[1] = at[1] /\ info.lines[k].at[2] > at[2]}}
    IN IF AddressesOf(info, at) # {} THEN <<at[2]>>
       ELSE IF later = {} THEN <<>> ELSE <<Min(later)>>

RECURSIVE ExpansionChain(_, _)
ExpansionChain(info, index) ==
    IF index = <<>> THEN <<>>
    ELSE <<info.expansions[index[1]]>> \o ExpansionChain(info, info.expansions[index[1]].parent)

\* An exact name wins; otherwise a whole trailing run of one file's components.
FileMatching(info, spec) ==
    LET exact == {n \in DOMAIN info.files : info.files[n] = spec}
        suffix == {n \in DOMAIN info.files : IsSuffix(spec, info.files[n])}
    IN IF exact # {} THEN [ok |-> TRUE, file |-> Min(exact)]
       ELSE IF Cardinality(suffix) = 1 THEN [ok |-> TRUE, file |-> Min(suffix)]
       ELSE [ok |-> FALSE, file |-> 0]

\* Where a breakpoint asked for on a line goes.
SourceSite(info, spec, line) ==
    LET file == FileMatching(info, spec)
        found == LineWithCode(info, <<file.file, line>>)
    IN IF ~file.ok \/ found = <<>> THEN [ok |-> FALSE, line |-> 0, addresses |-> {}]
       ELSE [ok |-> TRUE, line |-> found[1],
             addresses |-> AddressesOf(info, <<file.file, found[1]>>)]

\* The line an address came from, and the calls of macros it is inside of.
Locate(info, address) ==
    LET line == LineAt(info, address)
    IN IF line = <<>> THEN <<>>
       ELSE <<[at |-> line[1].at, frames |-> ExpansionChain(info, line[1].expansion)]>>
=============================================================================
