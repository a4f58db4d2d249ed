------------------------------ MODULE Cassette ------------------------------
(***************************************************************************)
(* The tape deck with its tape, and a recorder listening to the line: a    *)
(* file is mounted, the transport moves the head, every pulse of the       *)
(* player puts a level on EAR, and when the deck is being copied each      *)
(* change of level is an edge the recorder is told of.                     *)
(*                                                                         *)
(* Time is the length of the level in progress (held): when the pulses     *)
(* fall on the machine's clock is module Frames' business.                 *)
(***************************************************************************)
EXTENDS Tzx, Recorder

CONSTANTS
    Shelf,        \* the files: [kind, steady, parts], parts the [bytes, plan] of each block;
                  \* steady when every data block is the ROM's and ends in silence
    Faulty,       \* lengths a damaged pulse may take
    MaxPlayed,    \* bound: pulses played since the head was last put somewhere
    MaxWound,     \* bound: pulses played when the head is wound, short of the end
    MaxVisits,    \* bound: blocks the reference waveform of an endless tape visits
    MaxFaults     \* bound: faults on the line

VARIABLES
    tape,         \* what is mounted: a file of the Shelf and the plans of its blocks, or NoTape
    read,         \* the last file opened, how much of it there was, and what came of it
    player, playing, ear,       \* the deck
    played,       \* pulses played since the head was last put somewhere
    due,          \* history: the waveform there was to play from there, less what has been played
    copying,      \* the recorder is on the line
    held,         \* T-states since the recorder was last told of an edge
    faults,       \* edges missed and pulses damaged
    sent          \* history: the data blocks played to their last bit

deck == <<tape, read, player, playing, ear, played, due>>
wire == <<held, faults, sent>>
vars == <<deck, copying, wire, recorder>>

NoTape == [file |-> 0, plans |-> <<>>]
Nothing == [file |-> 0, cut |-> 0, outcome |-> [ok |-> FALSE]]

(***************************************************************************)
(* Opening a file: the plans of what a reader makes of its first bytes.    *)
(***************************************************************************)
Bytes(file) ==
    LET body == FlattenSeq([i \in DOMAIN file.parts |-> file.parts[i].bytes])
    IN  IF file.kind = "tzx" THEN HeaderBytes \o body ELSE body

Tuple(f) == f \o <<>>

Open(bytestream, kind) ==
    LET planned(r) ==
            IF ~r.ok THEN r
            ELSE [ok |-> TRUE,
                  plans |-> Tuple(IF kind = "tzx" THEN TzxPlans(r.blocks) ELSE TapPlans(r.blocks))]
    IN  planned(IF kind = "tzx" THEN TzxParse(bytestream) ELSE TapParse(bytestream))

\* A file of the shelf, as far as it was read.
Reading(file, cut) ==
    [file |-> file, cut |-> cut,
     outcome |-> Open(SubSeq(Bytes(Shelf[file]), 1, cut), Shelf[file].kind)]

(***************************************************************************)
(* The waveform a tape should make, block by block: the reference.         *)
(***************************************************************************)
Times(n, ticks) == [i \in 1 .. n |-> ticks]
IfAny(ticks) == IF ticks = 0 THEN <<>> ELSE <<ticks>>

\* The bits of a payload that count, in the order they are played.
Payload(bytestream, last_bits) ==
    [i \in 1 .. 8 * (Len(bytestream) - 1) + last_bits |->
        (bytestream[(i - 1) \div 8 + 1] \div 2 ^ (7 - ((i - 1) % 8))) % 2]

Coding(plan) ==
    IF plan.bytes = <<>> THEN <<>>
    ELSE LET bitstream == Payload(plan.bytes, plan.last_bits)
         IN  [i \in 1 .. 2 * Len(bitstream) |->
                IF bitstream[(i + 1) \div 2] = 1 THEN plan.one ELSE plan.zero]

Flips(plan) ==
    CASE plan.is = "Data" ->
           (IF plan.pilot = 0 THEN <<>> ELSE Times(plan.pilot_pulses, plan.pilot))
           \o IfAny(plan.sync_first) \o IfAny(plan.sync_second) \o Coding(plan) \o IfAny(plan.tail)
      [] plan.is = "Tone" -> IF plan.length = 0 THEN <<>> ELSE Times(plan.pulses, plan.length)
      [] plan.is = "Pulses" ->
           FlattenSeq([i \in 1 .. Len(plan.lengths) \div 2 |->
                         IfAny(plan.lengths[2 * i - 1] + 256 * plan.lengths[2 * i])])
      [] OTHER -> <<>>

Recording(plan) ==
    IF plan.is # "Direct" THEN <<>>
    ELSE LET samples == Payload(plan.samples, plan.last_bits)
             firsts == {i \in DOMAIN samples : i = 1 \/ samples[i] # samples[i - 1]}
             first(k) == CHOOSE i \in firsts : Cardinality({j \in firsts : j <= i}) = k
             next(k) == IF k = Cardinality(firsts) THEN Len(samples) + 1 ELSE first(k + 1)
         IN  [k \in 1 .. Cardinality(firsts) |->
                [level |-> samples[first(k)] = 1, ticks |-> plan.each * (next(k) - first(k))]]

LevelAfter(wave, level) == IF wave = <<>> THEN level ELSE Last(wave).level

\* What a block adds to a waveform that has left the line at "level".
Adds(plan, level) ==
    LET flips == Flips(plan)
        waves == [i \in DOMAIN flips |-> [ticks |-> flips[i], level |-> (i % 2 = 1) # level]]
                 \o Recording(plan)
    IN  IF plan.is \in {"Data", "Direct"} /\ plan.pause > 0
        THEN Append(waves, [ticks |-> plan.pause, level |-> FALSE]) ELSE waves

\* The blocks a tape plays from block i up to (not with) block "end": a loop's
\* body as often as it says, a jump where it goes, for so many blocks.
RECURSIVE Script(_, _, _, _)
Script(plans, i, end, fuel) ==
    LET plan == plans[i + 1]
        ends == {e \in i + 1 .. end - 1 : plans[e + 1].is = "LoopEnd"}
        close == CHOOSE e \in ends : \A f \in ends : e <= f
        body == Script(plans, i + 1, close, fuel - 1)
    IN  IF i < 0 \/ i >= end \/ fuel = 0 THEN <<>>
        ELSE IF plan.is = "Jump" THEN Script(plans, plan.to, end, fuel - 1)
        ELSE IF plan.is = "Loop" /\ ends # {}
        THEN FlattenSeq(Times(IF plan.count = 0 THEN 1 ELSE plan.count, body))
             \o Script(plans, close + 1, end, fuel - 1)
        ELSE <<i>> \o Script(plans, i + 1, end, fuel - 1)

RECURSIVE Played(_, _, _)
Played(plans, script, level) ==
    IF script = <<>> THEN <<>>
    ELSE LET plan == plans[Head(script) + 1]
             more == Adds(plan, level)
         IN  IF plan.is = "Level" THEN Played(plans, Tail(script), plan.level)
             ELSE more \o Played(plans, Tail(script), LevelAfter(more, level))

Wave(plans, from) == Played(plans, Script(plans, from, Len(plans), MaxVisits), FALSE)

CassetteInit ==
    /\ RecorderInit
    /\ tape = NoTape /\ read = Nothing
    /\ player = NewPlayer
    /\ playing = FALSE
    /\ ear = TRUE
    /\ played = 0 /\ due = <<>>
    /\ copying \in BOOLEAN
    /\ held = 0 /\ faults = 0
    /\ sent = <<>>

(***************************************************************************)
(* The line.  Only a change of level is an edge.                           *)
(***************************************************************************)
Line(level, ticks) ==
    /\ ear' = level
    /\ IF ~copying \/ level = ear
       THEN held' = (IF copying THEN held + ticks ELSE 0) /\ UNCHANGED recorder
       ELSE held' = ticks /\ Edge(held)

(***************************************************************************)
(* The transport.                                                          *)
(***************************************************************************)
\* Bound: after the first file, a whole one, in a deck that had come to the end.
Changing(file, cut) ==
    read = Nothing \/ (player.at = "Done" /\ cut = Len(Bytes(Shelf[file])))

\* A file that is refused leaves the deck as it was.
Mount(file, cut) ==
    /\ Changing(file, cut)
    /\ tape = NoTape
    /\ copying => Shelf[file].steady
    /\ read' = Reading(file, cut)
    /\ IF read'.outcome.ok
       THEN /\ tape' = [file |-> file, plans |-> read'.outcome.plans]
            /\ player' = NewPlayer
            /\ playing' = FALSE
            /\ played' = 0 /\ due' = Wave(tape'.plans, 0)
            /\ Line(TRUE, 0)
       ELSE UNCHANGED <<tape, player, playing, ear, played, due, held, recorder>>
    /\ UNCHANGED <<copying, faults, sent>>

Eject ==
    /\ ~copying /\ tape # NoTape
    /\ tape' = NoTape
    /\ playing' = FALSE
    /\ Line(TRUE, 0)
    /\ UNCHANGED <<read, player, played, due, copying, faults, sent>>

Play ==
    /\ player' = Resume(player)
    /\ playing' = (playing \/ (tape # NoTape /\ player.at # "Done"))
    /\ UNCHANGED <<tape, read, ear, played, due, copying, wire, recorder>>

Stop ==
    /\ ~copying /\ playing
    /\ playing' = FALSE
    /\ Line(TRUE, 0)
    /\ UNCHANGED <<tape, read, player, played, due, copying, faults, sent>>

\* Rewind is a seek to the first block.  Nothing but the line and whether it plays
\* outlives the old position, so (bound) some positions stand for all of them.
WindTo(block) ==
    /\ ~copying /\ tape # NoTape
    /\ played <= MaxWound \/ player.at = "Done"
    /\ player' = Seek(block)
    /\ played' = 0 /\ due' = Wave(tape.plans, block)
    /\ UNCHANGED <<tape, read, playing, ear, copying, wire, recorder>>

(***************************************************************************)
(* The next pulse is due: the deck plays it, or stops itself at the end of *)
(* the tape and at a block that asks it to.                                *)
(***************************************************************************)
Turned == NextPulse(player, tape.plans)
Out == Head(Turned.out)

\* The last bit of a data block has gone onto the line.
Finished(p) == p.at = "Bit" /\ p.n = Len(tape.plans[p.block + 1].bytes)

NextEdge ==
    /\ playing /\ played < MaxPlayed
    /\ player' = Turned.player
    /\ UNCHANGED <<tape, read, copying>>

Pulsed ==
    /\ Turned.out # <<>>
    /\ played' = played + 1
    /\ due' = IF due = <<>> THEN <<>> ELSE Tail(due)
    /\ sent' = IF copying /\ Finished(player')
               THEN Append(sent, tape.plans[player'.block + 1].bytes) ELSE sent
    /\ UNCHANGED playing

Advance ==
    /\ NextEdge
    /\ UNCHANGED faults
    /\ \/ Pulsed /\ Line(Out.level, Out.ticks)
       \/ /\ Turned.out = <<>>
          /\ playing' = FALSE
          /\ Line(TRUE, 0)
          /\ UNCHANGED <<played, due, sent>>

\* The edge that starts the pulse is missed.
MissEdge ==
    /\ NextEdge
    /\ copying /\ faults < MaxFaults
    /\ Pulsed /\ Out.level # ear
    /\ ear' = Out.level
    /\ held' = held + Out.ticks
    /\ faults' = faults + 1
    /\ UNCHANGED recorder

\* The pulse comes out some other length.
Damage ==
    /\ NextEdge
    /\ copying /\ faults < MaxFaults
    /\ Pulsed /\ \E ticks \in Faulty : Line(Out.level, ticks)
    /\ faults' = faults + 1

\* A frame ends, during a level long enough to be silence or with the deck stopped.
Drain ==
    /\ copying
    /\ held > Gap \/ ~playing
    /\ Idle(IF playing THEN held ELSE Gap + 1)
    /\ UNCHANGED <<deck, copying, wire>>

CassetteNext ==
    \/ \E file \in DOMAIN Shelf : \E cut \in 0 .. Len(Bytes(Shelf[file])) : Mount(file, cut)
    \/ Eject
    \/ Play
    \/ Stop
    \/ \E block \in 0 .. Len(tape.plans) : WindTo(block)
    \/ Advance
    \/ MissEdge
    \/ Damage
    \/ Drain

CassetteSpec == CassetteInit /\ [][CassetteNext]_vars

(***************************************************************************)
(* Properties.                                                             *)
(***************************************************************************)
CassetteTypeOK ==
    /\ RecorderTypeOK
    /\ tape = NoTape \/ tape.file \in DOMAIN Shelf
    /\ read = Nothing \/ read.cut \in 0 .. Len(Bytes(Shelf[read.file]))
    /\ playing \in BOOLEAN /\ ear \in BOOLEAN /\ copying \in BOOLEAN
    /\ played \in 0 .. MaxPlayed
    /\ faults \in 0 .. MaxFaults

\* Wherever the head is put, the pulses from there are those the blocks spell
\* out (pulse.rs, tzx.rs): pilot, sync, the bits that count of the last byte,
\* tail and pause; loops as often as they say, jumps, levels and stops.  The
\* tape is over when, and only when, they have all been played, and a tape
\* that will never make another sound is over too.
PlaysAsWritten ==
    tape # NoTape =>
        /\ ~playing => ear
        /\ player.at = "Done" => due = <<>>
        /\ playing /\ played < MaxPlayed /\ Turned.out # <<>> => due # <<>> /\ Out = Head(due)

\* What SAVE CODE wrote in front of a block describes the block.
HeadersTell(plans) ==
    \A i \in 1 .. Len(plans) - 1 :
        LET next == plans[i + 1]
        IN  plans[i].is = "Data" /\ next.is = "Data" /\ plans[i].bytes # <<>> /\ Header(plans[i].bytes).ok =>
              /\ ChecksumOk(plans[i].bytes)
              /\ Header(plans[i].bytes).kind = 3 => Header(plans[i].bytes).length = Len(BlockData(next.bytes))

\* A file cut short (a download that stopped) is read only where one block
\* ends and the next begins, and then as the blocks that are there, each for
\* what the builder wrote, a code header telling the block behind it; anywhere
\* else it is refused, with the place and the number of bytes that are left
\* (tap.rs, tzx.rs parse).
ReadsBackOrRefuses ==
    read # Nothing =>
        LET parts == Shelf[read.file].parts
            front == IF Shelf[read.file].kind = "tzx" THEN Len(HeaderBytes) ELSE 0
            size(n) == front + Len(FlattenSeq([i \in 1 .. n |-> parts[i].bytes]))
            whole == {n \in 0 .. Len(parts) : size(n) = read.cut}
            opened == read.outcome
        IN  /\ opened.ok <=> whole # {}
            /\ opened.ok => \A n \in whole : opened.plans = [i \in 1 .. n |-> parts[i].plan]
            /\ ~opened.ok /\ read.cut >= front =>
                 opened.have < opened.want /\ opened.have <= read.cut - opened.at
            /\ opened.ok => HeadersTell(opened.plans)

\* What the recorder keeps of a tape was on the tape, in order and from the
\* start of its block: with a clean line whole, every block kept or counted
\* lost; a fault costs the block it falls in, which may be cut short, and no
\* other (save.rs).
CopyIsHonest ==
    copying /\ player.at = "Done" /\ ~playing /\ state = "Idle" =>
        LET missing == Len(sent) - Len(Kept)
        IN  /\ \E from \in [DOMAIN Kept -> DOMAIN sent] :
                 /\ \A i, j \in DOMAIN Kept : i < j => from[i] < from[j]
                 /\ \A i \in DOMAIN Kept :
                      IF faults = 0 THEN Kept[i] = sent[from[i]] ELSE IsPrefix(Kept[i], sent[from[i]])
            /\ dropped = 0 => missing <= lost + faults
            /\ faults = 0 /\ dropped = 0 => missing = lost
=============================================================================
