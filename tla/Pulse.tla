------------------------------- MODULE Pulse -------------------------------
(***************************************************************************)
(* A tape as a waveform: what one block does (its plan), and the player    *)
(* that turns a sequence of plans into pulses, one call of next_pulse at   *)
(* a time.  A player is the record                                         *)
(*   block         the block the head is in, from 0                        *)
(*   at, n, bit, second   the phase and what it counts: pulses left, the   *)
(*                 byte and bit of the data, the half of a bit's cycle     *)
(*   level         what the last pulse put on the line                     *)
(*   loop_start, loop_left   the one loop there is; loops do not nest      *)
(***************************************************************************)
EXTENDS Integers, Sequences

CONSTANTS
    Timing,        \* the ROM's pulse lengths, and the T-states in a millisecond
    ControlLimit   \* turns of next_pulse without a pulse before the tape is over

ASSUME TimingAssumption ==
    /\ Timing \in [pilot : Nat, header_pilot_pulses : Nat, data_pilot_pulses : Nat,
                   sync_first : Nat, sync_second : Nat, zero : Nat, one : Nat,
                   tail : Nat, pause : Nat, ms : Nat]
    /\ ControlLimit \in Nat

PilotPulses(header) ==
    IF header THEN Timing.header_pilot_pulses ELSE Timing.data_pilot_pulses

\* A TZX pause: one millisecond of it is the edge that ends the last bit.
TailFor(pause_ms) == IF pause_ms = 0 THEN 0 ELSE Timing.ms
PauseFor(pause_ms) == IF pause_ms = 0 THEN 0 ELSE (pause_ms - 1) * Timing.ms

(***************************************************************************)
(* Plans.  A standard block is a data block at the ROM's own lengths.      *)
(***************************************************************************)
Data(pilot, pilot_pulses, sync_first, sync_second, zero, one, last_bits, tail, pause, payload) ==
    [is |-> "Data", pilot |-> pilot, pilot_pulses |-> pilot_pulses,
     sync_first |-> sync_first, sync_second |-> sync_second, zero |-> zero, one |-> one,
     last_bits |-> last_bits, tail |-> tail, pause |-> pause, bytes |-> payload]

Standard(header, tail, pause, payload) ==
    Data(Timing.pilot, PilotPulses(header), Timing.sync_first, Timing.sync_second,
         Timing.zero, Timing.one, 8, tail, pause, payload)

(***************************************************************************)
(* Phases.                                                                 *)
(***************************************************************************)
NewPlayer ==
    [block |-> 0, at |-> "Start", n |-> 0, bit |-> 0, second |-> FALSE,
     level |-> FALSE, loop_start |-> 0, loop_left |-> 0]

Goto(p, at, n) == [p EXCEPT !.at = at, !.n = n, !.bit = 0, !.second = FALSE]

NextBlock(p) == [Goto(p, "Start", 0) EXCEPT !.block = @ + 1]

FirstBit(p, data) == Goto(p, IF data.bytes = <<>> THEN "Tail" ELSE "Bit", 0)

AfterSyncFirst(p, data) ==
    IF data.sync_second > 0 THEN Goto(p, "SyncSecond", 0) ELSE FirstBit(p, data)

AfterPilot(p, data) ==
    IF data.sync_first > 0 THEN Goto(p, "SyncFirst", 0) ELSE AfterSyncFirst(p, data)

FirstPilot(p, data) ==
    IF data.pilot_pulses > 0 /\ data.pilot > 0
    THEN Goto(p, "Pilot", data.pilot_pulses) ELSE AfterPilot(p, data)

\* Whether a bit is set, counting from the most significant.
BitSet(value, bit) == (value \div 2 ^ (7 - bit)) % 2 = 1

\* The bits of byte n (from 0) that count: all of them but in the last byte.
BitsIn(payload, last_bits, n) ==
    IF n + 1 # Len(payload) THEN 8
    ELSE IF last_bits < 1 THEN 1 ELSE IF last_bits > 8 THEN 8 ELSE last_bits

(***************************************************************************)
(* One turn of next_pulse: the player after it, and the pulse if it made   *)
(* one.                                                                    *)
(***************************************************************************)
Quiet(p) == [player |-> p, out |-> <<>>]

Hold(p, level, ticks) ==
    [player |-> [p EXCEPT !.level = level], out |-> <<[ticks |-> ticks, level |-> level]>>]

Flip(p, ticks) == Hold(p, ~p.level, ticks)

Jump(p, to) == IF to < 0 THEN Goto(p, "Done", 0) ELSE [Goto(p, "Start", 0) EXCEPT !.block = to]

\* Take up a block, or do what a block that is no waveform says.
Begin(p, plan) ==
    CASE plan.is = "Data"    -> FirstPilot(p, plan)
      [] plan.is = "Tone"    -> IF plan.length = 0 \/ plan.pulses = 0
                                THEN NextBlock(p) ELSE Goto(p, "Tone", plan.pulses)
      [] plan.is = "Pulses"  -> IF Len(plan.lengths) < 2 THEN NextBlock(p) ELSE Goto(p, "Sequence", 0)
      [] plan.is = "Direct"  -> IF plan.each = 0 \/ plan.samples = <<>>
                                THEN NextBlock(p) ELSE Goto(p, "Sample", 0)
      [] plan.is = "Jump"    -> Jump(p, plan.to)
      [] plan.is = "Loop"    -> [NextBlock(p) EXCEPT !.loop_start = p.block + 1, !.loop_left = plan.count]
      [] plan.is = "LoopEnd" -> IF p.loop_left > 1
                                THEN [Goto(p, "Start", 0) EXCEPT !.block = p.loop_start, !.loop_left = @ - 1]
                                ELSE [NextBlock(p) EXCEPT !.loop_left = 0]
      [] plan.is = "Level"   -> [NextBlock(p) EXCEPT !.level = plan.level]
      [] plan.is = "Stop"    -> [Goto(p, "Stopped", 0) EXCEPT !.block = @ + 1]
      [] plan.is = "Nothing" -> NextBlock(p)

PlayBit(p, data) ==
    IF p.n >= Len(data.bytes) THEN Quiet(Goto(p, "Tail", 0))
    ELSE LET set == BitSet(data.bytes[p.n + 1], p.bit)
             last == p.bit + 1 >= BitsIn(data.bytes, data.last_bits, p.n)
             after == IF ~p.second THEN [p EXCEPT !.second = TRUE]
                      ELSE IF last THEN Goto(p, "Bit", p.n + 1)
                      ELSE [p EXCEPT !.bit = @ + 1, !.second = FALSE]
         IN  Flip(after, IF set THEN data.one ELSE data.zero)

\* Mutant: the line stays where it was for the pause.
PauseWhereItWas(p, plan) ==
    LET pause == IF plan.is \in {"Data", "Direct"} THEN plan.pause ELSE 0
    IN  IF pause > 0 THEN Hold(NextBlock(p), p.level, pause) ELSE Quiet(NextBlock(p))

\* A pause is a level and no edge: the line goes low for it.
PlayPause(p, plan) ==
    LET pause == IF plan.is \in {"Data", "Direct"} THEN plan.pause ELSE 0
    IN  IF pause > 0 THEN Hold(NextBlock(p), FALSE, pause) ELSE Quiet(NextBlock(p))

PlaySequence(p, lengths) ==
    IF 2 * p.n + 2 > Len(lengths) THEN Quiet(NextBlock(p))
    ELSE LET ticks == lengths[2 * p.n + 1] + 256 * lengths[2 * p.n + 2]
             after == Goto(p, "Sequence", p.n + 1)
         IN  IF ticks > 0 THEN Flip(after, ticks) ELSE Quiet(after)

\* Samples (from 0) of a recording that come before the end of its last byte.
Samples(direct) ==
    LET last == Len(direct.samples) - 1
    IN  8 * last + BitsIn(direct.samples, direct.last_bits, last)
SampleAt(direct, i) == BitSet(direct.samples[i \div 8 + 1], i % 8)

\* A run of samples at one level is one pulse, and absolute: it does not flip.
PlaySamples(p, direct) ==
    LET i == 8 * p.n + p.bit
        level == SampleAt(direct, i)
        end == CHOOSE e \in i + 1 .. Samples(direct) :
                 /\ \A j \in i .. e - 1 : SampleAt(direct, j) = level
                 /\ e < Samples(direct) => SampleAt(direct, e) # level
    IN  IF i >= Samples(direct) THEN Quiet(Goto(p, "Pause", 0))
        ELSE Hold([p EXCEPT !.n = end \div 8, !.bit = end % 8], level, (end - i) * direct.each)

Turn(p, plan) ==
    CASE p.at = "Start" -> Quiet(Begin(p, plan))
      [] p.at = "Pilot" /\ plan.is = "Data" ->
           Flip(IF p.n <= 1 THEN AfterPilot(p, plan) ELSE Goto(p, "Pilot", p.n - 1), plan.pilot)
      [] p.at = "SyncFirst" /\ plan.is = "Data" -> Flip(AfterSyncFirst(p, plan), plan.sync_first)
      [] p.at = "SyncSecond" /\ plan.is = "Data" -> Flip(FirstBit(p, plan), plan.sync_second)
      [] p.at = "Bit" /\ plan.is = "Data" -> PlayBit(p, plan)
      [] p.at = "Tail" /\ plan.is = "Data" ->
           IF plan.tail > 0 THEN Flip(Goto(p, "Pause", 0), plan.tail) ELSE Quiet(Goto(p, "Pause", 0))
      [] p.at = "Pause" -> PlayPause(p, plan)
      [] p.at = "Tone" /\ plan.is = "Tone" ->
           Flip(IF p.n <= 1 THEN NextBlock(p) ELSE Goto(p, "Tone", p.n - 1), plan.length)
      [] p.at = "Sequence" /\ plan.is = "Pulses" -> PlaySequence(p, plan.lengths)
      [] p.at = "Sample" /\ plan.is = "Direct" -> PlaySamples(p, plan)
      [] OTHER -> Quiet(Goto(p, "Start", 0))

RECURSIVE Turns(_, _, _)
Turns(p, plans, steps) ==
    IF p.at \in {"Done", "Stopped"} THEN Quiet(p)
    ELSE IF p.block >= Len(plans) \/ steps >= ControlLimit THEN Quiet(Goto(p, "Done", 0))
    ELSE LET turn == Turn(p, plans[p.block + 1])
         IN  IF turn.out # <<>> THEN turn ELSE Turns(turn.player, plans, steps + 1)

NextPulse(p, plans) == Turns(p, plans, 0)

Resume(p) == IF p.at = "Stopped" THEN Goto(p, "Start", 0) ELSE p
Seek(block) == [NewPlayer EXCEPT !.block = block]
=============================================================================
