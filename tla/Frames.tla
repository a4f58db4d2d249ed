-------------------------------- MODULE Frames --------------------------------
(***************************************************************************)
(* The Spectrum and its frame clock: the ULA's port, border and interrupt,  *)
(* the tape deck on the EAR line, and the wrappers that make sound, record  *)
(* and paint when a frame ends, under the slices of the emulation thread    *)
(* and the single steps of the debugger, which service nothing.             *)
(*                                                                          *)
(* The program is any sequence of instructions; one of them writes the port *)
(* part of the way through, and the processor is only its interrupt logic.  *)
(***************************************************************************)
EXTENDS EdgeLog

CONSTANTS
    LineTime,        \* T_STATES_PER_LINE
    Lines,           \* LINES_PER_FRAME
    InterruptLength, \* INTERRUPT_LENGTH
    AckTime,         \* T-states an interrupt takes to accept
    Instructions,    \* [op, len, at, value]: the port is written at len's T-state at
    Matrices,        \* keyboard matrices
    Image,           \* the tape: pulses [ticks, level]; no ticks is a block that stops it
    Interval,        \* control_interval
    MaxT,            \* bound: T-states run
    MaxWrites,       \* bound: writes to the port
    MaxCommands      \* bound: commands sent

FrameTime == LineTime * Lines

ASSUME FramesAssumption ==
    /\ {LineTime, Lines, InterruptLength, AckTime, Interval} \subseteq Nat \ {0}
    /\ \A i \in Instructions : i.len \in 1 .. InterruptLength /\ i.len < LineTime
    /\ \A i \in Instructions : i.op = "out" =>
         i.at \in 0 .. i.len /\ {i.value.speaker, i.value.mic} \subseteq BOOLEAN
    /\ Image \in Seq([ticks : Nat, level : BOOLEAN])
    /\ {MaxT, MaxWrites, MaxCommands} \subseteq Nat

VARIABLES
    t,        \* the clock
    cpu,      \* [iff1, ei_pending]
    ula,      \* the ULA
    tape,     \* the deck
    loop,     \* the slice loop: [state, running, target]
    heard,    \* T-states of the MIC edges the recorder was given
    sound,    \* the level the beeper rendered for each T-state
    painted,  \* the border of the frame painted last
    commands, \* history: how many commands have been applied
    writes,   \* history: every write to the port
    cue,      \* history: when and from which pulse the deck was last started
    late,     \* history: an instruction began with a frame's end unserviced
    lost_at   \* history: when an edge last found the log full, or -1

vars == <<t, cpu, ula, tape, loop, heard, sound, painted, commands, writes, cue, late, lost_at>>

Colours == {i.value.colour : i \in {i \in Instructions : i.op = "out"}} \cup {0}

Init ==
    /\ t = 0
    /\ cpu = [iff1 |-> FALSE, ei_pending |-> FALSE]
    /\ ula = [keyboard |-> 0, pending |-> {}, ear |-> {}, log |-> EmptyLog,
              border |-> 0, lines |-> [l \in 0 .. Lines - 1 |-> 0], filled |-> 0,
              presented |-> [l \in 0 .. Lines - 1 |-> 0], frame_start |-> 0, frames |-> 0]
    /\ tape = [playing |-> FALSE, next_edge |-> 0, level |-> TRUE, pos |-> 1, done |-> FALSE]
    /\ loop = [state |-> "Paused", running |-> FALSE, target |-> 0]
    /\ heard = <<>> /\ sound = <<>> /\ painted = ula.presented
    /\ commands = 0 /\ writes = <<>> /\ cue = [at |-> 0, from |-> 1] /\ late = FALSE /\ lost_at = -1

-----------------------------------------------------------------------------
(* The ULA. *)
LevelsOf(value) == [speaker |-> value.speaker, mic |-> value.mic]

LineOf(tick) == IF tick \div LineTime > Lines THEN Lines ELSE tick \div LineTime

(* The lines up to this one, and not including it, have the border in force. *)
FillTo(u, line) ==
    [u EXCEPT !.lines = [l \in DOMAIN @ |-> IF u.filled <= l /\ l < line THEN u.border ELSE @[l]],
              !.filled = IF line > @ THEN line ELSE @]

WritePort(u, at, value) ==
    LET tick == at - u.frame_start
        heardOf == [u EXCEPT !.log = Record(@, tick, LevelsOf(value))]
    IN  IF value.colour = u.border THEN heardOf
        ELSE [FillTo(heardOf, LineOf(tick)) EXCEPT !.border = value.colour]

NextInterrupt(u) == u.frame_start + FrameTime

(* A subtraction that wraps: an instruction which ends on the interrupt is  *)
(* too early for it.                                                        *)
InterruptPending(u, now) ==
    now > u.frame_start /\ now - u.frame_start - 1 < InterruptLength

EndFrameDrifting(u, now) ==
    LET filled == FillTo(u, Lines)
    IN  [filled EXCEPT
           !.keyboard = IF u.pending = {} THEN @ ELSE CHOOSE m \in u.pending : TRUE,
           !.pending = {},
           !.presented = filled.lines, !.filled = 0,
           !.log = Roll(@, FrameTime), !.frame_start = now, !.frames = @ + 1]

(* The new frame starts where it was due to, not where the clock has got to. *)
EndFrame(u, now) ==
    LET filled == FillTo(u, Lines)
    IN  [filled EXCEPT
           !.keyboard = IF u.pending = {} THEN @ ELSE CHOOSE m \in u.pending : TRUE,
           !.pending = {},
           !.presented = filled.lines, !.filled = 0,
           !.log = Roll(@, FrameTime), !.frame_start = @ + FrameTime, !.frames = @ + 1]

(* The matrix waits for the next frame. *)
SetKeys(u, matrix) == [u EXCEPT !.pending = {matrix}]

-----------------------------------------------------------------------------
(* The tape deck.  A stop block and the end of the tape both stop it; after *)
(* the end it will not start again until it is wound back.                  *)
StopDeck(d) == [d EXCEPT !.playing = FALSE, !.level = TRUE]

(* Added to the edge that was due, not to the clock. *)
NextPulse(d, now) ==
    IF d.pos > Len(Image) THEN [StopDeck(d) EXCEPT !.done = TRUE]
    ELSE IF Image[d.pos].ticks = 0 THEN [StopDeck(d) EXCEPT !.pos = @ + 1]
    ELSE [d EXCEPT !.pos = @ + 1, !.level = Image[d.pos].level, !.next_edge = @ + Image[d.pos].ticks]

EdgeDue(d, now) == d.playing /\ d.next_edge <= now

AdvanceTo(d, now) ==
    FoldLeft(LAMBDA e, i : IF EdgeDue(e, now) THEN NextPulse(e, now) ELSE e,
             d, [i \in 1 .. Len(Image) + 1 |-> i])

Play(d, now) == IF d.done THEN d ELSE [d EXCEPT !.playing = TRUE, !.next_edge = now]
Rewind(d) == [d EXCEPT !.pos = 1, !.done = FALSE]

DriveEar(u, d) == [u EXCEPT !.ear = IF d.playing THEN {d.level} ELSE {}]

-----------------------------------------------------------------------------
(* The processor, as far as the interrupt: taken in place of an instruction *)
(* and not straight after an EI.                                            *)
Accepts == cpu.iff1 /\ ~cpu.ei_pending /\ InterruptPending(ula, t)

FrameDue == t >= NextInterrupt(ula)

CpuStep(i) ==
    /\ t < MaxT
    /\ i.op = "out" => Len(writes) < MaxWrites
    /\ late' = (late \/ FrameDue)
    /\ IF Accepts
         THEN /\ t' = t + AckTime
              /\ cpu' = [cpu EXCEPT !.iff1 = FALSE]
              /\ UNCHANGED <<ula, writes, lost_at>>
         ELSE /\ t' = t + i.len
              /\ cpu' = [iff1 |-> IF i.op = "ei" THEN TRUE ELSE IF i.op = "di" THEN FALSE ELSE cpu.iff1,
                         ei_pending |-> i.op = "ei" /\ ~cpu.ei_pending]
              /\ IF i.op = "out"
                   THEN /\ ula' = WritePort(ula, t + i.at, i.value)
                        /\ writes' = Append(writes, [at |-> t + i.at, value |-> i.value])
                        /\ lost_at' = IF ula'.log.dropped > ula.log.dropped THEN t + i.at ELSE lost_at
                   ELSE UNCHANGED <<ula, writes, lost_at>>
    /\ UNCHANGED <<tape, heard, sound, painted, cue>>

-----------------------------------------------------------------------------
(* What the wrappers take from the log before the frame ends. *)
LevelAt(log, tick) ==
    LET before == {i \in DOMAIN log.edges : log.edges[i].tick <= tick}
    IN  IF before = {} THEN log.start ELSE log.edges[Max(before)].levels

(* The beeper: the whole frame, one level a T-state. *)
RenderInto(u) == sound \o [k \in 1 .. FrameTime |-> LevelAt(u.log, k - 1)]

(* When MIC moved, from the level it had and what was written to it.        *)
MoveTo(acc, state) ==
    IF state.mic = acc.mic THEN acc ELSE [mic |-> state.mic, at |-> Append(acc.at, state.at)]

Moves(mic, states) == FoldLeft(MoveTo, [mic |-> mic, at |-> <<>>], states).at

MicStates(u, edges) ==
    [i \in DOMAIN edges |-> [at |-> u.frame_start + edges[i].tick, mic |-> edges[i].levels.mic]]

MicEdges(u, edges) == Moves(u.log.start.mic, MicStates(u, edges))

DrainAll(u) == heard \o MicEdges(u, u.log.edges)

(* The recorder: the MIC edges inside the frame; the rest will come again. *)
Drain(u) == heard \o MicEdges(u, SubSeq(u.log.edges, 1, Inside(u.log, FrameTime)))

PaintFirst(before, after) == before.presented

(* The painter: after the frame has ended. *)
Paint(before, after) == after.presented

(* Presenting, Saving and AudioMachine around the Spectrum.  The innermost  *)
(* advances the tape and then ends the frame.                               *)
ServiceEvent ==
    LET line == IF EdgeDue(tape, t) THEN DriveEar(ula, tape') ELSE ula
    IN  /\ tape' = AdvanceTo(tape, t)
        /\ ula' = IF FrameDue THEN EndFrame(line, t) ELSE line
        /\ heard' = IF FrameDue THEN Drain(ula) ELSE heard
        /\ sound' = IF FrameDue THEN RenderInto(ula) ELSE sound
        /\ painted' = IF FrameDue THEN Paint(ula, ula') ELSE painted

(* The next event is the earlier of the frame's end and the next pulse, and *)
(* the deadline the earlier of that and the slice's end.                    *)
EventDue == FrameDue \/ EdgeDue(tape, t)

BeforeDeadline == ~EventDue /\ t < loop.target

-----------------------------------------------------------------------------
(* The slice loop. *)
Command ==
    /\ ~loop.running /\ commands < MaxCommands
    /\ commands' = commands + 1

Resume ==
    /\ Command
    /\ loop' = [loop EXCEPT !.state = "Running"]
    /\ UNCHANGED <<t, cpu, ula, tape, heard, sound, painted, writes, cue, late, lost_at>>

(* One instruction, and no event serviced. *)
Step(i) ==
    /\ Command
    /\ CpuStep(i)
    /\ loop' = [loop EXCEPT !.state = "Paused"]

Keys(matrix) ==
    /\ Command
    /\ ula' = SetKeys(ula, matrix)
    /\ UNCHANGED <<t, cpu, tape, loop, heard, sound, painted, writes, cue, late, lost_at>>

Button(d) ==
    /\ Command
    /\ tape' = d
    /\ ula' = DriveEar(ula, d)
    /\ UNCHANGED <<t, cpu, loop, heard, sound, painted, writes, late, lost_at>>

PressPlay == Button(Play(tape, t)) /\ cue' = IF tape.done THEN cue ELSE [at |-> t, from |-> tape.pos]
PressStop == Button(StopDeck(tape)) /\ UNCHANGED cue
PressRewind == Button(Rewind(tape)) /\ cue' = [at |-> tape.next_edge, from |-> 1]

(* A slice, to the next control tick. *)
BeginSlice ==
    /\ ~loop.running /\ loop.state = "Running" /\ t < MaxT
    /\ loop' = [loop EXCEPT !.running = TRUE, !.target = t + Interval]
    /\ UNCHANGED <<t, cpu, ula, tape, heard, sound, painted, commands, writes, cue, late, lost_at>>

(* An instruction of run_until, which a breakpoint may end.  An event which *)
(* came due in it is then left for later.                                   *)
RunInstruction(i, stops) ==
    /\ loop.running /\ BeforeDeadline
    /\ CpuStep(i)
    /\ loop' = IF stops THEN [loop EXCEPT !.running = FALSE, !.state = "Paused"] ELSE loop
    /\ UNCHANGED commands

(* The end of run_until: service what is due, and go round again unless the *)
(* slice is over.                                                           *)
RunEnds ==
    /\ loop.running /\ ~BeforeDeadline
    /\ IF EventDue THEN ServiceEvent ELSE UNCHANGED <<ula, tape, heard, sound, painted>>
    /\ loop' = [loop EXCEPT !.running = t < loop.target]
    /\ UNCHANGED <<t, cpu, commands, writes, cue, late, lost_at>>

Next ==
    \/ Resume \/ PressPlay \/ PressStop \/ PressRewind
    \/ \E matrix \in Matrices : Keys(matrix)
    \/ \E i \in Instructions : Step(i)
    \/ BeginSlice \/ RunEnds
    \/ \E i \in Instructions, stops \in BOOLEAN : RunInstruction(i, stops)

Spec == Init /\ [][Next]_vars

-----------------------------------------------------------------------------
TypeOK ==
    /\ t \in Nat /\ cpu \in [iff1 : BOOLEAN, ei_pending : BOOLEAN]
    /\ IsLog(ula.log)
    /\ ula.keyboard \in Matrices \cup {0} /\ ula.pending \subseteq Matrices
    /\ ula.ear \subseteq BOOLEAN /\ ula.border \in Colours
    /\ {ula.lines, ula.presented, painted} \subseteq [0 .. Lines - 1 -> Colours]
    /\ ula.filled \in 0 .. Lines /\ ula.frame_start = FrameTime * ula.frames /\ ula.frame_start <= t
    /\ tape \in [playing : BOOLEAN, next_edge : Nat, level : BOOLEAN, pos : 1 .. Len(Image) + 1, done : BOOLEAN]
    /\ loop \in [state : {"Paused", "Running"}, running : BOOLEAN, target : Nat]
    /\ Len(sound) = ula.frame_start /\ Len(writes) <= MaxWrites /\ commands <= MaxCommands

(* What the port was doing at a T-state, from every write to it. *)
Before(history, at) == {i \in DOMAIN history : history[i].at < at}
TrueLevel(history, at) ==
    LET before == Before(history, at)
    IN  IF before = {} THEN Quiet ELSE LevelsOf(history[Max(before)].value)
TrueColour(history, at) ==
    LET before == Before(history, at)
    IN  IF before = {} THEN 0 ELSE history[Max(before)].value.colour

(* While the log had room, the sound made of the frames so far is what the  *)
(* port did, T-state for T-state: whatever was stepped, and however late    *)
(* each frame was ended, no edge is played twice, moved or left out.        *)
SoundIsTrue ==
    ula.log.dropped = 0 => \A k \in DOMAIN sound : sound[k] = TrueLevel(writes, k)

(* While the log had room, the recorder is given every edge of MIC once and *)
(* in order: what it has heard and what it will hear of the log are all of  *)
(* them, an edge which overran its frame among them.                        *)
MicHeardOnce ==
    LET states == [i \in DOMAIN writes |-> [at |-> writes[i].at, mic |-> writes[i].value.mic]]
    IN  ula.log.dropped = 0 => heard \o MicEdges(ula, ula.log.edges) = Moves(FALSE, states)

(* Full or not, the log knows where the speaker is.                         *)
LevelFollowed == ula.log.now = TrueLevel(writes, t + 1)

(* What edges.rs says of a full log: it loses edges but not the level, and  *)
(* a frame after the last that was lost starts where the speaker is.        *)
LevelSurvives == lost_at < ula.frame_start => ula.log.start = TrueLevel(writes, ula.frame_start)

(* A stripe is painted on the line its write was on: each line of the last  *)
(* frame has the colour that was in force when the beam left it.  Stepping  *)
(* past the end of a frame puts what it writes before any of the next.      *)
BorderOnItsLine ==
    ~late /\ ula.frames > 0 =>
      \A l \in 0 .. Lines - 1 :
        painted[l] = TrueColour(writes, ula.frame_start - FrameTime + (l + 1) * LineTime)

(* The tape keeps its own time: the pulse in progress ends where the pulses *)
(* since the deck was started add up to, however late each was serviced,    *)
(* and its level is on the line.                                            *)
EdgesOnSchedule ==
    /\ tape.playing =>
         LET played == SubSeq(Image, cue.from, tape.pos - 1)
         IN  /\ tape.next_edge = cue.at + FoldLeft(LAMBDA sum, pulse : sum + pulse.ticks, 0, played)
             /\ played # <<>> => tape.level = Last(played).level
    /\ ula.ear = IF tape.playing THEN {tape.level} ELSE {}

InterruptByTheClock ==
    Accepts <=> cpu.iff1 /\ ~cpu.ei_pending /\ t % FrameTime \in 1 .. InterruptLength

(* Whenever a slice runs an instruction, the interrupt line is where the    *)
(* clock alone says it is: a late service never moves or hides it.          *)
RunsInterruptByTheClock == [][loop.running /\ t' # t => InterruptByTheClock]_vars

(* What ula.rs says of a machine stepped through a frame boundary: it sees  *)
(* the same interrupt.                                                      *)
StepsInterruptByTheClock == [][~loop.running /\ t' # t => InterruptByTheClock]_vars

(* The matrix the program reads moves only as a frame begins, never during  *)
(* a scan.                                                                  *)
KeysSteady == [][ula'.keyboard # ula.keyboard => ula'.frames = ula.frames + 1]_vars

(* What spectrum.rs says of play on a running tape: the next pulse is due   *)
(* when it was due.                                                         *)
PlayRestartsNothing ==
    [][PressPlay /\ tape.playing /\ t < tape.next_edge => tape'.next_edge = tape.next_edge]_vars
=============================================================================
