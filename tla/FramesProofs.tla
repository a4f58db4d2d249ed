----------------------------- MODULE FramesProofs -----------------------------
(***************************************************************************)
(* For any lengths of line and frame, any instructions, tape and log: the  *)
(* interrupt keeps to the clock, each line of the border is painted as it  *)
(* was written, the tape keeps its own time and, while the log has room,   *)
(* the sound is what the port did and the recorder hears each edge once.   *)
(* What it makes of them: the blocks it keeps lie end to end in its buffer.*)
(***************************************************************************)
EXTENDS Frames, Recorder, Induction, SequenceTheorems, TLAPS

-----------------------------------------------------------------------------
(* Numbers. *)

(* Where a clock past so many whole frames is in its own. *)
LEMMA Remainder ==
    ASSUME NEW f \in Nat \ {0}, NEW n \in Nat, NEW r \in 0 .. f - 1
    PROVE  (f * n + r) % f = r
  OBVIOUS

LEMMA Lasting ==
    ASSUME NEW a \in Nat, NEW b \in Nat, NEW m \in Nat \ {0}, a < b
    PROVE  a * m + m <= b * m
  OBVIOUS

(* The line a tick is on: the lines before it are over, and it is not. *)
LEMMA OnItsLine ==
    ASSUME NEW tick \in Nat
    PROVE  /\ tick \div LineTime \in Nat
           /\ (tick \div LineTime) * LineTime <= tick
           /\ tick < (tick \div LineTime) * LineTime + LineTime
  <1>1. LineTime \in Nat \ {0}
    BY FramesAssumption
  <1> QED BY <1>1


-----------------------------------------------------------------------------
(* What the steps do to the part of the ULA the picture and the sound are   *)
(* made of: most leave it alone, an instruction may write the port, and the *)
(* end of a frame moves it on.                                              *)

UlaShape(u) ==
    u = [keyboard |-> u.keyboard, pending |-> u.pending, ear |-> u.ear, log |-> u.log,
         border |-> u.border, lines |-> u.lines, filled |-> u.filled,
         presented |-> u.presented, frame_start |-> u.frame_start, frames |-> u.frames]

Beam(u) == <<u.log, u.border, u.lines, u.filled, u.presented, u.frame_start, u.frames>>

(* What FillTo makes of the lines and of how many of them are filled.       *)
Striped(lines, filled, border, line) ==
    [l \in DOMAIN lines |-> IF filled <= l /\ l < line THEN border ELSE lines[l]]
Reached(filled, line) == IF line > filled THEN line ELSE filled

Elsewhere ==
    /\ Beam(ula') = Beam(ula) /\ ula'.keyboard = ula.keyboard
    /\ UNCHANGED <<heard, sound, painted, writes>>
    /\ t' >= t
    /\ late => late'

Writes(i) ==
    /\ i.op = "out" /\ t' = t + i.len /\ late' = (late \/ FrameDue)
    /\ ula'.frame_start = ula.frame_start /\ ula'.frames = ula.frames
    /\ ula'.presented = ula.presented /\ ula'.keyboard = ula.keyboard
    /\ LET at == t + i.at
           line == LineOf(at - ula.frame_start)
       IN  /\ ula'.log = Record(ula.log, at - ula.frame_start, LevelsOf(i.value))
           /\ ula'.border = i.value.colour
           /\ IF i.value.colour = ula.border
                THEN UNCHANGED <<ula.lines, ula.filled>>
                ELSE ula'.lines = Striped(ula.lines, ula.filled, ula.border, line)
                     /\ ula'.filled = Reached(ula.filled, line)
           /\ writes' = Append(writes, [at |-> at, value |-> i.value])
    /\ UNCHANGED <<heard, sound, painted>>

Ends ==
    /\ FrameDue /\ UNCHANGED <<t, late, writes>>
    /\ ula'.log = Roll(ula.log, FrameTime) /\ ula'.border = ula.border
    /\ ula'.lines = Striped(ula.lines, ula.filled, ula.border, Lines) /\ ula'.filled = 0 /\ ula'.presented = ula'.lines
    /\ ula'.frame_start = ula.frame_start + FrameTime /\ ula'.frames = ula.frames + 1
    /\ heard' = Drain(ula) /\ sound' = RenderInto(ula) /\ painted' = ula'.presented

LEMMA FilledShape ==
    ASSUME NEW u, UlaShape(u), NEW line
    PROVE  /\ UlaShape(FillTo(u, line))
           /\ FillTo(u, line).log = u.log /\ FillTo(u, line).border = u.border
           /\ FillTo(u, line).presented = u.presented
           /\ FillTo(u, line).frame_start = u.frame_start /\ FillTo(u, line).frames = u.frames
           /\ FillTo(u, line).keyboard = u.keyboard
           /\ FillTo(u, line).pending = u.pending /\ FillTo(u, line).ear = u.ear
           /\ FillTo(u, line).lines = Striped(u.lines, u.filled, u.border, line)
           /\ FillTo(u, line).filled = Reached(u.filled, line)
  <1> DEFINE lines == Striped(u.lines, u.filled, u.border, line)
             filled == Reached(u.filled, line)
  <1>1. FillTo(u, line) = [u EXCEPT !.lines = lines, !.filled = filled]
    BY DEF FillTo, UlaShape, Striped, Reached
  <1> HIDE DEF lines, filled
  <1>2. FillTo(u, line) =
          [keyboard |-> u.keyboard, pending |-> u.pending, ear |-> u.ear, log |-> u.log,
           border |-> u.border, lines |-> lines, filled |-> filled,
           presented |-> u.presented, frame_start |-> u.frame_start, frames |-> u.frames]
    BY <1>1 DEF UlaShape
  <1> QED BY <1>2 DEF UlaShape, lines, filled

LEMMA DrivenShape ==
    ASSUME NEW u, UlaShape(u), NEW d
    PROVE  /\ UlaShape(DriveEar(u, d)) /\ Beam(DriveEar(u, d)) = Beam(u)
           /\ DriveEar(u, d).keyboard = u.keyboard /\ DriveEar(u, d).pending = u.pending
           /\ DriveEar(u, d).ear = IF d.playing THEN {d.level} ELSE {}
  BY DEF DriveEar, UlaShape, Beam

LEMMA SetKeysShape ==
    ASSUME NEW u, UlaShape(u), NEW m
    PROVE  /\ UlaShape(SetKeys(u, m)) /\ Beam(SetKeys(u, m)) = Beam(u)
           /\ SetKeys(u, m).keyboard = u.keyboard /\ SetKeys(u, m).pending = {m}
           /\ SetKeys(u, m).ear = u.ear
  BY DEF SetKeys, UlaShape, Beam

LEMMA EndedShape ==
    ASSUME NEW u, UlaShape(u), NEW now
    PROVE  LET v == EndFrame(u, now)
           IN  /\ UlaShape(v) /\ v.log = Roll(u.log, FrameTime) /\ v.border = u.border
               /\ v.lines = Striped(u.lines, u.filled, u.border, Lines) /\ v.filled = 0 /\ v.presented = v.lines
               /\ v.frame_start = u.frame_start + FrameTime /\ v.frames = u.frames + 1
               /\ v.ear = u.ear /\ v.pending = {} /\ v.keyboard \in {u.keyboard} \cup u.pending
  <1> DEFINE filled == FillTo(u, Lines)
             keyboard == IF u.pending = {} THEN u.keyboard ELSE CHOOSE m \in u.pending : TRUE
  <1>1. UlaShape(filled) /\ filled.log = u.log /\ filled.border = u.border
        /\ filled.ear = u.ear /\ filled.keyboard = u.keyboard
        /\ filled.frame_start = u.frame_start /\ filled.frames = u.frames
        /\ filled.lines = Striped(u.lines, u.filled, u.border, Lines)
    BY FilledShape
  <1>2. EndFrame(u, now) =
          [filled EXCEPT !.keyboard = IF u.pending = {} THEN @ ELSE CHOOSE m \in u.pending : TRUE,
             !.pending = {}, !.presented = filled.lines, !.filled = 0,
             !.log = Roll(@, FrameTime), !.frame_start = @ + FrameTime, !.frames = @ + 1]
    BY DEF EndFrame
  <1>3. keyboard \in {u.keyboard} \cup u.pending
    <2>1. u.pending # {} => (CHOOSE m \in u.pending : TRUE) \in u.pending
      OBVIOUS
    <2> QED BY <2>1
  <1> HIDE DEF filled
  <1>4. EndFrame(u, now) =
          [keyboard |-> keyboard, pending |-> {}, ear |-> filled.ear,
           log |-> Roll(filled.log, FrameTime), border |-> filled.border, lines |-> filled.lines,
           filled |-> 0, presented |-> filled.lines,
           frame_start |-> filled.frame_start + FrameTime, frames |-> filled.frames + 1]
    BY <1>1, <1>2 DEF UlaShape
  <1> HIDE DEF keyboard
  <1> QED BY <1>1, <1>4, <1>3 DEF UlaShape

LEMMA WrittenShape ==
    ASSUME NEW u, UlaShape(u), NEW at, NEW value
    PROVE  LET v == WritePort(u, at, value)
               line == LineOf(at - u.frame_start)
           IN  /\ UlaShape(v) /\ v.keyboard = u.keyboard /\ v.pending = u.pending /\ v.ear = u.ear
               /\ v.frame_start = u.frame_start /\ v.frames = u.frames /\ v.presented = u.presented
               /\ v.log = Record(u.log, at - u.frame_start, LevelsOf(value))
               /\ v.border = value.colour
               /\ IF value.colour = u.border
                    THEN v.lines = u.lines /\ v.filled = u.filled
                    ELSE v.lines = Striped(u.lines, u.filled, u.border, line) /\ v.filled = Reached(u.filled, line)
  <1> DEFINE log == Record(u.log, at - u.frame_start, LevelsOf(value))
             heardOf == [u EXCEPT !.log = Record(@, at - u.frame_start, LevelsOf(value))]
             line == LineOf(at - u.frame_start)
             v == WritePort(u, at, value)
  <1>1. heardOf = [u EXCEPT !.log = log]
    BY DEF UlaShape
  <1>2. v = IF value.colour = u.border THEN heardOf
            ELSE [FillTo(heardOf, line) EXCEPT !.border = value.colour]
    BY DEF WritePort
  <1> HIDE DEF log, line, v
  <1>3. /\ UlaShape(heardOf) /\ heardOf.log = log /\ heardOf.keyboard = u.keyboard
        /\ heardOf.pending = u.pending /\ heardOf.ear = u.ear
        /\ heardOf.frame_start = u.frame_start /\ heardOf.frames = u.frames
        /\ heardOf.presented = u.presented /\ heardOf.border = u.border
        /\ heardOf.lines = u.lines /\ heardOf.filled = u.filled
    BY <1>1 DEF UlaShape
  <1> HIDE DEF heardOf
  <1>4. CASE value.colour = u.border
    BY <1>2, <1>3, <1>4 DEF v, log
  <1>5. CASE value.colour # u.border
    <2> DEFINE f == FillTo(heardOf, line)
    <2>1. /\ UlaShape(f) /\ f.log = log /\ f.keyboard = u.keyboard
          /\ f.pending = u.pending /\ f.ear = u.ear
          /\ f.frame_start = u.frame_start /\ f.frames = u.frames /\ f.presented = u.presented
          /\ f.lines = Striped(u.lines, u.filled, u.border, line)
          /\ f.filled = Reached(u.filled, line)
      BY <1>3, FilledShape
    <2>2. v = [f EXCEPT !.border = value.colour]
      BY <1>2, <1>5
    <2> HIDE DEF f
    <2>3. /\ UlaShape(v) /\ v.log = log /\ v.keyboard = u.keyboard
          /\ v.pending = u.pending /\ v.ear = u.ear
          /\ v.frame_start = u.frame_start /\ v.frames = u.frames /\ v.presented = u.presented
          /\ v.lines = Striped(u.lines, u.filled, u.border, line) /\ v.filled = Reached(u.filled, line)
          /\ v.border = value.colour
      BY <2>1, <2>2 DEF UlaShape
    <2> QED BY <1>5, <2>3 DEF v, log, line
  <1> QED BY <1>4, <1>5


(* The clock never falls behind the frame it counts. *)
Clock ==
    /\ UlaShape(ula) /\ t \in Nat /\ ula.frames \in Nat
    /\ ula.frame_start = FrameTime * ula.frames /\ ula.frame_start <= t

LEMMA Durations ==
    /\ LineTime \in Nat \ {0} /\ Lines \in Nat \ {0} /\ FrameTime \in Nat \ {0}
    /\ InterruptLength \in Nat \ {0} /\ AckTime \in Nat \ {0}
    /\ \A i \in Instructions : i.len \in Nat \ {0} /\ i.len < LineTime
    /\ \A i \in Instructions : i.op = "out" => i.at \in Nat /\ i.at <= i.len
  BY FramesAssumption DEF FrameTime

LEMMA CpuKinds ==
    ASSUME Clock, NEW i \in Instructions, CpuStep(i)
    PROVE  UlaShape(ula') /\ t' \in Nat /\ (Elsewhere \/ Writes(i))
  <1>1. CASE Accepts \/ i.op # "out"
    <2>1. ula' = ula /\ writes' = writes
      BY <1>1 DEF CpuStep
    <2>2. t' = t + AckTime \/ t' = t + i.len
      BY <1>1 DEF CpuStep
    <2>3. t' \in Nat /\ t' >= t
      BY <2>2, Durations DEF Clock
    <2> QED BY <2>1, <2>3 DEF CpuStep, Clock, Elsewhere
  <1>2. CASE ~Accepts /\ i.op = "out"
    <2>1. /\ ula' = WritePort(ula, t + i.at, i.value) /\ t' = t + i.len
          /\ writes' = Append(writes, [at |-> t + i.at, value |-> i.value])
          /\ late' = (late \/ FrameDue) /\ UNCHANGED <<heard, sound, painted>>
      BY <1>2 DEF CpuStep
    <2>2. t' \in Nat
      BY <2>1, Durations DEF Clock
    <2>3. UlaShape(ula') /\ Writes(i)
      BY <1>2, <2>1, WrittenShape DEF Clock, Writes
    <2> QED BY <2>2, <2>3
  <1> QED BY <1>1, <1>2

LEMMA ServiceKinds ==
    ASSUME Clock, ServiceEvent, UNCHANGED <<t, late, writes>>
    PROVE  UlaShape(ula') /\ t' \in Nat /\ (Elsewhere \/ Ends)
  <1> DEFINE line == IF EdgeDue(tape, t) THEN DriveEar(ula, tape') ELSE ula
  <1>1. UlaShape(line) /\ Beam(line) = Beam(ula) /\ line.keyboard = ula.keyboard
    BY DrivenShape DEF Clock
  <1>2. ula' = IF FrameDue THEN EndFrame(line, t) ELSE line
    BY DEF ServiceEvent
  <1>3. /\ heard' = IF FrameDue THEN Drain(ula) ELSE heard
        /\ sound' = IF FrameDue THEN RenderInto(ula) ELSE sound
        /\ painted' = IF FrameDue THEN Paint(ula, ula') ELSE painted
    BY DEF ServiceEvent
  <1> HIDE DEF line
  <1>4. CASE FrameDue
    <2> DEFINE v == EndFrame(line, t)
    <2>1. /\ UlaShape(v) /\ v.log = Roll(line.log, FrameTime) /\ v.border = line.border
          /\ v.lines = Striped(line.lines, line.filled, line.border, Lines)
          /\ v.filled = 0 /\ v.presented = v.lines
          /\ v.frame_start = line.frame_start + FrameTime /\ v.frames = line.frames + 1
      BY <1>1, EndedShape
    <2> HIDE DEF v
    <2>2. ula' = v
      BY <1>2, <1>4 DEF v
    <2>3. /\ line.log = ula.log /\ line.border = ula.border /\ line.lines = ula.lines
          /\ line.filled = ula.filled /\ line.frame_start = ula.frame_start
          /\ line.frames = ula.frames
      BY <1>1 DEF Beam
    <2>4. Ends
      BY <1>3, <1>4, <2>1, <2>2, <2>3 DEF Ends, Paint
    <2> QED BY <2>1, <2>2, <2>4 DEF Clock
  <1>5. CASE ~FrameDue
    BY <1>1, <1>2, <1>3, <1>5 DEF Elsewhere, Clock
  <1> QED BY <1>4, <1>5

LEMMA Kinds ==
    ASSUME Clock, [Next]_vars
    PROVE  /\ UlaShape(ula') /\ t' \in Nat
           /\ Elsewhere \/ Ends \/ \E i \in Instructions : Writes(i)
  <1> USE DEF Clock
  <1>1. CASE Resume
    BY <1>1 DEF Resume, Elsewhere
  <1>2. ASSUME NEW matrix \in Matrices, Keys(matrix) PROVE UlaShape(ula') /\ t' \in Nat /\ Elsewhere
    BY <1>2, SetKeysShape DEF Keys, Elsewhere
  <1>3. ASSUME NEW d, Button(d) PROVE UlaShape(ula') /\ t' \in Nat /\ Elsewhere
    <2>1. ula' = DriveEar(ula, d) /\ UNCHANGED <<t, heard, sound, painted, writes, late>>
      BY <1>3 DEF Button
    <2>2. UlaShape(ula') /\ Beam(ula') = Beam(ula) /\ ula'.keyboard = ula.keyboard
      BY <2>1, DrivenShape
    <2> QED BY <2>1, <2>2 DEF Elsewhere
  <1>4. CASE PressPlay \/ PressStop \/ PressRewind
    BY <1>3, <1>4 DEF PressPlay, PressStop, PressRewind
  <1>5. ASSUME NEW i \in Instructions, Step(i) \/ \E stops \in BOOLEAN : RunInstruction(i, stops)
        PROVE  UlaShape(ula') /\ t' \in Nat /\ (Elsewhere \/ Writes(i))
    <2>1. CpuStep(i)
      BY <1>5 DEF Step, RunInstruction
    <2> QED BY <2>1, CpuKinds
  <1>6. CASE BeginSlice
    BY <1>6 DEF BeginSlice, Elsewhere
  <1>7. CASE RunEnds
    <2>1. CASE EventDue
      BY <1>7, <2>1, ServiceKinds DEF RunEnds
    <2>2. CASE ~EventDue
      BY <1>7, <2>2 DEF RunEnds, Elsewhere
    <2> QED BY <2>1, <2>2
  <1>8. CASE UNCHANGED vars
    BY <1>8 DEF vars, Elsewhere
  <1> QED BY <1>1, <1>2, <1>4, <1>5, <1>6, <1>7, <1>8 DEF Next

LEMMA ClockInit == Init => Clock
  <1> SUFFICES ASSUME Init PROVE Clock
    OBVIOUS
  <1>1. UlaShape(ula)
    BY DEF Init, UlaShape
  <1>2. ula.frames = 0 /\ ula.frame_start = 0 /\ t = 0
    BY DEF Init
  <1> QED BY <1>1, <1>2, Durations DEF Clock

LEMMA ClockSteps ==
    ASSUME Clock, [Next]_vars
    PROVE  Clock'
  <1>1. UlaShape(ula') /\ t' \in Nat
    BY Kinds
  <1>2. CASE Elsewhere \/ \E i \in Instructions : Writes(i)
    <2>1. ula'.frames = ula.frames /\ ula'.frame_start = ula.frame_start
      BY <1>2 DEF Elsewhere, Writes, Beam
    <2>2. t' >= t
      <3>1. CASE Elsewhere
        BY <3>1 DEF Elsewhere
      <3>2. ASSUME NEW i \in Instructions, Writes(i) PROVE t' >= t
        BY <3>2, Durations DEF Writes, Clock
      <3> QED BY <1>2, <3>1, <3>2
    <2> QED BY <1>1, <2>1, <2>2, Durations DEF Clock
  <1>3. CASE Ends
    <2>1. ula'.frames = ula.frames + 1 /\ ula'.frame_start = ula.frame_start + FrameTime /\ t' = t
      BY <1>3 DEF Ends
    <2>2. t >= ula.frame_start + FrameTime
      BY <1>3 DEF Ends, FrameDue, NextInterrupt
    <2>3. FrameTime * ula.frames + FrameTime = FrameTime * (ula.frames + 1)
      BY Durations DEF Clock
    <2> QED BY <1>1, <2>1, <2>2, <2>3, Durations DEF Clock
  <1> QED BY Kinds, <1>2, <1>3

LEMMA ClockAlways == Spec => []Clock
  BY ClockInit, ClockSteps, PTL DEF Spec

(* Whenever a slice runs an instruction, the interrupt is there for it      *)
(* exactly in the first T-states of each frame counted by the clock: the    *)
(* loop never runs on with a frame's end to service, however late it was.   *)
THEOREM InterruptKeepsTime == Spec => RunsInterruptByTheClock
  <1>1. ASSUME Clock, Next, loop.running /\ t' # t PROVE InterruptByTheClock
    <2>1. \E i \in Instructions, stops \in BOOLEAN : RunInstruction(i, stops)
      BY <1>1 DEF Next, Resume, PressPlay, PressStop, PressRewind, Button, Keys, Step, Command,
                  BeginSlice, RunEnds
    <2>2. ~(t >= NextInterrupt(ula))
      BY <2>1 DEF RunInstruction, BeforeDeadline, EventDue, FrameDue
    <2> DEFINE r == t - ula.frame_start
    <2>3. r \in 0 .. FrameTime - 1 /\ t = FrameTime * ula.frames + r
      BY <1>1, <2>2, Durations DEF Clock, NextInterrupt
    <2>4. t % FrameTime = r
      <3>1. FrameTime \in Nat \ {0} /\ ula.frames \in Nat
        BY <1>1, Durations DEF Clock
      <3> HIDE DEF r
      <3>2. (FrameTime * ula.frames + r) % FrameTime = r
        BY <2>3, <3>1, Remainder
      <3> QED BY <2>3, <3>2
    <2>5. InterruptPending(ula, t) <=> r \in 1 .. InterruptLength
      BY <1>1, <2>3, Durations DEF InterruptPending, Clock
    <2> QED BY <2>4, <2>5 DEF InterruptByTheClock, Accepts
  <1>2. ASSUME Clock, [Next]_vars PROVE [loop.running /\ t' # t => InterruptByTheClock]_vars
    <2>1. CASE Next
      BY <1>1, <1>2, <2>1
    <2> QED BY <1>2, <2>1
  <1> QED BY <1>2, ClockAlways, PTL DEF Spec, RunsInterruptByTheClock


(* The matrix the program reads moves only as a frame begins, never while   *)
(* the ROM scans the half-rows.                                             *)
THEOREM KeysLatched == Spec => KeysSteady
  <1>1. ASSUME Clock, [Next]_vars
        PROVE  ula'.keyboard # ula.keyboard => ula'.frames = ula.frames + 1
    BY <1>1, Kinds DEF Elsewhere, Ends, Writes
  <1> QED BY <1>1, ClockAlways, PTL DEF Spec, KeysSteady

-----------------------------------------------------------------------------
(* The writes so far, and what they say of a moment none of them is left    *)
(* out of, or which they come after.                                        *)

Values == {i.value : i \in {i \in Instructions : i.op = "out"}}

Written == /\ writes \in Seq([at : Nat, value : Values])
           /\ \A n \in DOMAIN writes : writes[n].at <= t

Recent(history) == IF history = <<>> THEN Quiet ELSE LevelsOf(history[Len(history)].value)
RecentColour(history) == IF history = <<>> THEN 0 ELSE history[Len(history)].value.colour

LEMMA WrittenSoFar ==
    ASSUME Written
    PROVE  /\ Len(writes) \in Nat /\ DOMAIN writes = 1 .. Len(writes)
           /\ writes = <<>> <=> Len(writes) = 0
           /\ \A k \in 1 .. Len(writes) : writes[k].at \in Nat /\ writes[k].at <= t
  <1>1. Len(writes) \in Nat /\ DOMAIN writes = 1 .. Len(writes)
    BY DEF Written
  <1>2. ASSUME NEW k \in 1 .. Len(writes) PROVE writes[k].at \in Nat /\ writes[k].at <= t
    <2>1. writes[k] \in [at : Nat, value : Values]
      BY ElementOfSeq DEF Written
    <2>2. writes[k].at <= t
      BY <1>1 DEF Written
    <2> QED BY <2>1, <2>2
  <1> QED BY <1>1, <1>2, EmptySeq DEF Written

LEMMA WrittenInit == Init => Written
  BY DEF Init, Written

LEMMA WriteAt ==
    ASSUME Clock, NEW i \in Instructions, Writes(i)
    PROVE  /\ t + i.at \in Nat /\ t <= t + i.at /\ t + i.at <= t'
           /\ t + i.at - ula.frame_start \in Nat
           /\ i.value \in Values /\ t' = t + i.len
  <1>1. i.at \in Nat /\ i.len \in Nat /\ i.at <= i.len /\ t' = t + i.len /\ i.value \in Values
    BY Durations DEF Writes, Values
  <1>2. t \in Nat /\ ula.frame_start \in Nat /\ ula.frame_start <= t
    BY Durations DEF Clock
  <1> QED BY ONLY <1>1, <1>2

LEMMA Appended ==
    ASSUME Clock, Written, NEW i \in Instructions, Writes(i)
    PROVE  LET n == Len(writes)
           IN  /\ n \in Nat /\ DOMAIN writes = 1 .. n
               /\ writes' \in Seq([at : Nat, value : Values])
               /\ Len(writes') = n + 1 /\ DOMAIN writes' = 1 .. n + 1
               /\ \A k \in 1 .. n : writes'[k] = writes[k]
               /\ writes'[n + 1] = [at |-> t + i.at, value |-> i.value]
  <1>1. [at |-> t + i.at, value |-> i.value] \in [at : Nat, value : Values]
    BY WriteAt
  <1>2. writes' = Append(writes, [at |-> t + i.at, value |-> i.value])
    BY DEF Writes
  <1> QED BY <1>1, <1>2, AppendProperties DEF Written

LEMMA WrittenSteps ==
    ASSUME Clock, Written, [Next]_vars
    PROVE  Written'
  <1>1. CASE Elsewhere \/ Ends
    <2>1. writes' = writes /\ t' \in Nat /\ t \in Nat /\ t <= t'
      BY <1>1, Kinds DEF Elsewhere, Ends, Clock
    <2>2. \A k \in 1 .. Len(writes) : writes[k].at <= t'
      BY <2>1, WrittenSoFar
    <2> QED BY <2>1, <2>2, WrittenSoFar DEF Written
  <1>2. ASSUME NEW i \in Instructions, Writes(i) PROVE Written'
    <2> DEFINE n == Len(writes)
               at == t + i.at
    <2>1. /\ n \in Nat /\ DOMAIN writes' = 1 .. n + 1
          /\ writes' \in Seq([at : Nat, value : Values])
          /\ \A k \in 1 .. n : writes'[k] = writes[k]
          /\ writes'[n + 1] = [at |-> at, value |-> i.value]
      BY Appended, <1>2
    <2>2. t \in Nat /\ t' \in Nat /\ at \in Nat /\ t <= t' /\ at <= t'
      <3>1. t \in Nat /\ t' \in Nat /\ at \in Nat /\ t <= at /\ at <= t'
        BY WriteAt, <1>2, Kinds DEF Clock
      <3> HIDE DEF at
      <3> QED BY <3>1
    <2>3. \A k \in 1 .. n : writes[k].at \in Nat /\ writes[k].at <= t
      BY WrittenSoFar
    <2> HIDE DEF n, at
    <2>4. ASSUME NEW k \in 1 .. n + 1 PROVE writes'[k].at <= t'
      <3>1. CASE k \in 1 .. n
        BY <2>1, <2>2, <2>3, <3>1
      <3>2. CASE k = n + 1
        BY <2>1, <2>2, <3>2
      <3> QED BY <2>1, <3>1, <3>2
    <2> QED BY <2>1, <2>4 DEF Written
  <1> QED BY <1>1, <1>2, Kinds

LEMMA WrittenAlways == Spec => []Written
  BY ClockAlways, WrittenInit, WrittenSteps, PTL DEF Spec

(* A moment every write came before has the last of them.                   *)
LEMMA AfterAll ==
    ASSUME Written, NEW at, \A n \in DOMAIN writes : writes[n].at < at
    PROVE  TrueLevel(writes, at) = Recent(writes) /\ TrueColour(writes, at) = RecentColour(writes)
  <1> DEFINE n == Len(writes)
  <1>1. n \in Nat /\ DOMAIN writes = 1 .. n /\ (writes = <<>> <=> n = 0)
    BY EmptySeq DEF Written
  <1>2. Before(writes, at) = 1 .. n
    BY <1>1 DEF Before
  <1>3. CASE n = 0
    BY <1>1, <1>2, <1>3 DEF TrueLevel, TrueColour, Recent, RecentColour
  <1>4. CASE n # 0
    <2>1. n \in Before(writes, at) /\ \A i \in Before(writes, at) : i <= n
      BY <1>1, <1>2, <1>4
    <2>2. Max(Before(writes, at)) = n
      BY ONLY <1>1, <1>2, <2>1, GreatestIs
    <2> QED BY <1>1, <2>1, <2>2, <1>4 DEF TrueLevel, TrueColour, Recent, RecentColour
  <1> QED BY <1>3, <1>4

(* A write changes nothing of what was true before it.                      *)
LEMMA BeforeIt ==
    ASSUME Clock, Written, NEW i \in Instructions, Writes(i), NEW at \in Int, at <= t + i.at
    PROVE  TrueLevel(writes', at) = TrueLevel(writes, at) /\ TrueColour(writes', at) = TrueColour(writes, at)
  <1> DEFINE n == Len(writes)
  <1>0. /\ n \in Nat /\ DOMAIN writes = 1 .. n /\ DOMAIN writes' = 1 .. n + 1
        /\ \A k \in 1 .. n : writes'[k] = writes[k]
        /\ writes'[n + 1] = [at |-> t + i.at, value |-> i.value]
    BY Appended
  <1>1. /\ n \in Nat /\ DOMAIN writes = 1 .. n /\ DOMAIN writes' = 1 .. n + 1
        /\ \A k \in 1 .. n : writes'[k] = writes[k]
        /\ writes'[n + 1].at = t + i.at
    BY <1>0
  <1>2. t + i.at \in Nat
    BY WriteAt
  <1> HIDE DEF n
  <1>3. ~(writes'[n + 1].at < at)
    BY <1>1, <1>2
  <1>4. 1 .. n + 1 = (1 .. n) \cup {n + 1}
    BY <1>1
  <1>5. Before(writes', at) = Before(writes, at) /\ Before(writes, at) \in SUBSET (1 .. n)
    BY <1>1, <1>3, <1>4 DEF Before
  <1>6. CASE Before(writes, at) = {}
    BY <1>5, <1>6 DEF TrueLevel, TrueColour
  <1>7. CASE Before(writes, at) # {}
    <2>1. Max(Before(writes, at)) \in 1 .. n
      BY ONLY <1>1, <1>5, <1>7, Greatest
    <2> QED BY <1>1, <1>5, <1>7, <2>1 DEF TrueLevel, TrueColour
  <1> QED BY <1>6, <1>7

(* And is what is true after it.                                            *)
LEMMA AfterIt ==
    ASSUME Clock, Written, NEW i \in Instructions, Writes(i), NEW at \in Int, t + i.at < at
    PROVE  /\ TrueLevel(writes', at) = LevelsOf(i.value) /\ TrueColour(writes', at) = i.value.colour
           /\ Recent(writes') = LevelsOf(i.value) /\ RecentColour(writes') = i.value.colour
  <1> DEFINE n == Len(writes)
  <1>1. n \in Nat /\ DOMAIN writes = 1 .. n /\ DOMAIN writes' = 1 .. n + 1 /\ Len(writes') = n + 1
        /\ (\A k \in 1 .. n : writes'[k] = writes[k])
        /\ writes'[n + 1] = [at |-> t + i.at, value |-> i.value]
    BY Appended
  <1>2. t + i.at \in Nat
    BY WriteAt
  <1> HIDE DEF n
  <1>3. n + 1 \in Before(writes', at) /\ Before(writes', at) \in SUBSET (1 .. n + 1)
    BY <1>1, <1>2 DEF Before
  <1>4. \A k \in Before(writes', at) : k <= n + 1
    BY <1>1, <1>3
  <1> DEFINE S == Before(writes', at)
  <1>5. Max(S) = n + 1
    <2>1. n + 1 \in Nat /\ S \in SUBSET (1 .. n + 1) /\ n + 1 \in S /\ \A k \in S : k <= n + 1
      BY <1>1, <1>3, <1>4
    <2> HIDE DEF S
    <2> QED BY ONLY <2>1, GreatestIs
  <1>6. writes' # <<>>
    BY <1>1
  <1> QED BY <1>1, <1>3, <1>5, <1>6 DEF TrueLevel, TrueColour, Recent, RecentColour


-----------------------------------------------------------------------------
(* The border.  The lines behind the beam have the colour that was in force *)
(* when it left them, the ones ahead will have the one in force now, and no *)
(* write is so late that it would be on a line of the next frame but one.   *)

Leaves(from, l) == from + (l + 1) * LineTime

Stripes ==
    /\ ula.filled \in 0 .. Lines /\ DOMAIN ula.lines = 0 .. Lines - 1
    /\ ula.border = RecentColour(writes)
    /\ ula.frame_start + ula.filled * LineTime <= t
    /\ ~late =>
         /\ \A n \in DOMAIN writes : writes[n].at < ula.frame_start + FrameTime + LineTime
         /\ \A l \in 0 .. Lines - 1 :
              TrueColour(writes, Leaves(ula.frame_start, l)) =
                IF l < ula.filled THEN ula.lines[l] ELSE ula.border
         /\ ula.frames > 0 =>
              \A l \in 0 .. Lines - 1 :
                painted[l] = TrueColour(writes, Leaves(ula.frame_start - FrameTime, l))

LEMMA LineOfTick ==
    ASSUME NEW tick \in Nat
    PROVE  /\ LineOf(tick) \in 0 .. Lines /\ LineOf(tick) * LineTime <= tick
           /\ \A l \in 0 .. Lines - 1 :
                /\ l < LineOf(tick) => (l + 1) * LineTime <= tick
                /\ l >= LineOf(tick) => tick < (l + 1) * LineTime
  <1> DEFINE q == tick \div LineTime
             m == LineOf(tick)
  <1>1. q \in Nat /\ q * LineTime <= tick /\ tick < q * LineTime + LineTime
    BY OnItsLine
  <1>2. Lines \in Nat \ {0} /\ LineTime \in Nat \ {0}
    BY Durations
  <1>3. m = IF q > Lines THEN Lines ELSE q
    BY DEF LineOf
  <1>4. \A a, b \in Nat : a < b => a * LineTime + LineTime <= b * LineTime
    BY <1>2, Lasting
  <1> HIDE DEF q, m
  <1>5. m \in 0 .. Lines /\ m <= q
    BY <1>1, <1>2, <1>3
  <1>6. m * LineTime \in Nat /\ m * LineTime <= q * LineTime /\ q * LineTime \in Nat
    <2>1. m * LineTime \in Nat /\ q * LineTime \in Nat
      BY <1>1, <1>2, <1>5
    <2>2. CASE m = q
      BY <2>1, <2>2
    <2>3. CASE m < q
      <3>1. m * LineTime + LineTime <= q * LineTime
        BY <1>1, <1>4, <1>5, <2>3
      <3> QED BY <1>2, <2>1, <3>1
    <2> QED BY <1>1, <1>5, <2>1, <2>2, <2>3
  <1>7. ASSUME NEW l \in 0 .. Lines - 1, l < m PROVE (l + 1) * LineTime <= tick
    <2>1. l * LineTime + LineTime <= m * LineTime
      BY <1>2, <1>4, <1>5, <1>7
    <2>2. (l + 1) * LineTime = l * LineTime + LineTime /\ l * LineTime \in Nat
      BY <1>2
    <2> QED BY <1>1, <1>2, <1>6, <2>1, <2>2
  <1>8. ASSUME NEW l \in 0 .. Lines - 1, l >= m PROVE tick < (l + 1) * LineTime
    <2>1. m = q
      BY <1>1, <1>2, <1>3, <1>8
    <2>2. q < l + 1 /\ l + 1 \in Nat
      BY <1>1, <1>2, <1>8, <2>1
    <2>3. q * LineTime + LineTime <= (l + 1) * LineTime
      BY <1>1, <1>4, <2>2
    <2>4. (l + 1) * LineTime \in Nat
      BY <1>2, <2>2
    <2> QED BY <1>1, <1>2, <1>6, <2>3, <2>4
  <1>9. m * LineTime <= tick
    BY <1>1, <1>6
  <1> QED BY <1>5, <1>7, <1>8, <1>9 DEF m

LEMMA Leaving ==
    ASSUME NEW began \in Int, NEW l \in 0 .. Lines - 1
    PROVE  /\ Leaves(began, l) \in Int /\ began + LineTime <= Leaves(began, l)
           /\ Leaves(began, l) <= began + FrameTime
           /\ \A f \in 0 .. Lines : l < f => Leaves(began, l) <= began + f * LineTime
           /\ Leaves(began, l) = began + (l + 1) * LineTime
           /\ (l + 1) * LineTime \in Nat
  <1>1. Lines \in Nat \ {0} /\ LineTime \in Nat \ {0}
    BY Durations
  <1>2. \A a, b \in Nat : a < b => a * LineTime + LineTime <= b * LineTime
    BY <1>1, Lasting
  <1> DEFINE p == l * LineTime
  <1>3. p \in Nat /\ (l + 1) * LineTime = p + LineTime
    BY <1>1
  <1>4. Leaves(began, l) = began + p + LineTime
    BY <1>1, <1>3 DEF Leaves
  <1> HIDE DEF p
  <1>5. ASSUME NEW f \in 0 .. Lines, l < f PROVE Leaves(began, l) <= began + f * LineTime
    <2>1. p + LineTime <= f * LineTime
      BY <1>1, <1>2, <1>5 DEF p
    <2>2. f * LineTime \in Nat
      BY <1>1
    <2> QED BY <1>1, <1>3, <1>4, <2>1, <2>2
  <1>6. FrameTime = Lines * LineTime
    BY <1>1 DEF FrameTime
  <1>7. Leaves(began, l) <= began + FrameTime
    BY <1>1, <1>5, <1>6
  <1> QED BY <1>1, <1>3, <1>4, <1>5, <1>7 DEF Leaves


LEMMA StripesInit == Init => Stripes
  <1> SUFFICES ASSUME Init PROVE Stripes
    OBVIOUS
  <1>1. /\ writes = <<>> /\ ula.border = 0 /\ ula.filled = 0 /\ ula.frame_start = 0
        /\ ula.frames = 0 /\ ula.lines = [l \in 0 .. Lines - 1 |-> 0] /\ t = 0
    BY DEF Init
  <1>2. \A at : TrueColour(writes, at) = 0
    BY <1>1 DEF TrueColour, Before
  <1>3. RecentColour(writes) = 0 /\ DOMAIN writes = {}
    BY <1>1 DEF RecentColour
  <1>4. 0 * LineTime = 0
    BY Durations
  <1> QED BY <1>1, <1>2, <1>3, <1>4, Durations DEF Stripes

LEMMA StripesElsewhere ==
    ASSUME Clock, Stripes, Elsewhere, t' \in Nat
    PROVE  Stripes'
  <1>1. /\ ula'.border = ula.border /\ ula'.lines = ula.lines /\ ula'.filled = ula.filled
        /\ ula'.frame_start = ula.frame_start /\ ula'.frames = ula.frames
        /\ writes' = writes /\ painted' = painted
        /\ ~late' => ~late
    BY DEF Elsewhere, Beam
  <1>2. ula.frame_start + ula.filled * LineTime <= t'
    <2> DEFINE s == ula.frame_start + ula.filled * LineTime
    <2>1. s \in Int /\ s <= t /\ t \in Nat /\ t <= t'
      BY Durations DEF Stripes, Clock, Elsewhere
    <2> HIDE DEF s
    <2>2. s <= t'
      BY <2>1
    <2> QED BY <2>2 DEF s
  <1> QED BY <1>1, <1>2 DEF Stripes

LEMMA StripesWritten ==
    ASSUME Clock, Written, Stripes, NEW i \in Instructions, Writes(i), t' \in Nat
    PROVE  Stripes'
  <1> DEFINE began == ula.frame_start
             at == t + i.at
             line == LineOf(at - began)
             n == Len(writes)
  <1>1. /\ began \in Nat /\ t \in Nat /\ began <= t /\ at \in Nat /\ t <= at /\ at <= t'
        /\ at - began \in Nat
    BY WriteAt, Durations DEF Clock
  <1>2. /\ ula'.frame_start = began /\ ula'.frames = ula.frames /\ painted' = painted
        /\ late' = (late \/ FrameDue) /\ ula'.border = i.value.colour
    BY DEF Writes
  <1>3. /\ line \in 0 .. Lines /\ line * LineTime <= at - began
        /\ \A l \in 0 .. Lines - 1 : /\ l < line => (l + 1) * LineTime <= at - began
                                     /\ l >= line => at - began < (l + 1) * LineTime
    BY <1>1, LineOfTick
  <1>4. \A m \in Int : m <= at => TrueColour(writes', m) = TrueColour(writes, m)
    BY BeforeIt
  <1>5. \A m \in Int : at < m => TrueColour(writes', m) = i.value.colour
    BY AfterIt
  <1>6. ula'.border = RecentColour(writes')
    <2>1. at + 1 \in Int /\ at < at + 1
      BY <1>1
    <2> QED BY <1>2, <2>1, AfterIt
  <1>7. /\ ula.filled \in 0 .. Lines /\ DOMAIN ula.lines = 0 .. Lines - 1
        /\ began + ula.filled * LineTime <= t
    BY DEF Stripes
  <1>8. IF i.value.colour = ula.border
          THEN ula'.lines = ula.lines /\ ula'.filled = ula.filled
          ELSE /\ ula'.lines = Striped(ula.lines, ula.filled, ula.border, line)
               /\ ula'.filled = Reached(ula.filled, line)
    BY DEF Writes
  <1>9. /\ n \in Nat /\ DOMAIN writes = 1 .. n /\ DOMAIN writes' = 1 .. n + 1
        /\ \A k \in 1 .. n : writes'[k] = writes[k]
        /\ writes'[n + 1] = [at |-> at, value |-> i.value]
    BY Appended
  <1>10. ~FrameDue => at < began + FrameTime + LineTime
    <2>1. i.len < LineTime /\ i.len \in Nat /\ at <= t + i.len
      BY Durations, WriteAt
    <2>2. FrameDue <=> t >= began + FrameTime
      BY DEF FrameDue, NextInterrupt
    <2> HIDE DEF at, began
    <2> QED BY <1>1, <2>1, <2>2, Durations
  <1>11. \A l \in 0 .. Lines - 1 :
           /\ Leaves(began, l) \in Int /\ Leaves(began, l) = began + (l + 1) * LineTime
           /\ (l + 1) * LineTime \in Nat
           /\ l < ula.filled => Leaves(began, l) <= began + ula.filled * LineTime
    <2> SUFFICES ASSUME NEW l \in 0 .. Lines - 1
                 PROVE  /\ Leaves(began, l) \in Int /\ Leaves(began, l) = began + (l + 1) * LineTime
                        /\ (l + 1) * LineTime \in Nat
                        /\ l < ula.filled => Leaves(began, l) <= began + ula.filled * LineTime
      OBVIOUS
    <2>1. began \in Int
      BY <1>1
    <2> HIDE DEF began
    <2> QED BY <1>7, <2>1, Leaving
  <1>12. \A l \in 0 .. Lines - 1 :
           Leaves(began - FrameTime, l) \in Int /\ Leaves(began - FrameTime, l) <= began
    <2>1. began - FrameTime \in Int /\ (began - FrameTime) + FrameTime = began
      BY <1>1, Durations
    <2> QED BY <2>1, Leaving
  <1>13. Lines \in Nat \ {0} /\ LineTime \in Nat \ {0} /\ FrameTime \in Nat \ {0}
    BY Durations
  <1> HIDE DEF began, at, line, n
  <1>14. /\ DOMAIN ula'.lines = 0 .. Lines - 1 /\ ula'.filled \in 0 .. Lines
         /\ began + ula'.filled * LineTime <= t'
    <2>1. ula.filled * LineTime \in Nat /\ line * LineTime \in Nat
      BY <1>3, <1>7, <1>13
    <2>2. ula'.filled = ula.filled \/ ula'.filled = line
      BY <1>8 DEF Reached
    <2>3. DOMAIN ula'.lines = 0 .. Lines - 1
      BY <1>7, <1>8 DEF Striped
    <2>4. began + ula.filled * LineTime <= t' /\ began + line * LineTime <= t'
      BY <1>1, <1>3, <1>7, <2>1
    <2> QED BY <1>3, <1>7, <2>2, <2>3, <2>4
  <1>15. ASSUME ~late', NEW k \in DOMAIN writes'
         PROVE  writes'[k].at < began + FrameTime + LineTime
    <2>1. CASE k \in 1 .. n
      BY <1>2, <1>9, <1>15, <2>1 DEF Stripes, began
    <2>2. CASE k = n + 1
      <3>1. ~FrameDue
        BY <1>2, <1>15
      <3>2. writes'[k].at = at
        BY <1>9, <2>2
      <3> QED BY <1>10, <3>1, <3>2
    <2> QED BY <1>9, <2>1, <2>2
  <1>16. ASSUME ~late', NEW l \in 0 .. Lines - 1
         PROVE  TrueColour(writes', Leaves(began, l)) =
                  IF l < ula'.filled THEN ula'.lines[l] ELSE ula'.border
    <2> DEFINE m == Leaves(began, l)
    <2>1. TrueColour(writes, m) = IF l < ula.filled THEN ula.lines[l] ELSE ula.border
      BY <1>2, <1>16 DEF Stripes, began
    <2>2. m \in Int /\ (l < ula.filled => m <= at)
      <3>1. ula.filled * LineTime \in Nat
        BY <1>7, <1>13
      <3> QED BY <1>1, <1>7, <1>11, <3>1
    <2>3. (l < line => m <= at) /\ (l >= line => at < m)
      BY <1>1, <1>3, <1>11
    <2> HIDE DEF m
    <2>4. l \in Int /\ line \in Int /\ ula.filled \in Int
      BY <1>3, <1>7
    <2>5. CASE i.value.colour = ula.border
      <3>1. ula'.lines = ula.lines /\ ula'.filled = ula.filled /\ ula'.border = ula.border
        BY <1>2, <1>8, <2>5
      <3>2. CASE m <= at
        BY <1>4, <2>1, <2>2, <3>1, <3>2 DEF m
      <3>3. CASE at < m
        <4>1. TrueColour(writes', m) = ula.border
          BY <1>5, <2>2, <2>5, <3>3
        <4>2. ~(l < ula.filled)
          BY <1>1, <2>2, <3>3
        <4> QED BY <3>1, <4>1, <4>2 DEF m
      <3> QED BY <1>1, <2>2, <3>2, <3>3
    <2>6. CASE i.value.colour # ula.border
      <3>1. /\ ula'.lines[l] = IF ula.filled <= l /\ l < line THEN ula.border ELSE ula.lines[l]
            /\ ula'.filled = IF line > ula.filled THEN line ELSE ula.filled
        BY <1>7, <1>8, <2>6 DEF Striped, Reached
      <3>2. CASE l < ula'.filled
        <4>1. l < ula.filled \/ l < line
          BY <2>4, <3>1, <3>2
        <4>2. TrueColour(writes', m) = TrueColour(writes, m)
          BY <1>4, <2>2, <2>3, <4>1
        <4>3. ula'.lines[l] = IF l < ula.filled THEN ula.lines[l] ELSE ula.border
          BY <2>4, <3>1, <4>1
        <4> QED BY <2>1, <3>2, <4>2, <4>3 DEF m
      <3>3. CASE ~(l < ula'.filled)
        <4>1. l >= line
          BY <2>4, <3>1, <3>3
        <4>2. TrueColour(writes', m) = i.value.colour
          BY <1>5, <2>2, <2>3, <4>1
        <4> QED BY <1>2, <3>3, <4>2 DEF m
      <3> QED BY <3>2, <3>3
    <2> QED BY <2>5, <2>6
  <1>17. ASSUME ~late', ula'.frames > 0, NEW l \in 0 .. Lines - 1
         PROVE  painted'[l] = TrueColour(writes', Leaves(began - FrameTime, l))
    <2>1. painted[l] = TrueColour(writes, Leaves(began - FrameTime, l))
      BY <1>2, <1>17 DEF Stripes, began
    <2>2. Leaves(began - FrameTime, l) \in Int /\ Leaves(began - FrameTime, l) <= at
      BY <1>1, <1>12
    <2> QED BY <1>2, <1>4, <2>1, <2>2
  <1> QED BY <1>2, <1>6, <1>14, <1>15, <1>16, <1>17 DEF Stripes

LEMMA StripesEnded ==
    ASSUME Clock, Written, Stripes, Ends
    PROVE  Stripes'
  <1> DEFINE began == ula.frame_start
  <1>1. /\ ula'.frame_start = began + FrameTime /\ ula'.filled = 0 /\ ula'.border = ula.border
        /\ ula'.lines = Striped(ula.lines, ula.filled, ula.border, Lines)
        /\ painted' = ula'.lines /\ t' = t /\ writes' = writes /\ late' = late
    BY DEF Ends
  <1>2. began \in Nat /\ t \in Nat /\ began + FrameTime <= t
    BY Durations DEF Clock, Ends, FrameDue, NextInterrupt
  <1>3. ula.filled \in 0 .. Lines /\ DOMAIN ula.lines = 0 .. Lines - 1
        /\ ula.border = RecentColour(writes)
    BY DEF Stripes
  <1>4. Lines \in Nat \ {0} /\ LineTime \in Nat \ {0} /\ FrameTime \in Nat \ {0}
    BY Durations
  <1> HIDE DEF began
  <1>5. DOMAIN ula'.lines = 0 .. Lines - 1 /\ ula'.filled \in 0 .. Lines
        /\ ula'.frame_start + ula'.filled * LineTime <= t'
    <2>1. began + FrameTime + 0 * LineTime <= t
      BY <1>2, <1>4
    <2> QED BY <1>1, <1>3, <1>4, <2>1 DEF Striped
  <1>6. ASSUME ~late', NEW k \in DOMAIN writes'
        PROVE  /\ writes[k].at < began + FrameTime + LineTime
               /\ writes'[k].at < ula'.frame_start + FrameTime + LineTime
    <2>1. writes[k].at < began + FrameTime + LineTime
      BY <1>1, <1>6 DEF Stripes, began
    <2>2. writes[k].at \in Nat
      BY <1>1, <1>6, WrittenSoFar
    <2>3. writes[k].at < (began + FrameTime) + FrameTime + LineTime
      BY <1>2, <1>4, <2>1, <2>2
    <2> QED BY <1>1, <2>1, <2>3
  <1>7. ASSUME ~late', NEW l \in 0 .. Lines - 1
        PROVE  TrueColour(writes', Leaves(ula'.frame_start, l)) = ula'.border
    <2> DEFINE m == Leaves(began + FrameTime, l)
    <2>1. m \in Int /\ began + FrameTime + LineTime <= m
      BY <1>2, <1>4, Leaving
    <2> HIDE DEF m
    <2>2. \A k \in DOMAIN writes : writes[k].at < m
      BY <1>1, <1>2, <1>4, <1>6, <1>7, <2>1, WrittenSoFar
    <2>3. TrueColour(writes, m) = RecentColour(writes)
      BY <2>2, AfterAll
    <2> QED BY <1>1, <1>3, <2>3 DEF m
  <1>8. ASSUME ~late', NEW l \in 0 .. Lines - 1
        PROVE  painted'[l] = TrueColour(writes', Leaves(ula'.frame_start - FrameTime, l))
    <2>1. TrueColour(writes, Leaves(began, l)) = IF l < ula.filled THEN ula.lines[l] ELSE ula.border
      BY <1>1, <1>8 DEF Stripes, began
    <2>2. painted'[l] = IF ula.filled <= l /\ l < Lines THEN ula.border ELSE ula.lines[l]
      BY <1>1, <1>3 DEF Striped
    <2>3. painted'[l] = IF l < ula.filled THEN ula.lines[l] ELSE ula.border
      BY <1>3, <1>4, <2>2
    <2>4. (began + FrameTime) - FrameTime = began
      BY <1>2, <1>4
    <2> QED BY <1>1, <2>1, <2>3, <2>4
  <1>9. \A l \in 0 .. Lines - 1 : ~(l < ula'.filled)
    BY <1>1, <1>4
  <1> QED BY <1>1, <1>3, <1>5, <1>6, <1>7, <1>8, <1>9 DEF Stripes

LEMMA StripesAlways == Spec => []Stripes
  <1>1. ASSUME Clock, Written, Stripes, [Next]_vars PROVE Stripes'
    BY <1>1, Kinds, StripesElsewhere, StripesWritten, StripesEnded
  <1> QED BY <1>1, StripesInit, ClockAlways, WrittenAlways, PTL DEF Spec

(* For any program: each line of the frame painted last has the colour that *)
(* was in force when the beam left it, as long as no instruction was run    *)
(* with a frame's end waiting to be serviced.                               *)
THEOREM BorderAlwaysOnItsLine == Spec => []BorderOnItsLine
  <1>1. ASSUME Clock, Stripes PROVE BorderOnItsLine
    <2>1. ASSUME ~late, ula.frames > 0, NEW l \in 0 .. Lines - 1
          PROVE  painted[l] = TrueColour(writes, ula.frame_start - FrameTime + (l + 1) * LineTime)
      BY <1>1, <2>1 DEF Stripes, Leaves
    <2> QED BY <2>1 DEF BorderOnItsLine
  <1> QED BY <1>1, ClockAlways, StripesAlways, PTL


-----------------------------------------------------------------------------
(* The log: an edge written down is in force from its tick on, and rolling  *)
(* on to the next frame moves the levels by a frame and changes none.       *)

EdgeType == [tick : Int, levels : Levels]

LogType(log) ==
    log \in [edges : Seq(EdgeType), start : Levels, now : Levels, dropped : Nat]

LastNow(log) ==
    log.now = IF log.edges = <<>> THEN log.start ELSE log.edges[Len(log.edges)].levels

LEMMA EdgesOf ==
    ASSUME NEW log, LogType(log)
    PROVE  /\ log.edges \in Seq(EdgeType) /\ log.start \in Levels /\ log.now \in Levels
           /\ log.dropped \in Nat /\ Len(log.edges) \in Nat
           /\ DOMAIN log.edges = 1 .. Len(log.edges)
           /\ log.edges = <<>> <=> Len(log.edges) = 0
           /\ \A n \in 1 .. Len(log.edges) :
                log.edges[n] \in EdgeType /\ log.edges[n].tick \in Int /\ log.edges[n].levels \in Levels
  <1>1. /\ log.edges \in Seq(EdgeType) /\ log.start \in Levels /\ log.now \in Levels
        /\ log.dropped \in Nat
    BY DEF LogType
  <1>2. /\ Len(log.edges) \in Nat /\ DOMAIN log.edges = 1 .. Len(log.edges)
    BY <1>1, LenProperties
  <1>3. log.edges = <<>> <=> Len(log.edges) = 0
    BY <1>1, EmptySeq
  <1>4. ASSUME NEW n \in 1 .. Len(log.edges)
        PROVE  log.edges[n] \in EdgeType /\ log.edges[n].tick \in Int /\ log.edges[n].levels \in Levels
    <2>1. log.edges[n] \in EdgeType
      BY <1>1, ElementOfSeq
    <2> QED BY <2>1 DEF EdgeType
  <1> QED BY <1>1, <1>2, <1>3, <1>4

LEMMA LevelAtType ==
    ASSUME NEW log, LogType(log), NEW tick
    PROVE  LevelAt(log, tick) \in Levels
  <1> DEFINE before == {n \in DOMAIN log.edges : log.edges[n].tick <= tick}
  <1>1. before \in SUBSET (1 .. Len(log.edges)) /\ Len(log.edges) \in Nat
    BY EdgesOf
  <1>2. LevelAt(log, tick) = IF before = {} THEN log.start ELSE log.edges[Max(before)].levels
    BY DEF LevelAt
  <1> HIDE DEF before
  <1>3. CASE before = {}
    BY <1>2, <1>3, EdgesOf
  <1>4. CASE before # {}
    <2>1. Max(before) \in 1 .. Len(log.edges)
      BY <1>1, <1>4, Greatest
    <2> QED BY <1>2, <1>4, <2>1, EdgesOf
  <1> QED BY <1>3, <1>4

LEMMA Recorded ==
    ASSUME NEW log, LogType(log), NEW tick \in Int, NEW levels \in Levels
    PROVE  LET next == Record(log, tick, levels)
           IN  /\ LogType(next) /\ next.start = log.start /\ next.now = levels
               /\ \/ next = log /\ levels = log.now
                  \/ next.dropped = log.dropped + 1 /\ next.edges = log.edges
                  \/ /\ next.dropped = log.dropped
                     /\ next.edges = Append(log.edges, [tick |-> tick, levels |-> levels])
  <1> DEFINE edge == [tick |-> tick, levels |-> levels]
             next == Record(log, tick, levels)
  <1>1. edge \in EdgeType /\ Append(log.edges, edge) \in Seq(EdgeType)
    BY EdgesOf, AppendProperties DEF EdgeType
  <1>2. log.dropped + 1 \in Nat
    BY EdgesOf
  <1>3. CASE levels = log.now
    <2>1. next = log
      BY <1>3 DEF Record
    <2> QED BY <1>3, <2>1
  <1>4. CASE levels # log.now /\ Len(log.edges) = MaxEdges
    <2>1. next = [log EXCEPT !.now = levels, !.dropped = log.dropped + 1]
      BY <1>4 DEF Record, LogType
    <2>2. next = [edges |-> log.edges, start |-> log.start, now |-> levels, dropped |-> log.dropped + 1]
      BY <2>1 DEF LogType
    <2> HIDE DEF next
    <2>3. LogType(next)
      BY <1>2, <2>2, EdgesOf DEF LogType
    <2> QED BY <2>2, <2>3 DEF next
  <1>5. CASE levels # log.now /\ Len(log.edges) # MaxEdges
    <2> DEFINE more == Append(log.edges, edge)
    <2>1. next = [log EXCEPT !.now = levels, !.edges = more]
      BY <1>5 DEF Record, LogType
    <2>2. more \in Seq(EdgeType)
      BY <1>1
    <2> HIDE DEF more
    <2>3. next = [edges |-> more, start |-> log.start, now |-> levels, dropped |-> log.dropped]
      BY <2>1 DEF LogType
    <2> HIDE DEF next
    <2>4. LogType(next)
      BY <2>2, <2>3, EdgesOf DEF LogType
    <2> QED BY <2>3, <2>4 DEF next, more
  <1> QED BY <1>3, <1>4, <1>5

(* With room, the level is as it was up to the tick, and as recorded after. *)
LEMMA RecordedLevels ==
    ASSUME NEW log, LogType(log), LastNow(log), NEW tick \in Int, NEW levels \in Levels,
           \A n \in DOMAIN log.edges : log.edges[n].tick <= tick,
           Record(log, tick, levels).dropped = log.dropped
    PROVE  LET next == Record(log, tick, levels)
           IN  /\ LastNow(next)
               /\ \A n \in DOMAIN next.edges : next.edges[n].tick <= tick
               /\ \A j \in Int : LevelAt(next, j) = IF j < tick THEN LevelAt(log, j) ELSE levels
  <1> DEFINE next == Record(log, tick, levels)
             m == Len(log.edges)
             Upto(l, j) == {n \in DOMAIN l.edges : l.edges[n].tick <= j}
  <1>1. /\ m \in Nat /\ DOMAIN log.edges = 1 .. m
        /\ log.edges = <<>> <=> m = 0
        /\ \A n \in 1 .. m : log.edges[n].tick \in Int
    BY EdgesOf
  <1>2. \A l, j : LevelAt(l, j) = IF Upto(l, j) = {} THEN l.start ELSE l.edges[Max(Upto(l, j))].levels
    BY DEF LevelAt
  <1>3. log.dropped + 1 # log.dropped
    BY EdgesOf
  <1>4. CASE next = log /\ levels = log.now
    <2>1. ASSUME NEW j \in Int, ~(j < tick) PROVE LevelAt(log, j) = levels
      <3>1. ASSUME NEW n \in 1 .. m PROVE log.edges[n].tick <= j
        <4>1. log.edges[n].tick \in Int /\ log.edges[n].tick <= tick
          BY <1>1
        <4> QED BY <2>1, <4>1
      <3>2. Upto(log, j) = 1 .. m
        BY <1>1, <3>1
      <3>3. LevelAt(log, j) = IF 1 .. m = {} THEN log.start ELSE log.edges[Max(1 .. m)].levels
        BY <1>2, <3>2
      <3>4. levels = IF m = 0 THEN log.start ELSE log.edges[m].levels
        BY <1>1, <1>4 DEF LastNow
      <3> HIDE DEF m
      <3>5. CASE m = 0
        BY <3>3, <3>4, <3>5
      <3>6. CASE m # 0
        <4>1. m \in 1 .. m /\ 1 .. m \in SUBSET (1 .. m) /\ \A k \in 1 .. m : k <= m
          BY <1>1, <3>6
        <4>2. Max(1 .. m) = m
          BY ONLY <1>1, <4>1, GreatestIs
        <4> QED BY <3>3, <3>4, <3>6, <4>1, <4>2
      <3> QED BY <3>5, <3>6
    <2> QED BY <1>4, <2>1
  <1>5. CASE /\ next.dropped = log.dropped /\ next.start = log.start /\ next.now = levels
             /\ next.edges = Append(log.edges, [tick |-> tick, levels |-> levels])
    <2>1. [tick |-> tick, levels |-> levels] \in EdgeType
      BY DEF EdgeType
    <2>2. /\ Len(next.edges) = m + 1 /\ DOMAIN next.edges = 1 .. m + 1 /\ next.edges # <<>>
          /\ \A n \in 1 .. m : next.edges[n] = log.edges[n]
          /\ next.edges[m + 1] = [tick |-> tick, levels |-> levels]
      BY <1>5, <2>1, EdgesOf, AppendProperties, LenProperties
    <2>3. LastNow(next)
      BY <1>5, <2>2 DEF LastNow
    <2>4. ASSUME NEW n \in DOMAIN next.edges PROVE next.edges[n].tick <= tick
      <3>1. CASE n \in 1 .. m
        BY <1>1, <2>2, <3>1
      <3>2. CASE n = m + 1
        BY <2>2, <3>2
      <3> QED BY <1>1, <2>2, <3>1, <3>2
    <2> HIDE DEF next, m
    <2>5. 1 .. m + 1 = (1 .. m) \cup {m + 1} /\ m + 1 \in Nat
      BY <1>1
    <2>6. ASSUME NEW j \in Int, j < tick PROVE LevelAt(next, j) = LevelAt(log, j)
      <3> DEFINE before == Upto(log, j)
      <3>1. Upto(next, j) = before
        BY <1>1, <2>2, <2>5, <2>6
      <3>2. before \in SUBSET (1 .. m)
        BY <1>1
      <3>3. CASE before = {}
        BY <1>2, <1>5, <3>1, <3>3
      <3>4. CASE before # {}
        <4> HIDE DEF before
        <4>1. Max(before) \in 1 .. m
          BY ONLY <1>1, <3>2, <3>4, Greatest
        <4> QED BY <1>2, <2>2, <3>1, <3>4, <4>1 DEF before
      <3> QED BY <3>3, <3>4
    <2>7. ASSUME NEW j \in Int, ~(j < tick) PROVE LevelAt(next, j) = levels
      <3> DEFINE before == Upto(next, j)
      <3>1. /\ m + 1 \in before /\ before \in SUBSET (1 .. m + 1)
            /\ \A k \in 1 .. m + 1 : k <= m + 1
        BY <1>1, <2>2, <2>5, <2>7
      <3>2. LevelAt(next, j) = IF before = {} THEN next.start ELSE next.edges[Max(before)].levels
        BY <1>2
      <3> HIDE DEF before
      <3>3. \A k \in before : k <= m + 1
        BY <3>1
      <3>4. Max(before) = m + 1
        BY ONLY <2>5, <3>1, <3>3, GreatestIs
      <3> QED BY <2>2, <3>1, <3>2, <3>4
    <2> QED BY <2>3, <2>4, <2>6, <2>7 DEF next
  <1>6. /\ next.start = log.start /\ next.now = levels
        /\ \/ next = log /\ levels = log.now
           \/ next.dropped = log.dropped + 1
           \/ /\ next.dropped = log.dropped
              /\ next.edges = Append(log.edges, [tick |-> tick, levels |-> levels])
    BY Recorded
  <1> QED BY <1>3, <1>4, <1>5, <1>6


LEMMA InsideIs ==
    ASSUME NEW log, LogType(log), NEW frame \in Int
    PROVE  /\ Inside(log, frame) \in 0 .. Len(log.edges)
           /\ \A n \in 1 .. Inside(log, frame) : log.edges[n].tick < frame
           /\ Inside(log, frame) < Len(log.edges) => log.edges[Inside(log, frame) + 1].tick >= frame
  <1> DEFINE m == Len(log.edges)
             S == {n \in 1 .. m : log.edges[n].tick >= frame}
             past == SelectInSeq(log.edges, LAMBDA e : e.tick >= frame)
  <1>1. m \in Nat /\ \A n \in 1 .. m : log.edges[n].tick \in Int
    BY EdgesOf
  <1>2. past = IF S # {} THEN Min(S) ELSE 0
    BY DEF SelectInSeq
  <1>3. Inside(log, frame) = IF past = 0 THEN m ELSE past - 1
    BY DEF Inside
  <1> HIDE DEF m, past
  <1>4. CASE S = {}
    <2>1. \A n \in 1 .. m : log.edges[n].tick < frame
      BY <1>1, <1>4
    <2> QED BY <1>1, <1>2, <1>3, <1>4, <2>1 DEF m
  <1>5. CASE S # {}
    <2>1. PICK k \in S : \A j \in S : ~(<<j, k>> \in OpToRel(<, Nat))
      <3>1. S \subseteq Nat
        BY <1>1
      <3> HIDE DEF S
      <3> QED BY <1>5, <3>1, WFMin, NatLessThanWellFounded
    <2>2. ASSUME NEW j \in S PROVE k <= j
      <3>1. ~(<<j, k>> \in {ss \in Nat \X Nat : ss[1] < ss[2]})
        BY <2>1 DEF OpToRel
      <3>2. j \in Nat /\ k \in Nat
        BY <1>1
      <3> QED BY <3>1, <3>2
    <2>3. Min(S) \in S /\ \A j \in S : Min(S) <= j
      <3>1. \E x \in S : \A y \in S : x <= y
        BY <2>2
      <3> HIDE DEF S
      <3> QED BY <3>1 DEF Min
    <2>4. Min(S) \in 1 .. m
      BY <2>3
    <2>5. past = Min(S) /\ Inside(log, frame) = past - 1
      BY <1>1, <1>2, <1>3, <1>5, <2>4
    <2>6. ASSUME NEW n \in 1 .. past - 1 PROVE log.edges[n].tick < frame
      <3>1. n \in 1 .. m /\ ~(Min(S) <= n)
        BY <1>1, <2>4, <2>5
      <3>2. n \notin S
        BY <2>3, <3>1
      <3> QED BY <1>1, <3>1, <3>2
    <2>7. Inside(log, frame) + 1 = Min(S) /\ Min(S) \in S
      BY <1>1, <2>3, <2>4, <2>5
    <2>8. log.edges[Min(S)].tick >= frame
      BY <2>7
    <2> HIDE DEF S
    <2> QED BY <1>1, <2>4, <2>5, <2>6, <2>7, <2>8 DEF m
  <1> QED BY <1>4, <1>5

LEMMA Rolled ==
    ASSUME NEW log, LogType(log), NEW frame \in Int
    PROVE  LET next == Roll(log, frame)
               split == Inside(log, frame)
               rest == Len(log.edges) - split
           IN  /\ LogType(next) /\ next.now = log.now /\ next.dropped = log.dropped
               /\ rest \in Nat /\ Len(next.edges) = rest /\ DOMAIN next.edges = 1 .. rest
               /\ next.edges = <<>> <=> rest = 0
               /\ \A n \in 1 .. rest :
                    /\ next.edges[n].tick = log.edges[split + n].tick - frame
                    /\ next.edges[n].levels = log.edges[split + n].levels
               /\ next.start = IF rest = 0 THEN log.now
                               ELSE IF split = 0 THEN log.start ELSE log.edges[split].levels
  <1> DEFINE next == Roll(log, frame)
             split == Inside(log, frame)
             m == Len(log.edges)
             rest == m - split
             over == SubSeq(log.edges, split + 1, m)
             moved == [i \in DOMAIN over |-> [over[i] EXCEPT !.tick = @ - frame]]
             began == IF over = <<>> THEN log.now
                      ELSE IF split = 0 THEN log.start ELSE log.edges[split].levels
  <1>1. m \in Nat /\ split \in 0 .. m
    BY EdgesOf, InsideIs
  <1>2. \A n \in 1 .. m : log.edges[n] \in EdgeType
    BY EdgesOf
  <1>3. next = [log EXCEPT !.start = began, !.edges = moved]
    BY DEF Roll
  <1>4. began \in Levels
    <2>1. log.now \in Levels /\ log.start \in Levels
      BY EdgesOf
    <2>2. split # 0 => log.edges[split].levels \in Levels
      BY <1>1, EdgesOf
    <2> HIDE DEF split, over
    <2> QED BY <2>1, <2>2
  <1> HIDE DEF split, m, began, next
  <1>5. rest \in Nat
    BY <1>1
  <1>6. /\ over \in Seq(EdgeType) /\ Len(over) = rest
        /\ \A i \in 1 .. rest : over[i] = log.edges[split + i]
    <2>1. split + 1 \in Int /\ m \in Int /\ \A i \in (split + 1) .. m : log.edges[i] \in EdgeType
      BY <1>1, <1>2
    <2>2. /\ over \in Seq(EdgeType)
          /\ Len(over) = IF split + 1 <= m THEN m - (split + 1) + 1 ELSE 0
          /\ \A i \in 1 .. m - (split + 1) + 1 : over[i] = log.edges[(split + 1) + i - 1]
      BY <2>1, SubSeqProperties
    <2>3. m - (split + 1) + 1 = rest /\ Len(over) = rest
      BY <1>1, <2>2
    <2>4. \A i \in 1 .. rest : (split + 1) + i - 1 = split + i
      BY <1>1
    <2> QED BY <2>2, <2>3, <2>4
  <1> HIDE DEF rest, over
  <1>7. DOMAIN over = 1 .. rest /\ (over = <<>> <=> rest = 0)
    BY <1>6, LenProperties, EmptySeq
  <1>8. ASSUME NEW i \in 1 .. rest
        PROVE  /\ moved[i] \in EdgeType /\ moved[i].tick = log.edges[split + i].tick - frame
               /\ moved[i].levels = log.edges[split + i].levels
    <2>1. over[i] \in EdgeType /\ over[i] = log.edges[split + i]
      BY <1>6, ElementOfSeq
    <2>2. moved[i] = [over[i] EXCEPT !.tick = over[i].tick - frame]
      BY <1>7, <2>1 DEF EdgeType
    <2>3. moved[i] = [tick |-> over[i].tick - frame, levels |-> over[i].levels]
      BY <2>1, <2>2 DEF EdgeType
    <2>4. over[i].tick - frame \in Int /\ over[i].levels \in Levels
      BY <2>1 DEF EdgeType
    <2> QED BY <2>1, <2>3, <2>4 DEF EdgeType
  <1>9. moved \in Seq(EdgeType) /\ Len(moved) = rest /\ DOMAIN moved = 1 .. rest
    <2>1. DOMAIN moved = 1 .. rest
      BY <1>7
    <2>2. moved \in [1 .. rest -> EdgeType]
      BY <1>7, <1>8
    <2> QED BY <1>5, <2>1, <2>2
  <1> HIDE DEF moved
  <1>10. moved = <<>> <=> rest = 0
    BY <1>9, EmptySeq
  <1>11. next = [edges |-> moved, start |-> began, now |-> log.now, dropped |-> log.dropped]
    BY <1>3 DEF LogType
  <1>12. LogType(next)
    BY <1>4, <1>9, <1>11, EdgesOf DEF LogType
  <1> QED BY <1>5, <1>7, <1>8, <1>9, <1>10, <1>11, <1>12 DEF next, split, rest, m, began

LEMMA RolledLevels ==
    ASSUME NEW log, LogType(log), LastNow(log), NEW frame \in Int
    PROVE  LET next == Roll(log, frame)
           IN  /\ LastNow(next)
               /\ \A j \in Nat : LevelAt(next, j) = LevelAt(log, j + frame)
  <1> DEFINE next == Roll(log, frame)
             split == Inside(log, frame)
             m == Len(log.edges)
             rest == m - split
             Upto(l, j) == {n \in DOMAIN l.edges : l.edges[n].tick <= j}
  <1>1. /\ m \in Nat /\ DOMAIN log.edges = 1 .. m
        /\ log.edges = <<>> <=> m = 0
        /\ \A n \in 1 .. m : log.edges[n].tick \in Int
    BY EdgesOf
  <1>2. split \in 0 .. m /\ \A n \in 1 .. split : log.edges[n].tick < frame
    BY InsideIs
  <1>3. /\ next.now = log.now
        /\ rest \in Nat /\ Len(next.edges) = rest /\ DOMAIN next.edges = 1 .. rest
        /\ next.edges = <<>> <=> rest = 0
        /\ \A n \in 1 .. rest :
             /\ next.edges[n].tick = log.edges[split + n].tick - frame
             /\ next.edges[n].levels = log.edges[split + n].levels
        /\ next.start = IF rest = 0 THEN log.now
                        ELSE IF split = 0 THEN log.start ELSE log.edges[split].levels
    BY Rolled
  <1>4. \A l, j : LevelAt(l, j) = IF Upto(l, j) = {} THEN l.start ELSE l.edges[Max(Upto(l, j))].levels
    BY DEF LevelAt
  <1>5. log.now = IF m = 0 THEN log.start ELSE log.edges[m].levels
    BY <1>1 DEF LastNow
  <1> HIDE DEF next, split, m
  <1>6. LastNow(next)
    <2>1. CASE rest = 0
      BY <1>3, <2>1 DEF LastNow
    <2>2. CASE rest # 0
      <3>1. rest \in 1 .. rest /\ split + rest = m /\ m # 0
        BY <1>1, <1>2, <1>3, <2>2
      <3>2. next.edges[rest].levels = log.edges[m].levels
        BY <1>3, <3>1
      <3> QED BY <1>3, <1>5, <2>2, <3>1, <3>2 DEF LastNow
    <2> QED BY <2>1, <2>2
  <1>7. next.start = IF split = 0 THEN log.start ELSE log.edges[split].levels
    BY <1>1, <1>2, <1>3, <1>5
  <1>8. ASSUME NEW j \in Nat PROVE LevelAt(next, j) = LevelAt(log, j + frame)
    <2> DEFINE A == Upto(log, j + frame)
               B == Upto(next, j)
    <2>1. A \in SUBSET (1 .. m) /\ B \in SUBSET (1 .. rest)
      BY <1>1, <1>3
    <2>2. ASSUME NEW n \in 1 .. split PROVE n \in A
      <3>1. n \in 1 .. m /\ log.edges[n].tick \in Int /\ log.edges[n].tick < frame
        BY <1>1, <1>2
      <3> QED BY <1>1, <3>1
    <2>3. ASSUME NEW n \in 1 .. rest PROVE n \in B <=> split + n \in A
      <3>1. split + n \in 1 .. m
        BY <1>1, <1>2
      <3>2. log.edges[split + n].tick \in Int /\ next.edges[n].tick = log.edges[split + n].tick - frame
        BY <1>1, <1>3, <3>1
      <3> QED BY <1>1, <1>3, <3>1, <3>2
    <2>4. LevelAt(next, j) = IF B = {} THEN next.start ELSE next.edges[Max(B)].levels
      BY <1>4
    <2>5. LevelAt(log, j + frame) = IF A = {} THEN log.start ELSE log.edges[Max(A)].levels
      BY <1>4
    <2> HIDE DEF A, B
    <2>6. CASE B = {}
      <3>1. A = 1 .. split
        <4>1. ASSUME NEW n \in A, ~(n <= split) PROVE FALSE
          <5>1. n - split \in 1 .. rest /\ split + (n - split) = n
            BY <1>1, <1>2, <2>1, <4>1
          <5> QED BY <2>3, <2>6, <5>1
        <4>2. A \subseteq 1 .. split
          BY <1>1, <1>2, <2>1, <4>1
        <4> QED BY <2>2, <4>2
      <3>2. CASE split = 0
        BY <1>7, <2>4, <2>5, <2>6, <3>1, <3>2
      <3>3. CASE split # 0
        <4>a. split \in Nat /\ split \in 1 .. split
          BY <1>1, <1>2, <3>3
        <4>1. split \in Nat /\ split \in A /\ A # {} /\ A \in SUBSET (1 .. split)
              /\ \A k \in A : k <= split
          BY <3>1, <4>a
        <4>2. Max(A) = split
          BY ONLY <4>1, GreatestIs
        <4> QED BY <1>7, <2>4, <2>5, <2>6, <3>3, <4>1, <4>2
      <3> QED BY <3>2, <3>3
    <2>7. CASE B # {}
      <3> DEFINE b == Max(B)
      <3>1. b \in B /\ \A i \in B : i <= b
        BY ONLY <1>3, <2>1, <2>7, Greatest
      <3>2. b \in 1 .. rest
        BY <2>1, <3>1
      <3> HIDE DEF b
      <3>3. split + b \in A
        BY <2>3, <3>1, <3>2
      <3>4. ASSUME NEW n \in A PROVE n <= split + b
        <4>1. n \in 1 .. m
          BY <2>1
        <4>2. CASE n <= split
          BY <1>1, <1>2, <3>2, <4>1, <4>2
        <4>3. CASE ~(n <= split)
          <5>1. n - split \in 1 .. rest /\ split + (n - split) = n
            BY <1>1, <1>2, <4>1, <4>3
          <5>2. n - split \in B
            BY <2>3, <5>1
          <5>3. n - split <= b
            BY <3>1, <5>2
          <5> QED BY <1>1, <1>2, <3>2, <4>1, <5>3
        <4> QED BY <4>2, <4>3
      <3>5. Max(A) = split + b
        BY ONLY <1>1, <2>1, <3>3, <3>4, GreatestIs
      <3>6. next.edges[b].levels = log.edges[split + b].levels
        BY <1>3, <3>2
      <3> QED BY <2>4, <2>5, <2>7, <3>3, <3>5, <3>6 DEF b
    <2> QED BY <2>6, <2>7
  <1> QED BY <1>6, <1>8 DEF next


-----------------------------------------------------------------------------
(* The sound.  The log follows the level, and what it says of each T-state  *)
(* of the frame from here on is what the writes say, so that the frame is   *)
(* rendered as it was played whenever it comes to be.                       *)

Sounds ==
    /\ LogType(ula.log) /\ ula.log.now = Recent(writes)
    /\ \A n \in DOMAIN ula.log.edges : ula.log.edges[n].tick <= t - ula.frame_start
    /\ sound \in Seq(Levels) /\ Len(sound) = ula.frame_start
    /\ ula.log.dropped = 0 =>
         /\ LastNow(ula.log)
         /\ \A j \in Nat : LevelAt(ula.log, j) = TrueLevel(writes, ula.frame_start + j + 1)
         /\ \A k \in 1 .. ula.frame_start : sound[k] = TrueLevel(writes, k)

LEMMA SoundsInit == Init => Sounds
  <1> SUFFICES ASSUME Init PROVE Sounds
    OBVIOUS
  <1>1. /\ ula.log = [edges |-> <<>>, start |-> Quiet, now |-> Quiet, dropped |-> 0]
        /\ ula.frame_start = 0 /\ writes = <<>> /\ sound = <<>> /\ t = 0
    BY DEF Init, EmptyLog
  <1>2. Quiet \in Levels
    BY DEF Quiet, Levels
  <1>3. <<>> \in Seq(EdgeType) /\ <<>> \in Seq(Levels) /\ Len(<<>>) = 0 /\ DOMAIN <<>> = {}
    BY EmptySeq
  <1>4. LogType(ula.log) /\ LastNow(ula.log) /\ ula.log.now = Recent(writes)
    BY <1>1, <1>2, <1>3 DEF LogType, LastNow, Recent
  <1>5. \A j : LevelAt(ula.log, j) = Quiet
    BY <1>1, <1>3 DEF LevelAt
  <1>6. \A at : TrueLevel(writes, at) = Quiet
    BY <1>1, <1>3 DEF TrueLevel, Before
  <1> QED BY <1>1, <1>3, <1>4, <1>5, <1>6 DEF Sounds

LEMMA SoundsElsewhere ==
    ASSUME Clock, Sounds, Elsewhere, t' \in Nat
    PROVE  Sounds'
  <1>1. /\ ula'.log = ula.log /\ ula'.frame_start = ula.frame_start
        /\ writes' = writes /\ sound' = sound /\ t <= t' /\ t \in Nat /\ ula.frame_start \in Nat
    BY Durations DEF Elsewhere, Beam, Clock
  <1>2. ASSUME NEW n \in DOMAIN ula.log.edges
        PROVE  ula.log.edges[n].tick <= t' - ula.frame_start
    <2>1. ula.log.edges[n].tick \in Int /\ ula.log.edges[n].tick <= t - ula.frame_start
      BY EdgesOf DEF Sounds
    <2> DEFINE k == ula.log.edges[n].tick
    <2> HIDE DEF k
    <2>2. k \in Int /\ k <= t - ula.frame_start
      BY <2>1 DEF k
    <2>3. k <= t' - ula.frame_start
      BY <1>1, <2>2
    <2> QED BY <2>3 DEF k
  <1> QED BY <1>1, <1>2 DEF Sounds

LEMMA SoundsWritten ==
    ASSUME Clock, Written, Sounds, NEW i \in Instructions, Writes(i), t' \in Nat
    PROVE  Sounds'
  <1> DEFINE began == ula.frame_start
             at == t + i.at
             tick == at - began
             levels == LevelsOf(i.value)
             next == Record(ula.log, tick, levels)
             later == t'
  <1>1. /\ began \in Nat /\ t \in Nat /\ began <= t /\ at \in Nat /\ t <= at /\ at <= later
        /\ later \in Nat
    BY WriteAt, Durations DEF Clock
  <1>2. ula'.frame_start = began /\ sound' = sound /\ ula'.log = next
    BY DEF Writes
  <1>3. levels \in Levels
    <2>1. i.value.speaker \in BOOLEAN /\ i.value.mic \in BOOLEAN
      BY FramesAssumption DEF Writes
    <2> QED BY <2>1 DEF Levels, LevelsOf
  <1>4. LogType(ula.log) /\ sound \in Seq(Levels) /\ Len(sound) = began
    BY DEF Sounds
  <1>5. /\ \A m \in Int : m <= at => TrueLevel(writes', m) = TrueLevel(writes, m)
        /\ \A m \in Int : at < m => TrueLevel(writes', m) = levels
    BY BeforeIt, AfterIt
  <1>6. Recent(writes') = levels
    <2>1. at + 1 \in Int /\ at < at + 1
      BY <1>1
    <2> QED BY <2>1, AfterIt
  <1>7. \A n \in DOMAIN ula.log.edges : ula.log.edges[n].tick \in Int /\ ula.log.edges[n].tick <= t - began
    BY <1>4, EdgesOf DEF Sounds
  <1> HIDE DEF began, at, levels, later
  <1>8. tick \in Int /\ t - began <= tick /\ tick <= later - began
    BY <1>1
  <1>9. ASSUME NEW n \in DOMAIN ula.log.edges PROVE ula.log.edges[n].tick <= tick
    BY <1>1, <1>7, <1>8
  <1> HIDE DEF tick
  <1>10. /\ LogType(next) /\ next.now = levels
         /\ \/ next = ula.log /\ levels = ula.log.now
            \/ next.dropped = ula.log.dropped + 1 /\ next.edges = ula.log.edges
            \/ /\ next.dropped = ula.log.dropped
               /\ next.edges = Append(ula.log.edges, [tick |-> tick, levels |-> levels])
    BY <1>3, <1>4, <1>8, Recorded
  <1> HIDE DEF next
  <1>11. ula.log.dropped \in Nat /\ next.dropped \in Nat
    BY <1>4, <1>10, EdgesOf
  <1>12. ASSUME NEW n \in DOMAIN next.edges
         PROVE  next.edges[n].tick \in Int /\ next.edges[n].tick <= tick
    <2>1. CASE next = ula.log \/ next.edges = ula.log.edges
      BY <1>7, <1>9, <1>12, <2>1
    <2>2. CASE next.edges = Append(ula.log.edges, [tick |-> tick, levels |-> levels])
      <3>1. [tick |-> tick, levels |-> levels] \in EdgeType
        BY <1>3, <1>8 DEF EdgeType
      <3>2. /\ Len(next.edges) = Len(ula.log.edges) + 1 /\ Len(ula.log.edges) \in Nat
            /\ DOMAIN next.edges = 1 .. Len(ula.log.edges) + 1
            /\ DOMAIN ula.log.edges = 1 .. Len(ula.log.edges)
            /\ \A k \in 1 .. Len(ula.log.edges) : next.edges[k] = ula.log.edges[k]
            /\ next.edges[Len(ula.log.edges) + 1] = [tick |-> tick, levels |-> levels]
        BY <1>4, <2>2, <3>1, EdgesOf, AppendProperties, LenProperties
      <3>3. CASE n = Len(ula.log.edges) + 1
        BY <1>8, <3>2, <3>3
      <3>4. CASE n \in DOMAIN ula.log.edges
        BY <1>7, <1>9, <3>2, <3>4
      <3>5. n = Len(ula.log.edges) + 1 \/ n \in DOMAIN ula.log.edges
        <4> DEFINE m == Len(ula.log.edges)
        <4>1. m \in Nat /\ n \in 1 .. m + 1 /\ DOMAIN ula.log.edges = 1 .. m
          BY <1>12, <3>2
        <4> HIDE DEF m
        <4>2. n = m + 1 \/ n \in 1 .. m
          BY ONLY <4>1
        <4> QED BY <4>1, <4>2 DEF m
      <3> QED BY <3>3, <3>4, <3>5
    <2> QED BY <1>10, <2>1, <2>2
  <1>13. ASSUME NEW n \in DOMAIN next.edges PROVE next.edges[n].tick <= later - began
    <2> DEFINE k == next.edges[n].tick
    <2>1. k \in Int /\ k <= tick
      BY <1>12
    <2> HIDE DEF k
    <2>2. k <= later - began
      BY <1>1, <1>8, <2>1
    <2> QED BY <2>2 DEF k
  <1>14. ASSUME next.dropped = 0
         PROVE  /\ LastNow(next)
                /\ \A j \in Nat : LevelAt(next, j) = TrueLevel(writes', began + j + 1)
                /\ \A k \in 1 .. began : sound[k] = TrueLevel(writes', k)
    <2>1. next.dropped = ula.log.dropped /\ ula.log.dropped = 0
      BY <1>10, <1>11, <1>14
    <2>2. /\ LastNow(ula.log)
          /\ \A j \in Nat : LevelAt(ula.log, j) = TrueLevel(writes, began + j + 1)
          /\ \A k \in 1 .. began : sound[k] = TrueLevel(writes, k)
      BY <2>1 DEF Sounds, began
    <2>3. /\ LastNow(next)
          /\ \A j \in Int : LevelAt(next, j) = IF j < tick THEN LevelAt(ula.log, j) ELSE levels
      BY <1>3, <1>4, <1>8, <1>9, <2>1, <2>2, RecordedLevels DEF next
    <2>4. ASSUME NEW j \in Nat PROVE LevelAt(next, j) = TrueLevel(writes', began + j + 1)
      <3> DEFINE m == began + j + 1
      <3>1. m \in Int /\ (j < tick <=> m <= at) /\ (m <= at \/ at < m)
        BY <1>1 DEF tick
      <3> HIDE DEF m
      <3>2. CASE j < tick
        <4>1. LevelAt(next, j) = TrueLevel(writes, m)
          BY <2>2, <2>3, <3>2 DEF m
        <4>2. TrueLevel(writes', m) = TrueLevel(writes, m)
          BY <1>5, <3>1, <3>2
        <4> QED BY <4>1, <4>2 DEF m
      <3>3. CASE ~(j < tick)
        <4>1. LevelAt(next, j) = levels
          BY <2>3, <3>3
        <4>2. TrueLevel(writes', m) = levels
          BY <1>5, <3>1, <3>3
        <4> QED BY <4>1, <4>2 DEF m
      <3> QED BY <3>2, <3>3
    <2>5. ASSUME NEW k \in 1 .. began PROVE sound[k] = TrueLevel(writes', k)
      <3>1. k \in Int /\ k <= at
        BY <1>1
      <3> QED BY <1>5, <2>2, <3>1
    <2> QED BY <2>3, <2>4, <2>5
  <1> QED BY <1>2, <1>4, <1>6, <1>10, <1>13, <1>14 DEF Sounds, later

LEMMA SoundsEnded ==
    ASSUME Clock, Written, Sounds, Ends
    PROVE  Sounds'
  <1> DEFINE began == ula.frame_start
             next == Roll(ula.log, FrameTime)
             played == [k \in 1 .. FrameTime |-> LevelAt(ula.log, k - 1)]
  <1>1. /\ ula'.frame_start = began + FrameTime /\ ula'.log = next
        /\ sound' = sound \o played /\ t' = t /\ writes' = writes
    BY DEF Ends, RenderInto
  <1>2. began \in Nat /\ t \in Nat /\ FrameTime \in Nat \ {0}
    BY Durations DEF Clock
  <1>3. LogType(ula.log) /\ sound \in Seq(Levels) /\ Len(sound) = began
        /\ ula.log.now = Recent(writes)
    BY DEF Sounds
  <1>4. played \in Seq(Levels) /\ Len(played) = FrameTime
    <2>1. \A k \in 1 .. FrameTime : LevelAt(ula.log, k - 1) \in Levels
      BY <1>3, LevelAtType
    <2> QED BY <1>2, <2>1
  <1>5. \A k \in 1 .. FrameTime : played[k] = LevelAt(ula.log, k - 1)
    OBVIOUS
  <1> HIDE DEF played
  <1>6. /\ sound \o played \in Seq(Levels) /\ Len(sound \o played) = began + FrameTime
        /\ \A k \in 1 .. began + FrameTime :
             (sound \o played)[k] = IF k <= began THEN sound[k] ELSE played[k - began]
    <2>1. sound \in Seq(Levels) /\ Len(sound) = began
      BY <1>3
    <2>2. /\ sound \o played \in Seq(Levels) /\ Len(sound \o played) = Len(sound) + Len(played)
          /\ \A i \in 1 .. Len(sound) + Len(played) :
               (sound \o played)[i] = IF i <= Len(sound) THEN sound[i] ELSE played[i - Len(sound)]
      BY ONLY <1>4, <2>1, ConcatProperties
    <2> QED BY <1>4, <2>1, <2>2
  <1> DEFINE split == Inside(ula.log, FrameTime)
             m == Len(ula.log.edges)
             rest == m - split
  <1>7. /\ LogType(next) /\ next.now = ula.log.now /\ next.dropped = ula.log.dropped
        /\ rest \in Nat /\ DOMAIN next.edges = 1 .. rest
        /\ \A n \in 1 .. rest : next.edges[n].tick = ula.log.edges[split + n].tick - FrameTime
    BY <1>2, <1>3, Rolled
  <1>8. m \in Nat /\ split \in 0 .. m /\ DOMAIN ula.log.edges = 1 .. m
    BY <1>2, <1>3, EdgesOf, InsideIs
  <1>9. \A n \in 1 .. m : ula.log.edges[n].tick \in Int /\ ula.log.edges[n].tick <= t - began
    BY <1>3, <1>8, EdgesOf DEF Sounds
  <1> HIDE DEF split, m, next, began
  <1>10. ASSUME NEW n \in DOMAIN next.edges PROVE next.edges[n].tick <= t - (began + FrameTime)
    <2>1. n \in 1 .. rest /\ split + n \in 1 .. m
      BY <1>7, <1>8
    <2>2. next.edges[n].tick = ula.log.edges[split + n].tick - FrameTime
      BY <1>7, <2>1
    <2> QED BY <1>2, <1>9, <2>1, <2>2
  <1>11. ASSUME next.dropped = 0
         PROVE  /\ LastNow(next)
                /\ \A j \in Nat : LevelAt(next, j) = TrueLevel(writes, (began + FrameTime) + j + 1)
                /\ \A k \in 1 .. began + FrameTime : (sound \o played)[k] = TrueLevel(writes, k)
    <2>1. /\ LastNow(ula.log)
          /\ \A j \in Nat : LevelAt(ula.log, j) = TrueLevel(writes, began + j + 1)
          /\ \A k \in 1 .. began : sound[k] = TrueLevel(writes, k)
      BY <1>7, <1>11 DEF Sounds, began
    <2>2. LastNow(next) /\ \A j \in Nat : LevelAt(next, j) = LevelAt(ula.log, j + FrameTime)
      <3>1. FrameTime \in Int /\ LogType(ula.log) /\ LastNow(ula.log)
        BY <1>2, <1>3, <2>1
      <3> QED BY ONLY <3>1, RolledLevels DEF next
    <2>3. ASSUME NEW j \in Nat PROVE LevelAt(next, j) = TrueLevel(writes, (began + FrameTime) + j + 1)
      <3>1. j + FrameTime \in Nat /\ began + (j + FrameTime) + 1 = (began + FrameTime) + j + 1
        BY <1>2
      <3>2. LevelAt(ula.log, j + FrameTime) = TrueLevel(writes, began + (j + FrameTime) + 1)
        BY <2>1, <3>1
      <3> QED BY <2>2, <3>1, <3>2
    <2>4. ASSUME NEW k \in 1 .. began + FrameTime PROVE (sound \o played)[k] = TrueLevel(writes, k)
      <3>1. CASE k <= began
        <4>1. k \in 1 .. began
          BY <1>2, <3>1
        <4> QED BY <1>6, <2>1, <3>1, <4>1
      <3>2. CASE ~(k <= began)
        <4>1. /\ k - began \in 1 .. FrameTime /\ (k - began) - 1 \in Nat
              /\ began + ((k - began) - 1) + 1 = k
          BY <1>2, <3>2
        <4>2. (sound \o played)[k] = LevelAt(ula.log, (k - began) - 1)
          BY <1>5, <1>6, <3>2, <4>1
        <4>3. LevelAt(ula.log, (k - began) - 1) = TrueLevel(writes, began + ((k - began) - 1) + 1)
          BY <2>1, <4>1
        <4> QED BY <4>1, <4>2, <4>3
      <3> QED BY <3>1, <3>2
    <2> QED BY <2>2, <2>3, <2>4
  <1> QED BY <1>1, <1>3, <1>6, <1>7, <1>10, <1>11 DEF Sounds

LEMMA SoundsAlways == Spec => []Sounds
  <1>1. ASSUME Clock, Written, Sounds, [Next]_vars PROVE Sounds'
    BY <1>1, Kinds, SoundsElsewhere, SoundsWritten, SoundsEnded
  <1> QED BY <1>1, SoundsInit, ClockAlways, WrittenAlways, PTL DEF Spec

(* For any program, any stops and steps and however late each frame is      *)
(* ended: as long as the log has had room, what has been rendered is what   *)
(* the port did, T-state for T-state.                                       *)
THEOREM SoundAlwaysTrue == Spec => []SoundIsTrue
  <1>1. ASSUME Clock, Sounds PROVE SoundIsTrue
    <2>1. DOMAIN sound = 1 .. ula.frame_start
      BY <1>1, LenProperties DEF Sounds
    <2> QED BY <1>1, <2>1 DEF Sounds, SoundIsTrue
  <1> QED BY <1>1, ClockAlways, SoundsAlways, PTL

(* A full log still knows where the speaker is.                             *)
THEOREM LevelAlwaysFollowed == Spec => []LevelFollowed
  <1>1. ASSUME Clock, Written, Sounds PROVE LevelFollowed
    <2>1. \A n \in DOMAIN writes : writes[n].at < t + 1
      BY <1>1, WrittenSoFar DEF Clock
    <2> QED BY <1>1, <2>1, AfterAll DEF Sounds, LevelFollowed
  <1> QED BY <1>1, ClockAlways, WrittenAlways, SoundsAlways, PTL

-----------------------------------------------------------------------------
(* The recorder's share of the edges.  Listening to a sequence of levels of *)
(* MIC one at a time is a fold, so that what has been heard of one sequence *)
(* and then of another is what is heard of the two together.                *)

State == [at : Int, mic : BOOLEAN]
Hearing == [mic : BOOLEAN, at : Seq(Int)]
Hear == [p \in Hearing \X State |-> MoveTo(p[1], p[2])]
From(mic) == [mic |-> mic, at |-> <<>>]
Listen(mic, q) == Folded(Hearing, Hear, From(mic), q)

LEMMA MoveToIs ==
    ASSUME NEW acc \in Hearing, NEW s \in State
    PROVE  /\ MoveTo(acc, s) \in Hearing /\ Hear[<<acc, s>>] = MoveTo(acc, s)
           /\ MoveTo(acc, s).mic = s.mic
           /\ MoveTo(acc, s).at = IF s.mic = acc.mic THEN acc.at ELSE Append(acc.at, s.at)
  <1>1. acc.at \in Seq(Int) /\ s.at \in Int /\ s.mic \in BOOLEAN
    BY DEF Hearing, State
  <1>2. Append(acc.at, s.at) \in Seq(Int)
    BY <1>1, AppendProperties
  <1>3. CASE s.mic = acc.mic
    BY <1>3 DEF MoveTo, Hear
  <1>4. CASE s.mic # acc.mic
    <2>1. MoveTo(acc, s) = [mic |-> s.mic, at |-> Append(acc.at, s.at)]
      BY <1>4 DEF MoveTo
    <2>2. MoveTo(acc, s) \in Hearing
      BY <1>1, <1>2, <2>1 DEF Hearing
    <2>3. Hear[<<acc, s>>] = MoveTo(acc, s)
      BY DEF Hear
    <2>4. MoveTo(acc, s).mic = s.mic /\ MoveTo(acc, s).at = Append(acc.at, s.at)
      BY <2>1
    <2> QED BY <1>4, <2>2, <2>3, <2>4
  <1> QED BY <1>3, <1>4

LEMMA Listens ==
    ASSUME NEW mic \in BOOLEAN, NEW q \in Seq(State)
    PROVE  FoldOver(Hearing, State, Hear, From(mic), q)
  <1>1. From(mic) \in Hearing
    <2>1. << >> \in Seq(Int)
      OBVIOUS
    <2> QED BY <2>1 DEF From, Hearing
  <1>2. Hear \in [Hearing \X State -> Hearing]
    <2>1. ASSUME NEW p \in Hearing \X State PROVE MoveTo(p[1], p[2]) \in Hearing
      BY MoveToIs
    <2> QED BY <2>1 DEF Hear
  <1> QED BY <1>1, <1>2 DEF FoldOver

(* The steps of the fold as the library writes them.                        *)
Follows(f, b, q) ==
    f = [s \in SUBSET (DOMAIN q) |-> IF s = {} THEN b
                                     ELSE MoveTo(f[s \ {Max(s)}], q[Max(s)])]

LEMMA MovesIs ==
    ASSUME NEW mic \in BOOLEAN, NEW q \in Seq(State)
    PROVE  Moves(mic, q) = Listen(mic, q).at
  <1> DEFINE b == From(mic)
             h == CHOOSE f : Follows(f, b, q)
  <1>1. Len(q) \in Nat /\ DOMAIN q = 1 .. Len(q) /\ \A i \in 1 .. Len(q) : q[i] \in State
    BY LenProperties, ElementOfSeq
  <1>2. Moves(mic, q) = h[DOMAIN q].at
    BY DEF Moves, From, FoldLeft, MapThenFoldSet, Follows
  <1>3. FoldOver(Hearing, State, Hear, b, q)
    BY Listens
  <1>4. PICK f : FoldRecursion(f, Hearing, Hear, b, q)
    BY <1>3, FoldExists
  <1> HIDE DEF b
  <1>5. ASSUME NEW s \in SUBSET (1 .. Len(q)), s # {}
        PROVE  Max(s) \in 1 .. Len(q) /\ q[Max(s)] \in State /\ s \ {Max(s)} \in SUBSET (1 .. Len(q))
    <2>1. Max(s) \in s
      BY <1>1, <1>5, Greatest
    <2> QED BY <1>1, <2>1
  <1>6. Follows(f, b, q)
    <2>1. /\ f \in [SUBSET (1 .. Len(q)) -> Hearing] /\ f[{}] = b
          /\ \A s \in SUBSET (1 .. Len(q)) : s # {} => f[s] = Hear[<<f[s \ {Max(s)}], q[Max(s)]>>]
      BY <1>4 DEF FoldRecursion
    <2>2. ASSUME NEW s \in SUBSET (1 .. Len(q))
          PROVE  f[s] = IF s = {} THEN b ELSE MoveTo(f[s \ {Max(s)}], q[Max(s)])
      <3>1. CASE s = {}
        BY <2>1, <3>1
      <3>2. CASE s # {}
        <4>1. f[s \ {Max(s)}] \in Hearing /\ q[Max(s)] \in State
          BY <1>5, <2>1, <3>2
        <4>2. f[s] = Hear[<<f[s \ {Max(s)}], q[Max(s)]>>]
          BY <2>1, <3>2
        <4> QED BY <3>2, <4>1, <4>2, MoveToIs
      <3> QED BY <3>1, <3>2
    <2>3. f = [s \in SUBSET (1 .. Len(q)) |-> f[s]]
      BY <2>1
    <2>4. f = [s \in SUBSET (1 .. Len(q)) |-> IF s = {} THEN b ELSE MoveTo(f[s \ {Max(s)}], q[Max(s)])]
      BY <2>2, <2>3
    <2> QED BY <1>1, <2>4 DEF Follows
  <1>7. Follows(h, b, q)
    BY <1>6
  <1> HIDE DEF h
  <1>8. \A s \in SUBSET (1 .. Len(q)) : h[s] = IF s = {} THEN b ELSE MoveTo(h[s \ {Max(s)}], q[Max(s)])
    BY <1>1, <1>7 DEF Follows
  <1>9. ASSUME NEW s \in SUBSET (1 .. Len(q)), s # {}, h[s \ {Max(s)}] \in Hearing
        PROVE  h[s] = Hear[<<h[s \ {Max(s)}], q[Max(s)]>>]
    <2>1. q[Max(s)] \in State /\ h[s] = MoveTo(h[s \ {Max(s)}], q[Max(s)])
      BY <1>5, <1>8, <1>9
    <2> QED BY <1>9, <2>1, MoveToIs
  <1>10. h[{}] = b
    BY <1>8
  <1>11. Recurs(h, Hearing, Hear, b, q)
    BY <1>9, <1>10 DEF Recurs
  <1>12. h[DOMAIN q] = Folded(Hearing, Hear, b, q)
    BY <1>3, <1>11, FoldSettles
  <1> QED BY <1>2, <1>12 DEF Listen, b

LEMMA ListenEmpty ==
    ASSUME NEW mic \in BOOLEAN
    PROVE  Listen(mic, <<>>) = From(mic)
  <1>1. << >> \in Seq(State)
    OBVIOUS
  <1> QED BY <1>1, Listens, FoldedEmpty DEF Listen

LEMMA ListenOn ==
    ASSUME NEW mic \in BOOLEAN, NEW q \in Seq(State), NEW s \in State
    PROVE  /\ Listen(mic, q) \in Hearing
           /\ Listen(mic, Append(q, s)) = MoveTo(Listen(mic, q), s)
  <1>1. FoldOver(Hearing, State, Hear, From(mic), q)
    BY Listens
  <1>2. /\ Listen(mic, q) \in Hearing
        /\ Listen(mic, Append(q, s)) = Hear[<<Listen(mic, q), s>>]
    BY <1>1, FoldedAppend DEF Listen
  <1> QED BY <1>2, MoveToIs

(* The level it is left with is the last.                                   *)
LEMMA ListenEnds ==
    ASSUME NEW mic \in BOOLEAN, NEW q \in Seq(State)
    PROVE  /\ Listen(mic, q) \in Hearing
           /\ Listen(mic, q).mic = IF q = <<>> THEN mic ELSE q[Len(q)].mic
  <1>1. CASE q = <<>>
    <2>1. << >> \in Seq(Int)
      OBVIOUS
    <2>2. Listen(mic, q) = [mic |-> mic, at |-> <<>>]
      BY <1>1, ListenEmpty DEF From
    <2>3. Listen(mic, q) \in Hearing /\ Listen(mic, q).mic = mic
      BY <2>1, <2>2 DEF Hearing
    <2> QED BY <1>1, <2>3
  <1>2. CASE q # <<>>
    <2>1. PICK p \in Seq(State), s \in State : q = Append(p, s)
      BY <1>2, SequenceEmptyOrAppend
    <2>2. Len(q) = Len(p) + 1 /\ q[Len(p) + 1] = s
      BY <2>1, AppendProperties
    <2>3. Listen(mic, p) \in Hearing /\ Listen(mic, q) = MoveTo(Listen(mic, p), s)
      BY <2>1, ListenOn
    <2>4. MoveTo(Listen(mic, p), s) \in Hearing /\ MoveTo(Listen(mic, p), s).mic = s.mic
      BY <2>3, MoveToIs
    <2>5. Len(p) \in Nat /\ q[Len(q)] = s
      BY <2>2, LenProperties
    <2> QED BY <1>2, <2>3, <2>4, <2>5
  <1> QED BY <1>1, <1>2

(* Sequences of times, one after another. *)
LEMMA Associates ==
    ASSUME NEW x \in Seq(Int), NEW y \in Seq(Int), NEW z \in Seq(Int)
    PROVE  /\ (x \o y) \o z = x \o (y \o z)
           /\ x \o y \in Seq(Int)
  <1> DEFINE Times == Int
  <1>1. x \in Seq(Times) /\ y \in Seq(Times) /\ z \in Seq(Times)
    OBVIOUS
  <1>2. x \o y \in Seq(Int)
    BY ConcatProperties
  <1> HIDE DEF Times
  <1>3. (x \o y) \o z = x \o (y \o z)
    BY ONLY <1>1, ConcatAssociative
  <1> QED BY <1>2, <1>3

LEMMA AppendLater ==
    ASSUME NEW x \in Seq(Int), NEW y \in Seq(Int), NEW e \in Int
    PROVE  Append(x \o y, e) = x \o Append(y, e)
  <1>1. <<e>> \in Seq(Int)
    OBVIOUS
  <1>2. (x \o y) \o <<e>> = x \o (y \o <<e>>) /\ x \o y \in Seq(Int)
    BY <1>1, Associates
  <1>3. Append(y, e) = y \o <<e>>
    BY AppendIsConcat
  <1>4. Append(x \o y, e) = (x \o y) \o <<e>>
    BY <1>2, AppendIsConcat
  <1> QED BY <1>2, <1>3, <1>4

(* One more at the end.                                                     *)
LEMMA Extended ==
    ASSUME NEW S, NEW q \in Seq(S), NEW x \in S, NEW r \in Seq(S), Len(r) = Len(q) + 1,
           \A n \in 1 .. Len(q) : r[n] = q[n], r[Len(q) + 1] = x
    PROVE  r = Append(q, x)
  <1> DEFINE a == Append(q, x)
             m == Len(q)
  <1>1. a \in Seq(S) /\ Len(a) = m + 1 /\ a[m + 1] = x /\ \A n \in 1 .. m : a[n] = q[n]
    BY AppendProperties
  <1>2. m \in Nat
    BY LenProperties
  <1> HIDE DEF a, m
  <1>3. ASSUME NEW n \in 1 .. m + 1 PROVE n \in 1 .. m \/ n = m + 1
    BY <1>2
  <1>4. r[m + 1] = x /\ \A n \in 1 .. m : r[n] = q[n]
    BY DEF m
  <1>5. ASSUME NEW n \in 1 .. m + 1 PROVE r[n] = a[n]
    BY <1>1, <1>3, <1>4
  <1>6. Len(r) = m + 1
    BY DEF m
  <1> QED BY <1>1, <1>5, <1>6, SeqEqual DEF a

(* Two sequences, one after the other.                                      *)
LEMMA ListenBoth ==
    ASSUME NEW mic \in BOOLEAN, NEW p \in Seq(State), NEW q \in Seq(State)
    PROVE  Listen(mic, p \o q).at = Listen(mic, p).at \o Listen(Listen(mic, p).mic, q).at
  <1> DEFINE first == Listen(mic, p)
             Both(r) == /\ Listen(mic, p \o r).at = first.at \o Listen(first.mic, r).at
                        /\ Listen(mic, p \o r).mic = Listen(first.mic, r).mic
             Good == {n \in Nat : \A r \in Seq(State) : Len(r) = n => Both(r)}
  <1>1. first \in Hearing /\ first.mic \in BOOLEAN /\ first.at \in Seq(Int)
    BY ListenEnds DEF Hearing
  <1> HIDE DEF first
  <1>2. 0 \in Good
    <2>1. ASSUME NEW r \in Seq(State), Len(r) = 0 PROVE Both(r)
      <3>1. r = <<>>
        BY <2>1, EmptySeq
      <3>2. p \o r = p
        BY <3>1, ConcatEmptySeq
      <3>3. Listen(first.mic, r) = [mic |-> first.mic, at |-> <<>>]
        BY <1>1, <3>1, ListenEmpty DEF From
      <3>4. first.at \o <<>> = first.at
        BY <1>1, ConcatEmptySeq
      <3>5. Listen(mic, p \o r) = first
        BY <3>2 DEF first
      <3>6. Listen(first.mic, r).at = <<>> /\ Listen(first.mic, r).mic = first.mic
        BY <3>3
      <3> QED BY <3>4, <3>5, <3>6
    <2> QED BY <2>1
  <1>3. ASSUME NEW n \in Nat, n \in Good PROVE n + 1 \in Good
    <2>1. ASSUME NEW r \in Seq(State), Len(r) = n + 1 PROVE Both(r)
      <3>1. r # <<>>
        BY <2>1, EmptySeq
      <3>2. PICK w \in Seq(State), s \in State : r = Append(w, s)
        BY <3>1, SequenceEmptyOrAppend
      <3>3. Len(w) = n
        <4>1. Len(r) = Len(w) + 1 /\ Len(w) \in Nat
          BY <3>2, AppendProperties, LenProperties
        <4> QED BY <2>1, <4>1
      <3>4. Both(w)
        BY <1>3, <3>3
      <3>5. p \o r = Append(p \o w, s) /\ p \o w \in Seq(State)
        <4>1. r = w \o <<s>> /\ <<s>> \in Seq(State)
          BY <3>2, AppendIsConcat
        <4>2. p \o w \in Seq(State) /\ (p \o w) \o <<s>> = p \o (w \o <<s>>)
          BY <4>1, ConcatProperties, ConcatAssociative
        <4>3. Append(p \o w, s) = (p \o w) \o <<s>>
          BY <4>2, AppendIsConcat
        <4> QED BY <4>1, <4>2, <4>3
      <3> DEFINE whole == Listen(mic, p \o w)
                 part == Listen(first.mic, w)
      <3>6. whole \in Hearing /\ Listen(mic, p \o r) = MoveTo(whole, s)
        BY <3>5, ListenOn
      <3>7. part \in Hearing /\ Listen(first.mic, r) = MoveTo(part, s)
        BY <1>1, <3>2, ListenOn
      <3>8. whole.at = first.at \o part.at /\ whole.mic = part.mic
        BY <3>4
      <3> HIDE DEF whole, part
      <3>9. /\ MoveTo(whole, s).mic = s.mic /\ MoveTo(part, s).mic = s.mic
            /\ MoveTo(whole, s).at = IF s.mic = whole.mic THEN whole.at ELSE Append(whole.at, s.at)
            /\ MoveTo(part, s).at = IF s.mic = part.mic THEN part.at ELSE Append(part.at, s.at)
        BY <3>6, <3>7, MoveToIs
      <3>10. Append(first.at \o part.at, s.at) = first.at \o Append(part.at, s.at)
        <4>1. part.at \in Seq(Int) /\ s.at \in Int
          BY <3>7 DEF Hearing, State
        <4> QED BY <1>1, <4>1, AppendLater
      <3> QED BY <3>6, <3>7, <3>8, <3>9, <3>10
    <2> HIDE DEF Both
    <2> QED BY <2>1
  <1>4. Len(q) \in Nat
    OBVIOUS
  <1>5. Len(q) \in Good
    <2> HIDE DEF Good
    <2> QED BY <1>2, <1>3, <1>4, Induct
  <1>6. Both(q)
    <2> HIDE DEF Both
    <2> QED BY <1>5
  <1> QED BY <1>6 DEF first

(* The levels of MIC in the log, and in the writes. *)
HistoryOf(history) == [n \in DOMAIN history |-> [at |-> history[n].at, mic |-> history[n].value.mic]]

LEMMA StatesAre ==
    ASSUME NEW u, LogType(u.log), u.frame_start \in Nat
    PROVE  LET q == MicStates(u, u.log.edges)
               mic == u.log.start.mic
           IN  /\ mic \in BOOLEAN /\ q \in Seq(State) /\ Len(q) = Len(u.log.edges)
               /\ DOMAIN q = 1 .. Len(u.log.edges)
               /\ \A n \in 1 .. Len(u.log.edges) :
                    q[n] = [at |-> u.frame_start + u.log.edges[n].tick, mic |-> u.log.edges[n].levels.mic]
               /\ MicEdges(u, u.log.edges) = Listen(mic, q).at
               /\ Listen(mic, q) \in Hearing
               /\ LastNow(u.log) => Listen(mic, q).mic = u.log.now.mic
  <1> DEFINE m == Len(u.log.edges)
             q == MicStates(u, u.log.edges)
             mic == u.log.start.mic
  <1>1. /\ m \in Nat /\ DOMAIN u.log.edges = 1 .. m /\ u.log.start \in Levels
        /\ u.log.edges = <<>> <=> m = 0
        /\ \A n \in 1 .. m : u.log.edges[n].tick \in Int /\ u.log.edges[n].levels \in Levels
    BY EdgesOf
  <1>2. mic \in BOOLEAN
    BY <1>1 DEF Levels
  <1> HIDE DEF m
  <1>3. q = [n \in 1 .. m |-> [at |-> u.frame_start + u.log.edges[n].tick, mic |-> u.log.edges[n].levels.mic]]
    BY <1>1 DEF MicStates
  <1>4. ASSUME NEW n \in 1 .. m
        PROVE  [at |-> u.frame_start + u.log.edges[n].tick, mic |-> u.log.edges[n].levels.mic] \in State
    <2>1. u.log.edges[n].tick \in Int /\ u.log.edges[n].levels.mic \in BOOLEAN
      BY <1>1 DEF Levels
    <2>2. u.frame_start + u.log.edges[n].tick \in Int
      BY <2>1
    <2> QED BY <2>1, <2>2 DEF State
  <1> HIDE DEF q
  <1>5. q \in Seq(State) /\ Len(q) = m /\ DOMAIN q = 1 .. m
    <2>1. q \in [1 .. m -> State] /\ DOMAIN q = 1 .. m
      BY <1>3, <1>4
    <2> QED BY <1>1, <2>1
  <1>6. MicEdges(u, u.log.edges) = Listen(mic, q).at
    BY <1>2, <1>5, MovesIs DEF MicEdges, q
  <1>7. Listen(mic, q) \in Hearing /\ Listen(mic, q).mic = IF q = <<>> THEN mic ELSE q[m].mic
    BY <1>2, <1>5, ListenEnds
  <1>8. ASSUME LastNow(u.log) PROVE Listen(mic, q).mic = u.log.now.mic
    <2>1. u.log.now = IF m = 0 THEN u.log.start ELSE u.log.edges[m].levels
      BY <1>1, <1>8 DEF LastNow, m
    <2>2. q = <<>> <=> m = 0
      BY <1>5, EmptySeq
    <2>3. m # 0 => q[m].mic = u.log.edges[m].levels.mic
      BY <1>1, <1>3
    <2> QED BY <1>7, <2>1, <2>2, <2>3
  <1> QED BY <1>2, <1>3, <1>5, <1>6, <1>7, <1>8 DEF m, q

LEMMA HistoryIs ==
    ASSUME NEW w \in Seq([at : Nat, value : Values])
    PROVE  LET q == HistoryOf(w)
           IN  /\ q \in Seq(State) /\ Len(q) = Len(w)
               /\ \A n \in 1 .. Len(w) : q[n] = [at |-> w[n].at, mic |-> w[n].value.mic]
               /\ Moves(FALSE, q) = Listen(FALSE, q).at
               /\ Listen(FALSE, q) \in Hearing /\ Listen(FALSE, q).mic = Recent(w).mic
  <1> DEFINE m == Len(w)
             q == HistoryOf(w)
  <1>1. /\ m \in Nat /\ DOMAIN w = 1 .. m /\ (w = <<>> <=> m = 0)
        /\ \A n \in 1 .. m : w[n] \in [at : Nat, value : Values]
    BY LenProperties, EmptySeq, ElementOfSeq
  <1> HIDE DEF m
  <1>2. q = [n \in 1 .. m |-> [at |-> w[n].at, mic |-> w[n].value.mic]]
    BY <1>1 DEF HistoryOf
  <1>3. ASSUME NEW n \in 1 .. m PROVE [at |-> w[n].at, mic |-> w[n].value.mic] \in State
    <2>1. w[n].at \in Nat /\ w[n].value \in Values
      BY <1>1
    <2>2. w[n].value.mic \in BOOLEAN
      BY <2>1, FramesAssumption DEF Values
    <2> QED BY <2>1, <2>2 DEF State
  <1> HIDE DEF q
  <1>4. q \in Seq(State) /\ Len(q) = m /\ DOMAIN q = 1 .. m
    <2>1. q \in [1 .. m -> State] /\ DOMAIN q = 1 .. m
      BY <1>2, <1>3
    <2> QED BY <1>1, <2>1
  <1>5. Moves(FALSE, q) = Listen(FALSE, q).at
    BY <1>4, MovesIs
  <1>6. Listen(FALSE, q) \in Hearing /\ Listen(FALSE, q).mic = IF q = <<>> THEN FALSE ELSE q[m].mic
    BY <1>4, ListenEnds
  <1>7. Listen(FALSE, q).mic = Recent(w).mic
    <2>1. q = <<>> <=> m = 0
      BY <1>4, EmptySeq
    <2>2. CASE m = 0
      BY <1>1, <1>6, <2>1, <2>2 DEF Recent, Quiet
    <2>3. CASE m # 0
      <3>1. q[m].mic = w[m].value.mic
        BY <1>1, <1>2, <2>3
      <3>2. Recent(w).mic = w[m].value.mic
        BY <1>1, <2>3 DEF Recent, LevelsOf, m
      <3> QED BY <1>6, <2>1, <2>3, <3>1, <3>2
    <2> QED BY <2>2, <2>3
  <1> QED BY <1>2, <1>4, <1>5, <1>6, <1>7 DEF m, q

(* The invariant: what the recorder has heard, and what it will of the log. *)
Hears ==
    /\ heard \in Seq(Int)
    /\ ula.log.dropped = 0 => heard \o MicEdges(ula, ula.log.edges) = Moves(FALSE, HistoryOf(writes))

LEMMA HearsInit == Init => Hears
  <1> SUFFICES ASSUME Init PROVE Hears
    OBVIOUS
  <1>1. /\ ula.log = [edges |-> <<>>, start |-> Quiet, now |-> Quiet, dropped |-> 0]
        /\ writes = <<>> /\ heard = <<>>
    BY DEF Init, EmptyLog
  <1>2. /\ << >> \in Seq(Int) /\ << >> \in Seq(State) /\ DOMAIN << >> = {}
        /\ << >> \o << >> = << >>
    OBVIOUS
  <1>3. \A u : MicStates(u, <<>>) = <<>>
    BY <1>2 DEF MicStates
  <1>4. HistoryOf(writes) = <<>>
    BY <1>1, <1>2 DEF HistoryOf
  <1>5. Moves(FALSE, <<>>) = <<>>
    <2>1. Moves(FALSE, <<>>) = Listen(FALSE, <<>>).at
      BY <1>2, MovesIs
    <2>2. Listen(FALSE, <<>>).at = From(FALSE).at
      BY ListenEmpty
    <2>3. From(FALSE).at = <<>>
      BY DEF From
    <2> QED BY <2>1, <2>2, <2>3
  <1>6. MicEdges(ula, ula.log.edges) = <<>>
    <2>1. ula.log.edges = <<>> /\ ula.log.start.mic = FALSE
      BY <1>1 DEF Quiet
    <2>2. MicStates(ula, ula.log.edges) = <<>>
      BY <1>3, <2>1
    <2> QED BY <1>5, <2>1, <2>2 DEF MicEdges
  <1> QED BY <1>1, <1>2, <1>4, <1>5, <1>6 DEF Hears

LEMMA HearsElsewhere ==
    ASSUME Hears, Elsewhere
    PROVE  Hears'
  <1>1. /\ ula'.log = ula.log /\ ula'.frame_start = ula.frame_start
        /\ writes' = writes /\ heard' = heard
    BY DEF Elsewhere, Beam
  <1>2. MicEdges(ula', ula'.log.edges) = MicEdges(ula, ula.log.edges)
    BY <1>1 DEF MicEdges, MicStates
  <1> QED BY <1>1, <1>2 DEF Hears

LEMMA HearsWritten ==
    ASSUME Clock, Written, Sounds, Sounds', Hears, NEW i \in Instructions, Writes(i)
    PROVE  Hears'
  <1> DEFINE at == t + i.at
             began == ula.frame_start
             tick == at - began
             levels == LevelsOf(i.value)
             s == [at |-> at, mic |-> levels.mic]
             next == ula'.log
             q == MicStates(ula, ula.log.edges)
             r == MicStates(ula', ula'.log.edges)
             h == HistoryOf(writes)
             k == HistoryOf(writes')
             mic == ula.log.start.mic
  <1>1. /\ ula'.frame_start = began /\ heard' = heard
        /\ next = Record(ula.log, tick, levels)
        /\ writes' = Append(writes, [at |-> at, value |-> i.value])
    BY DEF Writes
  <1>2. at \in Nat /\ began \in Nat /\ tick \in Int /\ began + tick = at
    <2>1. at \in Nat /\ began \in Nat
      BY WriteAt, Durations DEF Clock
    <2> HIDE DEF at, began
    <2> QED BY <2>1
  <1>3. levels \in Levels /\ levels.mic \in BOOLEAN /\ levels.mic = i.value.mic
    <2>1. i.value.speaker \in BOOLEAN /\ i.value.mic \in BOOLEAN
      BY FramesAssumption DEF Writes
    <2> QED BY <2>1 DEF Levels, LevelsOf
  <1>4. s \in State
    BY <1>2, <1>3 DEF State
  <1>5. LogType(ula.log) /\ LogType(next) /\ heard \in Seq(Int)
    BY DEF Sounds, Hears
  <1>6. /\ writes \in Seq([at : Nat, value : Values]) /\ writes' \in Seq([at : Nat, value : Values])
        /\ Len(writes') = Len(writes) + 1 /\ Len(writes) \in Nat
        /\ \A n \in 1 .. Len(writes) : writes'[n] = writes[n]
        /\ writes'[Len(writes) + 1] = [at |-> at, value |-> i.value]
    BY Appended, LenProperties DEF Written
  <1>7. /\ h \in Seq(State) /\ Len(h) = Len(writes)
        /\ \A n \in 1 .. Len(writes) : h[n] = [at |-> writes[n].at, mic |-> writes[n].value.mic]
        /\ Moves(FALSE, h) = Listen(FALSE, h).at
        /\ Listen(FALSE, h) \in Hearing /\ Listen(FALSE, h).mic = Recent(writes).mic
    BY <1>6, HistoryIs
  <1>8. /\ k \in Seq(State) /\ Len(k) = Len(writes')
        /\ \A n \in 1 .. Len(writes') : k[n] = [at |-> writes'[n].at, mic |-> writes'[n].value.mic]
        /\ Moves(FALSE, k) = Listen(FALSE, k).at
    BY <1>6, HistoryIs
  <1>9. /\ mic \in BOOLEAN /\ q \in Seq(State) /\ Len(q) = Len(ula.log.edges)
        /\ \A n \in 1 .. Len(ula.log.edges) :
             q[n] = [at |-> began + ula.log.edges[n].tick, mic |-> ula.log.edges[n].levels.mic]
        /\ MicEdges(ula, ula.log.edges) = Listen(mic, q).at
        /\ Listen(mic, q) \in Hearing
        /\ LastNow(ula.log) => Listen(mic, q).mic = ula.log.now.mic
    BY <1>2, <1>5, StatesAre
  <1>10. /\ r \in Seq(State) /\ Len(r) = Len(next.edges)
         /\ \A n \in 1 .. Len(next.edges) :
              r[n] = [at |-> began + next.edges[n].tick, mic |-> next.edges[n].levels.mic]
         /\ MicEdges(ula', ula'.log.edges) = Listen(next.start.mic, r).at
    <2>1. LogType(ula'.log) /\ ula'.frame_start \in Nat
      BY <1>1, <1>2, <1>5
    <2> QED BY <1>1, <2>1, StatesAre
  <1>11. /\ next.start = ula.log.start
         /\ \/ next = ula.log /\ levels = ula.log.now
            \/ next.dropped = ula.log.dropped + 1
            \/ /\ next.dropped = ula.log.dropped
               /\ next.edges = Append(ula.log.edges, [tick |-> tick, levels |-> levels])
    <2> DEFINE record == Record(ula.log, tick, levels)
    <2> HIDE DEF at, began, tick, levels, next
    <2>1. /\ record.start = ula.log.start
          /\ \/ record = ula.log /\ levels = ula.log.now
             \/ record.dropped = ula.log.dropped + 1
             \/ /\ record.dropped = ula.log.dropped
                /\ record.edges = Append(ula.log.edges, [tick |-> tick, levels |-> levels])
      BY <1>2, <1>3, <1>5, Recorded
    <2>2. next = record
      BY <1>1
    <2> HIDE DEF record
    <2> QED BY <2>1, <2>2
  <1>12. ula.log.dropped \in Nat /\ next.dropped \in Nat
    BY <1>5, EdgesOf
  <1>13. ula.log.now = Recent(writes)
    BY DEF Sounds
  <1>14. Len(ula.log.edges) \in Nat /\ ula.log.edges \in Seq(EdgeType)
    BY <1>5, EdgesOf
  <1> HIDE DEF at, began, levels, next, q, r, h, k, mic
  <1>15. k = Append(h, s)
    <2>1. ASSUME NEW n \in 1 .. Len(writes) PROVE k[n] = h[n]
      <3>1. n \in 1 .. Len(writes')
        BY <1>6
      <3>2. k[n] = [at |-> writes'[n].at, mic |-> writes'[n].value.mic]
        BY <1>8, <3>1
      <3>3. writes'[n] = writes[n] /\ h[n] = [at |-> writes[n].at, mic |-> writes[n].value.mic]
        BY <1>6, <1>7
      <3> QED BY <3>2, <3>3
    <2>2. k[Len(writes) + 1] = s
      <3>1. Len(writes) + 1 \in 1 .. Len(writes')
        BY <1>6
      <3>2. k[Len(writes) + 1] = [at |-> at, mic |-> i.value.mic]
        BY <1>6, <1>8, <3>1
      <3> QED BY <1>3, <3>2
    <2>3. Len(k) = Len(h) + 1 /\ Len(h) = Len(writes)
      BY <1>6, <1>7, <1>8
    <2> HIDE DEF s
    <2> QED BY <1>4, <1>7, <1>8, <2>1, <2>2, <2>3, Extended
  <1>16. /\ Listen(FALSE, k) = MoveTo(Listen(FALSE, h), s)
         /\ Listen(FALSE, k).at = IF s.mic = Recent(writes).mic THEN Listen(FALSE, h).at
                                  ELSE Append(Listen(FALSE, h).at, s.at)
    <2> HIDE DEF s
    <2>1. Listen(FALSE, k) = MoveTo(Listen(FALSE, h), s)
      BY <1>4, <1>7, <1>15, ListenOn
    <2> DEFINE acc == Listen(FALSE, h)
    <2>2. acc \in Hearing /\ acc.mic = Recent(writes).mic
      BY <1>7
    <2> HIDE DEF acc
    <2>3. MoveTo(acc, s).at = IF s.mic = acc.mic THEN acc.at ELSE Append(acc.at, s.at)
      BY <1>4, <2>2, MoveToIs
    <2> QED BY <2>1, <2>2, <2>3 DEF acc
  <1>17. ASSUME next.dropped = 0
         PROVE  heard \o Listen(next.start.mic, r).at = Listen(FALSE, k).at
    <2>1. ula.log.dropped = 0 /\ ~(next.dropped = ula.log.dropped + 1)
      BY <1>11, <1>12, <1>17
    <2>2. LastNow(ula.log) /\ heard \o Listen(mic, q).at = Listen(FALSE, h).at
      BY <1>7, <1>9, <2>1 DEF Sounds, Hears, h
    <2>3. Listen(mic, q).mic = Recent(writes).mic
      BY <1>9, <1>13, <2>2
    <2>4. CASE next = ula.log /\ levels = ula.log.now
      <3>1. r = q
        <4>1. Len(r) = Len(q) /\ \A n \in 1 .. Len(r) : r[n] = q[n]
          BY <1>9, <1>10, <2>4
        <4> QED BY <1>9, <1>10, <4>1, SeqEqual
      <3>2. s.mic = Recent(writes).mic
        BY <1>13, <2>4
      <3> QED BY <1>11, <1>16, <2>2, <3>1, <3>2 DEF mic
    <2>5. CASE next.edges = Append(ula.log.edges, [tick |-> tick, levels |-> levels])
      <3> DEFINE e == [tick |-> tick, levels |-> levels]
      <3>1. /\ Len(next.edges) = Len(ula.log.edges) + 1
            /\ \A n \in 1 .. Len(ula.log.edges) : next.edges[n] = ula.log.edges[n]
            /\ next.edges[Len(ula.log.edges) + 1] = e
        <4>1. e \in EdgeType
          BY <1>2, <1>3 DEF EdgeType
        <4> QED BY <1>14, <2>5, <4>1, AppendProperties
      <3>2. ASSUME NEW n \in 1 .. Len(ula.log.edges)
            PROVE  r[n] = [at |-> began + next.edges[n].tick, mic |-> next.edges[n].levels.mic]
        <4>1. n \in 1 .. Len(next.edges)
          BY <1>14, <3>1
        <4> QED BY <1>10, <4>1
      <3>3. r[Len(ula.log.edges) + 1] = s
        <4>1. Len(ula.log.edges) + 1 \in 1 .. Len(next.edges)
          BY <1>14, <3>1
        <4>2. r[Len(ula.log.edges) + 1] = [at |-> began + tick, mic |-> levels.mic]
          BY <1>10, <3>1, <4>1
        <4> QED BY <1>2, <4>2
      <3>4. r = Append(q, s)
        <4>1. Len(r) = Len(q) + 1 /\ Len(q) = Len(ula.log.edges)
          BY <1>9, <1>10, <3>1
        <4>2. \A n \in 1 .. Len(ula.log.edges) : r[n] = q[n]
          BY <1>9, <3>1, <3>2
        <4> HIDE DEF s
        <4> QED BY <1>4, <1>9, <1>10, <3>3, <4>1, <4>2, Extended
      <3> HIDE DEF s
      <3>5. Listen(mic, r) = MoveTo(Listen(mic, q), s)
        BY <1>4, <1>9, <3>4, ListenOn
      <3>6. Listen(mic, r).at = IF s.mic = Recent(writes).mic THEN Listen(mic, q).at
                                ELSE Append(Listen(mic, q).at, s.at)
        <4> DEFINE acc == Listen(mic, q)
        <4>1. acc \in Hearing /\ acc.mic = Recent(writes).mic
          BY <1>9, <2>3
        <4> HIDE DEF acc
        <4>2. MoveTo(acc, s).at = IF s.mic = acc.mic THEN acc.at ELSE Append(acc.at, s.at)
          BY <1>4, <4>1, MoveToIs
        <4> QED BY <3>5, <4>1, <4>2 DEF acc
      <3>7. Listen(mic, q).at \in Seq(Int) /\ s.at \in Int
        BY <1>4, <1>9 DEF Hearing, State
      <3>8. Append(heard \o Listen(mic, q).at, s.at) = heard \o Append(Listen(mic, q).at, s.at)
        BY <1>5, <3>7, AppendLater
      <3>9. next.start.mic = mic
        BY <1>11 DEF mic
      <3> QED BY <1>16, <2>2, <3>6, <3>8, <3>9
    <2> QED BY <1>11, <2>1, <2>4, <2>5
  <1>18. heard' \in Seq(Int)
    BY <1>1, <1>5
  <1>19. next.dropped = 0 => heard' \o MicEdges(ula', ula'.log.edges) = Moves(FALSE, k)
    BY <1>1, <1>8, <1>10, <1>17
  <1> QED BY <1>18, <1>19 DEF Hears, next, k

(* The end of a frame: the edges inside it are heard, and what is left in   *)
(* the log is where it was, counted from the next frame.                    *)
LEMMA HearsEnded ==
    ASSUME Clock, Sounds, Sounds', Hears, Ends
    PROVE  Hears'
  <1> DEFINE began == ula.frame_start
             log == ula.log
             next == ula'.log
             mic == log.start.mic
             split == Inside(log, FrameTime)
             m == Len(log.edges)
             rest == m - split
             part == SubSeq(log.edges, 1, split)
             q == MicStates(ula, log.edges)
             p == MicStates(ula, part)
             r == MicStates(ula', next.edges)
  <1>1. /\ ula'.frame_start = began + FrameTime /\ next = Roll(log, FrameTime)
        /\ heard' = heard \o Moves(mic, p) /\ writes' = writes
    BY DEF Ends, Drain, MicEdges
  <1>2. began \in Nat /\ FrameTime \in Nat \ {0} /\ began + FrameTime \in Nat
    <2>1. began \in Nat /\ FrameTime \in Nat \ {0}
      BY Durations DEF Clock
    <2> QED BY <2>1
  <1>3. LogType(log) /\ LogType(next) /\ heard \in Seq(Int)
    BY DEF Sounds, Hears
  <1>4. /\ next.now = log.now /\ next.dropped = log.dropped
        /\ rest \in Nat /\ Len(next.edges) = rest
        /\ next.edges = <<>> <=> rest = 0
        /\ \A n \in 1 .. rest :
             /\ next.edges[n].tick = log.edges[split + n].tick - FrameTime
             /\ next.edges[n].levels = log.edges[split + n].levels
        /\ next.start = IF rest = 0 THEN log.now ELSE IF split = 0 THEN log.start ELSE log.edges[split].levels
    <2> DEFINE rolled == Roll(log, FrameTime)
    <2> HIDE DEF log
    <2>1. /\ rolled.now = log.now /\ rolled.dropped = log.dropped
          /\ rest \in Nat /\ Len(rolled.edges) = rest
          /\ rolled.edges = <<>> <=> rest = 0
          /\ \A n \in 1 .. rest :
               /\ rolled.edges[n].tick = log.edges[split + n].tick - FrameTime
               /\ rolled.edges[n].levels = log.edges[split + n].levels
          /\ rolled.start = IF rest = 0 THEN log.now ELSE IF split = 0 THEN log.start ELSE log.edges[split].levels
      BY <1>2, <1>3, Rolled
    <2> HIDE DEF rest, split, m, next
    <2>2. next = rolled
      BY <1>1
    <2> HIDE DEF rolled
    <2> QED BY <2>1, <2>2
  <1>5. m \in Nat /\ split \in 0 .. m
    <2>1. FrameTime \in Int
      BY <1>2
    <2> HIDE DEF log
    <2>2. m \in Nat
      BY <1>3, EdgesOf
    <2>3. split \in 0 .. m
      BY <1>3, <2>1, InsideIs
    <2> QED BY <2>2, <2>3
  <1>6. \A n \in 1 .. m : log.edges[n] \in EdgeType /\ log.edges[n].tick \in Int
    BY <1>3, EdgesOf
  <1>7. /\ mic \in BOOLEAN /\ q \in Seq(State) /\ Len(q) = m
        /\ \A n \in 1 .. m : q[n] = [at |-> began + log.edges[n].tick, mic |-> log.edges[n].levels.mic]
        /\ MicEdges(ula, log.edges) = Listen(mic, q).at
    BY <1>2, <1>3, StatesAre
  <1>8. /\ r \in Seq(State) /\ Len(r) = rest
        /\ \A n \in 1 .. rest :
             r[n] = [at |-> (began + FrameTime) + next.edges[n].tick, mic |-> next.edges[n].levels.mic]
        /\ next.start.mic \in BOOLEAN
        /\ MicEdges(ula', next.edges) = Listen(next.start.mic, r).at
    <2>1. LogType(ula'.log) /\ ula'.frame_start \in Nat
      BY <1>1, <1>2, <1>3
    <2> QED BY <1>1, <1>4, <2>1, StatesAre
  <1>9. /\ part \in Seq(EdgeType) /\ Len(part) = split
        /\ \A n \in 1 .. split : part[n] = log.edges[n]
    <2> HIDE DEF split, m, log
    <2>1. \A n \in 1 .. split : log.edges[n] \in EdgeType
      BY <1>5, <1>6
    <2>2. split \in Int /\ split - 1 + 1 = split /\ \A n \in 1 .. split : 1 + n - 1 = n
      BY <1>5
    <2>3. /\ part \in Seq(EdgeType) /\ Len(part) = IF 1 <= split THEN split - 1 + 1 ELSE 0
          /\ \A n \in 1 .. split - 1 + 1 : part[n] = log.edges[1 + n - 1]
      BY <2>1, <2>2, SubSeqProperties
    <2> HIDE DEF part
    <2>4. Len(part) = split
      BY <1>5, <2>2, <2>3
    <2> QED BY <2>2, <2>3, <2>4
  <1>10. p = [n \in 1 .. split |-> [at |-> began + part[n].tick, mic |-> part[n].levels.mic]]
    <2>1. DOMAIN part = 1 .. split
      BY <1>9, LenProperties
    <2> QED BY <2>1 DEF MicStates
  <1> HIDE DEF began, log, next, mic, split, m, part, q, p, r
  <1>11. ASSUME NEW n \in 1 .. split PROVE p[n] = q[n]
    <2>1. n \in 1 .. m /\ part[n] = log.edges[n]
      BY <1>5, <1>9
    <2> QED BY <1>7, <1>10, <2>1
  <1>12. p \in Seq(State) /\ Len(p) = split
    <2>1. ASSUME NEW n \in 1 .. split PROVE p[n] \in State
      <3>1. n \in 1 .. Len(q)
        BY <1>5, <1>7
      <3> QED BY <1>7, <1>11, <3>1, ElementOfSeq
    <2>2. p \in [1 .. split -> State]
      <3>1. p = [n \in 1 .. split |-> p[n]]
        BY <1>10
      <3> QED BY <2>1, <3>1
    <2>3. split \in Nat
      BY <1>5
    <2> QED BY <2>2, <2>3
  <1>13. ASSUME NEW n \in 1 .. rest PROVE r[n] = q[split + n]
    <2>1. split + n \in 1 .. m
      BY <1>5
    <2>2. (began + FrameTime) + (log.edges[split + n].tick - FrameTime) = began + log.edges[split + n].tick
      <3> DEFINE x == log.edges[split + n].tick
      <3>1. x \in Int
        BY <1>6, <2>1
      <3> HIDE DEF x
      <3>2. (began + FrameTime) + (x - FrameTime) = began + x
        BY <1>2, <3>1
      <3> QED BY <3>2 DEF x
    <2> QED BY <1>4, <1>7, <1>8, <2>1, <2>2
  <1>14. q = p \o r
    <2>1. /\ p \o r \in Seq(State) /\ Len(p \o r) = split + rest
          /\ \A n \in 1 .. split + rest : (p \o r)[n] = IF n <= split THEN p[n] ELSE r[n - split]
      <3> HIDE DEF rest
      <3>1. Len(p) = split /\ Len(r) = rest
        BY <1>8, <1>12
      <3>2. /\ p \o r \in Seq(State) /\ Len(p \o r) = Len(p) + Len(r)
            /\ \A n \in 1 .. Len(p) + Len(r) : (p \o r)[n] = IF n <= Len(p) THEN p[n] ELSE r[n - Len(p)]
        BY <1>8, <1>12, ConcatProperties
      <3> QED BY <3>1, <3>2
    <2>2. split + rest = m
      BY <1>5
    <2>3. ASSUME NEW n \in 1 .. m PROVE q[n] = (p \o r)[n]
      <3>1. CASE n <= split
        <4>1. n \in 1 .. split
          BY <1>5, <3>1
        <4> QED BY <1>11, <2>1, <2>2, <3>1, <4>1
      <3>2. CASE ~(n <= split)
        <4>1. n - split \in 1 .. rest /\ split + (n - split) = n
          BY <1>5, <3>2
        <4> QED BY <1>13, <2>1, <2>2, <3>2, <4>1
      <3> QED BY <3>1, <3>2
    <2> HIDE DEF rest
    <2> QED BY <1>7, <2>1, <2>2, <2>3, SeqEqual
  <1>15. Listen(mic, q).at = Listen(mic, p).at \o Listen(Listen(mic, p).mic, r).at
    BY <1>7, <1>8, <1>12, <1>14, ListenBoth
  <1>16. /\ Listen(mic, p) \in Hearing /\ Moves(mic, p) = Listen(mic, p).at
         /\ Listen(mic, p).mic = IF p = <<>> THEN mic ELSE p[split].mic
    BY <1>7, <1>12, ListenEnds, MovesIs
  <1>17. Listen(Listen(mic, p).mic, r).at = Listen(next.start.mic, r).at
    <2>1. CASE rest = 0
      <3>1. r = <<>>
        BY <1>8, <2>1, EmptySeq
      <3>2. Listen(mic, p).mic \in BOOLEAN
        BY <1>16 DEF Hearing
      <3>3. /\ Listen(Listen(mic, p).mic, <<>>) = [mic |-> Listen(mic, p).mic, at |-> <<>>]
            /\ Listen(next.start.mic, <<>>) = [mic |-> next.start.mic, at |-> <<>>]
        BY <1>8, <3>2, ListenEmpty DEF From
      <3>4. Listen(Listen(mic, p).mic, <<>>).at = <<>> /\ Listen(next.start.mic, <<>>).at = <<>>
        BY <3>3
      <3> QED BY <3>1, <3>4
    <2>2. CASE rest # 0
      <3>1. p = <<>> <=> split = 0
        BY <1>12, EmptySeq
      <3>2. split # 0 => p[split].mic = log.edges[split].levels.mic
        <4>1. ASSUME split # 0 PROVE split \in 1 .. split /\ split \in 1 .. m
          BY <1>5, <4>1
        <4>2. ASSUME split # 0 PROVE p[split].mic = log.edges[split].levels.mic
          <5>1. p[split] = q[split] /\ q[split] = [at |-> began + log.edges[split].tick, mic |-> log.edges[split].levels.mic]
            BY <1>7, <1>11, <4>1, <4>2
          <5> QED BY <5>1
        <4> QED BY <4>2
      <3>3. next.start = IF split = 0 THEN log.start ELSE log.edges[split].levels
        BY <1>4, <2>2
      <3>4. next.start.mic = Listen(mic, p).mic
        BY <1>16, <3>1, <3>2, <3>3 DEF mic
      <3> QED BY <3>4
    <2> QED BY <2>1, <2>2
  <1>18. Listen(mic, p).at \in Seq(Int) /\ Listen(next.start.mic, r).at \in Seq(Int)
    <2>1. Listen(next.start.mic, r) \in Hearing
      BY <1>8, ListenEnds
    <2> QED BY <1>16, <2>1 DEF Hearing
  <1>19. heard' \in Seq(Int)
    BY <1>1, <1>3, <1>16, <1>18, Associates
  <1>20. heard' \o MicEdges(ula', next.edges) = heard \o MicEdges(ula, log.edges)
    <2>1. (heard \o Listen(mic, p).at) \o Listen(next.start.mic, r).at
            = heard \o (Listen(mic, p).at \o Listen(next.start.mic, r).at)
      BY <1>3, <1>18, Associates
    <2> QED BY <1>1, <1>7, <1>8, <1>15, <1>16, <1>17, <2>1
  <1>21. ASSUME next.dropped = 0
         PROVE  heard' \o MicEdges(ula', next.edges) = Moves(FALSE, HistoryOf(writes'))
    <2>1. heard \o MicEdges(ula, log.edges) = Moves(FALSE, HistoryOf(writes))
      BY <1>4, <1>21 DEF Hears, log
    <2> QED BY <1>1, <1>20, <2>1
  <1> QED BY <1>19, <1>21 DEF Hears, next

LEMMA HearsAlways == Spec => []Hears
  <1>1. ASSUME Clock, Written, Sounds, Sounds', Hears, [Next]_vars PROVE Hears'
    BY <1>1, Kinds, HearsElsewhere, HearsWritten, HearsEnded
  <1> QED BY <1>1, HearsInit, ClockAlways, WrittenAlways, SoundsAlways, PTL DEF Spec

(* While the log has had room, the recorder is given every edge of MIC once *)
(* and in order, however late each frame was ended: an edge which overran   *)
(* its frame is in the next, and no other is.                               *)
THEOREM MicAlwaysHeardOnce == Spec => []MicHeardOnce
  <1>1. ASSUME Hears PROVE MicHeardOnce
    BY <1>1 DEF Hears, MicHeardOnce, HistoryOf
  <1> QED BY <1>1, HearsAlways, PTL

-----------------------------------------------------------------------------
(* The tape.  The deck advances by as many pulses as have come due, so that *)
(* whatever each of them keeps is kept; and the pulses since it was started *)
(* add up, one more at a time.                                              *)

TapePulses == [ticks : Nat, level : BOOLEAN]
Decks == [playing : BOOLEAN, next_edge : Nat, level : BOOLEAN, pos : 1 .. Len(Image) + 1, done : BOOLEAN]
OnePulse(d, now) == IF EdgeDue(d, now) THEN NextPulse(d, now) ELSE d

Steps(f, d, now, q) ==
    f = [s \in SUBSET (DOMAIN q) |-> IF s = {} THEN d ELSE OnePulse(f[s \ {Max(s)}], now)]

LEMMA Advances ==
    ASSUME NEW A, NEW d \in A, NEW now, \A e \in A : OnePulse(e, now) \in A
    PROVE  AdvanceTo(d, now) \in A
  <1> DEFINE n == Len(Image) + 1
             q == [i \in 1 .. n |-> i]
             h == CHOOSE f : Steps(f, d, now, q)
             comb == [p \in A \X Nat |-> OnePulse(p[1], now)]
  <1>1. n \in Nat
    BY LenProperties, FramesAssumption
  <1>2. AdvanceTo(d, now) = h[DOMAIN q]
    BY DEF AdvanceTo, FoldLeft, MapThenFoldSet, Steps, OnePulse
  <1> HIDE DEF n
  <1>3. q \in Seq(Nat) /\ DOMAIN q = 1 .. n /\ Len(q) = n /\ \A i \in 1 .. n : q[i] = i
    BY <1>1
  <1>4. \A e \in A, k \in Nat : comb[<<e, k>>] = OnePulse(e, now)
    OBVIOUS
  <1>5. comb \in [A \X Nat -> A]
    OBVIOUS
  <1> HIDE DEF q, comb
  <1>6. FoldOver(A, Nat, comb, d, q)
    BY <1>3, <1>5 DEF FoldOver
  <1>7. PICK f : FoldRecursion(f, A, comb, d, q)
    BY <1>6, FoldExists
  <1>8. ASSUME NEW s \in SUBSET (1 .. n), s # {}
        PROVE  q[Max(s)] \in Nat /\ s \ {Max(s)} \in SUBSET (1 .. n)
    <2>1. Max(s) \in s
      BY <1>1, <1>8, Greatest
    <2>2. Max(s) \in 1 .. n
      BY <2>1
    <2>3. q[Max(s)] = Max(s) /\ Max(s) \in Nat
      BY <1>3, <2>2
    <2> QED BY <2>3
  <1>9. Steps(f, d, now, q)
    <2>1. /\ f \in [SUBSET (1 .. n) -> A] /\ f[{}] = d
          /\ \A s \in SUBSET (1 .. n) : s # {} => f[s] = comb[<<f[s \ {Max(s)}], q[Max(s)]>>]
      BY <1>3, <1>7 DEF FoldRecursion
    <2>2. ASSUME NEW s \in SUBSET (1 .. n)
          PROVE  f[s] = IF s = {} THEN d ELSE OnePulse(f[s \ {Max(s)}], now)
      BY <1>4, <1>8, <2>1
    <2>3. f = [s \in SUBSET (1 .. n) |-> f[s]]
      BY <2>1
    <2>4. f = [s \in SUBSET (1 .. n) |-> IF s = {} THEN d ELSE OnePulse(f[s \ {Max(s)}], now)]
      BY <2>2, <2>3
    <2> QED BY <1>3, <2>4 DEF Steps
  <1>10. Steps(h, d, now, q)
    BY <1>9
  <1> HIDE DEF h
  <1>11. \A s \in SUBSET (1 .. n) : h[s] = IF s = {} THEN d ELSE OnePulse(h[s \ {Max(s)}], now)
    BY <1>3, <1>10 DEF Steps
  <1>12. Recurs(h, A, comb, d, q)
    <2>1. h[{}] = d
      BY <1>11
    <2>2. ASSUME NEW s \in SUBSET (1 .. Len(q)), s # {}, h[s \ {Max(s)}] \in A
          PROVE  h[s] = comb[<<h[s \ {Max(s)}], q[Max(s)]>>]
      BY <1>3, <1>4, <1>8, <1>11, <2>2
    <2> QED BY <2>1, <2>2 DEF Recurs
  <1>13. h[DOMAIN q] = Folded(A, comb, d, q)
    BY <1>6, <1>12, FoldSettles
  <1>14. Folded(A, comb, d, q) \in A
    <2>1. 1 \in Nat
      OBVIOUS
    <2> QED BY <1>6, <2>1, FoldedAppend
  <1> QED BY <1>2, <1>13, <1>14

(* How long so many pulses take. *)
Total(q) == FoldLeft(LAMBDA sum, pulse : sum + pulse.ticks, 0, q)
Lengthen == [p \in Nat \X TapePulses |-> p[1] + p[2].ticks]
Sums(f, q) ==
    f = [s \in SUBSET (DOMAIN q) |-> IF s = {} THEN 0 ELSE f[s \ {Max(s)}] + q[Max(s)].ticks]

LEMMA Lengthens ==
    ASSUME NEW q \in Seq(TapePulses)
    PROVE  FoldOver(Nat, TapePulses, Lengthen, 0, q)
  <1>1. ASSUME NEW p \in Nat \X TapePulses PROVE p[1] + p[2].ticks \in Nat
    <2>1. p[1] \in Nat /\ p[2].ticks \in Nat
      BY DEF TapePulses
    <2> QED BY <2>1
  <1>2. Lengthen \in [Nat \X TapePulses -> Nat]
    BY <1>1 DEF Lengthen
  <1> QED BY <1>2 DEF FoldOver

LEMMA TotalIs ==
    ASSUME NEW q \in Seq(TapePulses)
    PROVE  Total(q) = Folded(Nat, Lengthen, 0, q)
  <1> DEFINE h == CHOOSE f : Sums(f, q)
             n == Len(q)
  <1>1. n \in Nat /\ DOMAIN q = 1 .. n /\ \A i \in 1 .. n : q[i] \in TapePulses
    BY LenProperties, ElementOfSeq
  <1>2. Total(q) = h[DOMAIN q]
    BY DEF Total, FoldLeft, MapThenFoldSet, Sums
  <1>3. FoldOver(Nat, TapePulses, Lengthen, 0, q)
    BY Lengthens
  <1>4. PICK f : FoldRecursion(f, Nat, Lengthen, 0, q)
    BY <1>3, FoldExists
  <1>5. /\ f \in [SUBSET (1 .. n) -> Nat] /\ f[{}] = 0
        /\ \A s \in SUBSET (1 .. n) : s # {} => f[s] = Lengthen[<<f[s \ {Max(s)}], q[Max(s)]>>]
    BY <1>4 DEF FoldRecursion
  <1> HIDE DEF n
  <1>6. ASSUME NEW s \in SUBSET (1 .. n), s # {}
        PROVE  q[Max(s)] \in TapePulses /\ s \ {Max(s)} \in SUBSET (1 .. n)
    <2>1. Max(s) \in s
      BY <1>1, <1>6, Greatest
    <2>2. Max(s) \in 1 .. n
      BY <2>1
    <2> QED BY <1>1, <2>2
  <1>7. \A a \in Nat, x \in TapePulses : Lengthen[<<a, x>>] = a + x.ticks
    BY DEF Lengthen
  <1>8. Sums(f, q)
    <2>1. ASSUME NEW s \in SUBSET (1 .. n)
          PROVE  f[s] = IF s = {} THEN 0 ELSE f[s \ {Max(s)}] + q[Max(s)].ticks
      <3>1. CASE s = {}
        BY <1>5, <3>1
      <3>2. CASE s # {}
        <4>1. f[s \ {Max(s)}] \in Nat /\ q[Max(s)] \in TapePulses
          BY <1>5, <1>6, <3>2
        <4>2. f[s] = Lengthen[<<f[s \ {Max(s)}], q[Max(s)]>>]
          BY <1>5, <3>2
        <4> QED BY <1>7, <3>2, <4>1, <4>2
      <3> QED BY <3>1, <3>2
    <2>2. f = [s \in SUBSET (1 .. n) |-> f[s]]
      BY <1>5
    <2>3. f = [s \in SUBSET (1 .. n) |-> IF s = {} THEN 0 ELSE f[s \ {Max(s)}] + q[Max(s)].ticks]
      BY <2>1, <2>2
    <2> QED BY <1>1, <2>3 DEF Sums
  <1>9. Sums(h, q)
    BY <1>8
  <1> HIDE DEF h
  <1>10. \A s \in SUBSET (1 .. n) : h[s] = IF s = {} THEN 0 ELSE h[s \ {Max(s)}] + q[Max(s)].ticks
    BY <1>1, <1>9 DEF Sums
  <1>11. Recurs(h, Nat, Lengthen, 0, q)
    <2>1. h[{}] = 0
      BY <1>10
    <2>2. ASSUME NEW s \in SUBSET (1 .. n), s # {}, h[s \ {Max(s)}] \in Nat
          PROVE  h[s] = Lengthen[<<h[s \ {Max(s)}], q[Max(s)]>>]
      <3>1. h[s] = h[s \ {Max(s)}] + q[Max(s)].ticks /\ q[Max(s)] \in TapePulses
        BY <1>6, <1>10, <2>2
      <3> QED BY <1>7, <2>2, <3>1
    <2> QED BY <2>1, <2>2 DEF Recurs, n
  <1>12. h[DOMAIN q] = Folded(Nat, Lengthen, 0, q)
    BY <1>3, <1>11, FoldSettles
  <1> QED BY <1>2, <1>12

LEMMA TotalOn ==
    ASSUME NEW q \in Seq(TapePulses), NEW x \in TapePulses
    PROVE  /\ Total(q) \in Nat /\ Total(<<>>) = 0
           /\ Total(Append(q, x)) = Total(q) + x.ticks
  <1>1. /\ << >> \in Seq(TapePulses) /\ Append(q, x) \in Seq(TapePulses)
    BY AppendProperties
  <1>2. Total(<<>>) = 0
    <2>1. FoldOver(Nat, TapePulses, Lengthen, 0, <<>>)
      BY <1>1, Lengthens
    <2> QED BY <1>1, <2>1, TotalIs, FoldedEmpty
  <1>3. /\ Folded(Nat, Lengthen, 0, q) \in Nat
        /\ Folded(Nat, Lengthen, 0, Append(q, x)) = Lengthen[<<Folded(Nat, Lengthen, 0, q), x>>]
    BY Lengthens, FoldedAppend
  <1>4. Total(q) \in Nat /\ Total(Append(q, x)) = Lengthen[<<Total(q), x>>]
    BY <1>1, <1>3, TotalIs
  <1>5. Lengthen[<<Total(q), x>>] = Total(q) + x.ticks
    BY <1>4 DEF Lengthen
  <1> QED BY <1>2, <1>4, <1>5

(* Where a deck has to be, started at this time from this pulse.            *)
Cues == [at : Nat, from : 1 .. Len(Image) + 1]
Played(d, c) == SubSeq(Image, c.from, d.pos - 1)
OnTime(d, c) ==
    d.playing => /\ d.next_edge = c.at + Total(Played(d, c))
                 /\ Played(d, c) # <<>> => d.level = Last(Played(d, c)).level

Timed(c) == {d \in Decks : c.from <= d.pos /\ OnTime(d, c)}

LEMMA ImageIs ==
    /\ Image \in Seq(TapePulses) /\ Len(Image) \in Nat
    /\ \A i \in 1 .. Len(Image) : Image[i] \in TapePulses /\ Image[i].ticks \in Nat /\ Image[i].level \in BOOLEAN
  <1>1. Image \in Seq(TapePulses)
    BY FramesAssumption DEF TapePulses
  <1>2. Len(Image) \in Nat /\ \A i \in 1 .. Len(Image) : Image[i] \in TapePulses
    BY <1>1, LenProperties, ElementOfSeq
  <1> QED BY <1>1, <1>2 DEF TapePulses

LEMMA PulseKeepsTime ==
    ASSUME NEW c \in Cues, NEW d \in Timed(c), NEW now
    PROVE  OnePulse(d, now) \in Timed(c)
  <1> DEFINE n == Len(Image)
  <1>1. /\ d \in Decks /\ d.pos \in 1 .. n + 1 /\ c.from \in 1 .. n + 1 /\ c.at \in Nat /\ c.from <= d.pos
        /\ OnTime(d, c) /\ n \in Nat /\ d.next_edge \in Nat
    BY ImageIs DEF Timed, Decks, Cues
  <1>2. CASE ~EdgeDue(d, now)
    BY <1>2 DEF OnePulse
  <1>3. CASE EdgeDue(d, now) /\ (d.pos > n \/ Image[d.pos].ticks = 0)
    <2> DEFINE e == OnePulse(d, now)
    <2>1. e = [StopDeck(d) EXCEPT !.done = TRUE] \/ (d.pos <= n /\ e = [StopDeck(d) EXCEPT !.pos = @ + 1])
      BY <1>1, <1>3 DEF OnePulse, NextPulse
    <2>2. StopDeck(d) = [d EXCEPT !.playing = FALSE, !.level = TRUE]
      BY DEF StopDeck
    <2> HIDE DEF e, n
    <2>3. d = [playing |-> d.playing, next_edge |-> d.next_edge, level |-> d.level, pos |-> d.pos, done |-> d.done]
          /\ d.done \in BOOLEAN
      BY <1>1 DEF Decks
    <2>4. CASE e = [StopDeck(d) EXCEPT !.done = TRUE]
      <3>1. e = [playing |-> FALSE, next_edge |-> d.next_edge, level |-> TRUE, pos |-> d.pos, done |-> TRUE]
        BY <2>2, <2>3, <2>4
      <3>2. e \in Decks
        BY <1>1, <3>1 DEF Decks, n
      <3> QED BY <1>1, <3>1, <3>2 DEF Timed, OnTime, e
    <2>5. CASE d.pos <= n /\ e = [StopDeck(d) EXCEPT !.pos = @ + 1]
      <3>1. e = [playing |-> FALSE, next_edge |-> d.next_edge, level |-> TRUE, pos |-> d.pos + 1, done |-> d.done]
        BY <2>2, <2>3, <2>5
      <3>2. d.pos + 1 \in 1 .. n + 1 /\ c.from <= d.pos + 1
        BY <1>1, <2>5
      <3>3. e \in Decks
        BY <1>1, <2>3, <3>1, <3>2 DEF Decks, n
      <3> QED BY <3>1, <3>2, <3>3 DEF Timed, OnTime, e
    <2> QED BY <2>1, <2>4, <2>5
  <1>4. CASE EdgeDue(d, now) /\ d.pos <= n /\ Image[d.pos].ticks # 0
    <2> DEFINE e == OnePulse(d, now)
               x == Image[d.pos]
               q == Played(d, c)
    <2>1. e = [d EXCEPT !.pos = @ + 1, !.level = x.level, !.next_edge = @ + x.ticks]
      BY <1>1, <1>4 DEF OnePulse, NextPulse
    <2>2. d.pos \in 1 .. n /\ x \in TapePulses /\ x.ticks \in Nat /\ x.level \in BOOLEAN
      BY <1>1, <1>4, ImageIs
    <2>3. Played(e, c) = Append(q, x) /\ q \in Seq(TapePulses)
      <3>1. e.pos = d.pos + 1
        BY <1>1, <2>1 DEF Decks
      <3>2. c.from \in 1 .. n /\ d.pos \in c.from .. n
        BY <1>1, <2>2
      <3>3. SubSeq(Image, c.from, d.pos) = SubSeq(Image, c.from, d.pos - 1) \o <<x>>
        BY <3>2, ImageIs, SubSeqRecursiveSecond
      <3>4. q \in Seq(TapePulses)
        <4>1. \A i \in c.from .. d.pos - 1 : Image[i] \in TapePulses
          BY <1>1, <2>2, ImageIs
        <4>2. c.from \in Int /\ d.pos - 1 \in Int
          BY <1>1
        <4> QED BY <4>1, <4>2, SubSeqProperties DEF Played
      <3>5. e.pos - 1 = d.pos
        BY <1>1, <3>1
      <3> QED BY <2>2, <3>3, <3>4, <3>5, AppendIsConcat DEF Played
    <2>4. Total(q) \in Nat /\ Total(Append(q, x)) = Total(q) + x.ticks
      BY <2>2, <2>3, TotalOn
    <2>5. Last(Append(q, x)) = x
      <3>1. Len(Append(q, x)) = Len(q) + 1 /\ Append(q, x)[Len(q) + 1] = x
        BY <2>2, <2>3, AppendProperties
      <3> QED BY <3>1 DEF Last
    <2>6. d.playing /\ d.next_edge = c.at + Total(q)
      BY <1>1, <1>4 DEF EdgeDue, OnTime
    <2> HIDE DEF e, x, q, n
    <2>7. e.pos = d.pos + 1 /\ e.level = x.level /\ e.next_edge = d.next_edge + x.ticks
          /\ e.playing = d.playing /\ e.done = d.done
          /\ e = [playing |-> e.playing, next_edge |-> e.next_edge, level |-> e.level, pos |-> e.pos, done |-> e.done]
      BY <1>1, <2>1 DEF Decks
    <2>8. e.pos \in 1 .. n + 1 /\ e.next_edge \in Nat /\ c.from <= e.pos
      BY <1>1, <2>2, <2>7
    <2>9. e \in Decks
      <3>1. e.playing \in BOOLEAN /\ e.done \in BOOLEAN
        BY <1>1, <2>7 DEF Decks
      <3> QED BY <2>2, <2>7, <2>8, <3>1 DEF Decks, n
    <2>10. e.next_edge = c.at + Total(Append(q, x))
      BY <1>1, <2>2, <2>4, <2>6, <2>7
    <2>11. OnTime(e, c)
      BY <2>3, <2>5, <2>7, <2>10 DEF OnTime
    <2> QED BY <2>8, <2>9, <2>11 DEF Timed, e
  <1> QED BY <1>1, <1>2, <1>3, <1>4

(* Started where it is: nothing has been played yet.                        *)
LEMMA Cued ==
    ASSUME NEW c \in Cues, NEW d \in Decks, d.pos = c.from, d.playing => d.next_edge = c.at
    PROVE  d \in Timed(c)
  <1>1. c.from \in Int /\ d.pos - 1 \in Int /\ d.pos - 1 < c.from /\ c.from <= d.pos /\ c.at \in Nat
    BY ImageIs DEF Cues, Decks
  <1>2. Played(d, c) = <<>>
    BY <1>1, SubSeqEmpty DEF Played
  <1>3. Total(<<>>) = 0
    <2>1. << >> \in Seq(TapePulses) /\ [ticks |-> 0, level |-> TRUE] \in TapePulses
      BY DEF TapePulses
    <2> QED BY <2>1, TotalOn
  <1>4. d.playing => d.next_edge = c.at + Total(Played(d, c))
    BY <1>1, <1>2, <1>3
  <1> QED BY <1>1, <1>2, <1>4 DEF Timed, OnTime

OnTheLine(u, d) == u.ear = IF d.playing THEN {d.level} ELSE {}

Schedule == cue \in Cues /\ tape \in Timed(cue) /\ OnTheLine(ula, tape)

LEMMA ScheduleInit == Init => Schedule
  <1> SUFFICES ASSUME Init PROVE Schedule
    OBVIOUS
  <1>1. cue \in Cues /\ cue.from = 1 /\ cue.at = 0
    BY ImageIs DEF Init, Cues
  <1>2. tape \in Decks /\ tape.pos = 1 /\ tape.playing = FALSE
    BY ImageIs DEF Init, Decks
  <1>3. ula.ear = {}
    BY DEF Init
  <1> QED BY <1>1, <1>2, <1>3, Cued DEF Schedule, OnTheLine

(* The buttons.                                                             *)
LEMMA Pressed ==
    ASSUME Schedule, Clock, PressPlay \/ PressStop \/ PressRewind
    PROVE  Schedule'
  <1> DEFINE d == tape'
  <1>1. OnTheLine(ula', d)
    <2>1. ula' = DriveEar(ula, d)
      BY DEF PressPlay, PressStop, PressRewind, Button
    <2> QED BY <2>1, DrivenShape DEF Clock, OnTheLine
  <1>2. tape \in Decks /\ cue \in Cues /\ tape.pos \in 1 .. Len(Image) + 1 /\ tape.next_edge \in Nat /\ t \in Nat
        /\ tape \in Timed(cue) /\ cue.from <= tape.pos
    BY DEF Schedule, Clock, Timed, Decks
  <1>3. CASE PressPlay /\ tape.done
    <2>1. d = tape /\ cue' = cue
      BY <1>3 DEF PressPlay, Button, Play
    <2> QED BY <1>1, <1>2, <2>1 DEF Schedule
  <1>4. CASE PressPlay /\ ~tape.done
    <2>1. d = [tape EXCEPT !.playing = TRUE, !.next_edge = t] /\ cue' = [at |-> t, from |-> tape.pos]
      BY <1>4 DEF PressPlay, Button, Play
    <2> HIDE DEF d
    <2>2. cue' \in Cues /\ d \in Decks /\ d.pos = cue'.from /\ d.next_edge = cue'.at
      BY <1>2, <2>1 DEF Cues, Decks
    <2> QED BY <1>1, <2>2, Cued DEF Schedule, d
  <1>5. CASE PressStop
    <2>1. d = [tape EXCEPT !.playing = FALSE, !.level = TRUE] /\ cue' = cue
      BY <1>5 DEF PressStop, Button, StopDeck
    <2> HIDE DEF d
    <2>2. d \in Decks /\ d.pos = tape.pos /\ d.playing = FALSE
      BY <1>2, <2>1 DEF Decks
    <2>3. d \in Timed(cue)
      BY <1>2, <2>2 DEF Timed, OnTime
    <2> QED BY <1>1, <1>2, <2>1, <2>3 DEF Schedule, d
  <1>6. CASE PressRewind
    <2>1. d = [tape EXCEPT !.pos = 1, !.done = FALSE] /\ cue' = [at |-> tape.next_edge, from |-> 1]
      BY <1>6 DEF PressRewind, Button, Rewind
    <2> HIDE DEF d
    <2>2. 1 \in 1 .. Len(Image) + 1
      BY ImageIs
    <2>3. cue' \in Cues /\ cue'.from = 1 /\ cue'.at = tape.next_edge
      BY <1>2, <2>1, <2>2 DEF Cues
    <2>4. d \in Decks /\ d.pos = 1 /\ d.next_edge = tape.next_edge
      BY <1>2, <2>1, <2>2 DEF Decks
    <2> QED BY <1>1, <2>3, <2>4, Cued DEF Schedule, d
  <1> QED BY <1>3, <1>4, <1>5, <1>6

(* An event serviced: however many pulses had come due.                     *)
LEMMA Serviced ==
    ASSUME Schedule, Clock, ServiceEvent, UNCHANGED cue
    PROVE  Schedule'
  <1> DEFINE d == tape'
             line == IF EdgeDue(tape, t) THEN DriveEar(ula, d) ELSE ula
  <1>1. d = AdvanceTo(tape, t) /\ ula' = IF FrameDue THEN EndFrame(line, t) ELSE line
    BY DEF ServiceEvent
  <1>2. d \in Timed(cue)
    <2>1. cue \in Cues /\ tape \in Timed(cue)
      BY DEF Schedule
    <2>2. \A e \in Timed(cue) : OnePulse(e, t) \in Timed(cue)
      BY <2>1, PulseKeepsTime
    <2> HIDE DEF d
    <2>3. AdvanceTo(tape, t) \in Timed(cue)
      BY <2>1, <2>2, Advances
    <2> QED BY <1>1, <2>3
  <1>3. ~EdgeDue(tape, t) => d = tape
    <2>1. SUFFICES ASSUME ~EdgeDue(tape, t) PROVE AdvanceTo(tape, t) \in {tape}
      BY <1>1
    <2>2. tape \in {tape} /\ \A e \in {tape} : OnePulse(e, t) \in {tape}
      BY <2>1 DEF OnePulse
    <2> QED BY <2>2, Advances
  <1> HIDE DEF d
  <1>4. UlaShape(line) /\ line.ear = IF d.playing THEN {d.level} ELSE {}
    BY <1>3, DrivenShape DEF Schedule, OnTheLine, Clock
  <1> HIDE DEF line
  <1>5. ula'.ear = line.ear
    BY <1>1, <1>4, EndedShape
  <1> QED BY <1>2, <1>4, <1>5 DEF Schedule, OnTheLine, d

LEMMA ScheduleNext ==
    ASSUME Schedule, Clock, [Next]_vars
    PROVE  Schedule'
  <1>1. CASE UNCHANGED <<tape, cue>> /\ ula'.ear = ula.ear
    BY <1>1 DEF Schedule, OnTheLine
  <1>2. CASE PressPlay \/ PressStop \/ PressRewind
    BY <1>2, Pressed
  <1>3. ASSUME NEW matrix \in Matrices, Keys(matrix) PROVE Schedule'
    <2>1. UNCHANGED <<tape, cue>> /\ ula' = SetKeys(ula, matrix)
      BY <1>3 DEF Keys
    <2>2. ula'.ear = ula.ear
      BY <2>1, SetKeysShape DEF Clock
    <2> QED BY <1>1, <2>1, <2>2
  <1>4. ASSUME NEW i \in Instructions, CpuStep(i) PROVE Schedule'
    <2>1. UNCHANGED <<tape, cue>> /\ (ula' = ula \/ ula' = WritePort(ula, t + i.at, i.value))
      BY <1>4 DEF CpuStep
    <2>2. ula'.ear = ula.ear
      BY <2>1, WrittenShape DEF Clock
    <2> QED BY <1>1, <2>1, <2>2
  <1>5. CASE RunEnds
    <2>1. CASE EventDue
      BY <1>5, <2>1, Serviced DEF RunEnds
    <2>2. CASE ~EventDue
      BY <1>1, <1>5, <2>2 DEF RunEnds
    <2> QED BY <2>1, <2>2
  <1>6. CASE Resume \/ BeginSlice \/ UNCHANGED vars
    BY <1>1, <1>6 DEF Resume, BeginSlice, vars
  <1>7. CASE \E i \in Instructions : Step(i)
    BY <1>4, <1>7 DEF Step
  <1>8. CASE \E i \in Instructions, stops \in BOOLEAN : RunInstruction(i, stops)
    BY <1>4, <1>8 DEF RunInstruction
  <1> QED BY <1>2, <1>3, <1>5, <1>6, <1>7, <1>8 DEF Next

LEMMA ScheduleAlways == Spec => []Schedule
  <1>1. ASSUME Clock, Schedule, [Next]_vars PROVE Schedule'
    BY <1>1, ScheduleNext
  <1> QED BY <1>1, ScheduleInit, ClockAlways, PTL DEF Spec

(* The tape keeps its own time, however late each of its pulses was         *)
(* serviced, and its level is on the EAR line, through every start, stop    *)
(* and rewind.                                                              *)
THEOREM TapeKeepsTime == Spec => []EdgesOnSchedule
  <1>1. ASSUME Schedule PROVE EdgesOnSchedule
    <2>1. tape.playing => /\ tape.next_edge = cue.at + Total(Played(tape, cue))
                          /\ Played(tape, cue) # <<>> => tape.level = Last(Played(tape, cue)).level
      BY <1>1 DEF Schedule, Timed, OnTime
    <2>2. ula.ear = IF tape.playing THEN {tape.level} ELSE {}
      BY <1>1 DEF Schedule, OnTheLine
    <2> QED BY <2>1, <2>2 DEF EdgesOnSchedule, Played, Total
  <1> QED BY <1>1, ScheduleAlways, PTL

-----------------------------------------------------------------------------
(* The types.  That an edge which overran its frame is never before the     *)
(* start of the next rests on the log being in order, which a frame's end   *)
(* cuts in two.                                                             *)

InOrder(log) ==
    /\ LogType(log) /\ Len(log.edges) <= MaxEdges
    /\ \A n \in 1 .. Len(log.edges) : log.edges[n].tick >= 0
    /\ \A m, n \in 1 .. Len(log.edges) : m <= n => log.edges[m].tick <= log.edges[n].tick

LEMMA KeptIsLog == ASSUME NEW log, InOrder(log) PROVE IsLog(log)
  <1> DEFINE e == log.edges
             E == [tick : Nat, levels : Levels]
  <1>1. Len(e) \in Nat /\ DOMAIN e = 1 .. Len(e) /\ e \in Seq(EdgeType)
    BY EdgesOf DEF InOrder
  <1>2. ASSUME NEW n \in 1 .. Len(e) PROVE e[n] \in E
    <2>1. e[n] \in EdgeType /\ e[n].tick \in Int /\ e[n].tick >= 0
      BY <1>2, EdgesOf DEF InOrder
    <2> QED BY <2>1 DEF EdgeType
  <1>3. e \in [1 .. Len(e) -> E]
    <2>1. e \in [1 .. Len(e) -> EdgeType]
      BY <1>1, LenProperties
    <2> HIDE DEF e, E
    <2> QED BY <1>2, <2>1
  <1>4. e \in Seq(E)
    <2> HIDE DEF e, E
    <2> QED BY <1>1, <1>3
  <1>5. log \in [edges : Seq(EdgeType), start : Levels, now : Levels, dropped : Nat]
    BY DEF InOrder, LogType
  <1>6. DOMAIN log = {"edges", "start", "now", "dropped"}
    BY <1>5
  <1> QED BY <1>4, <1>5, <1>6 DEF IsLog, InOrder

LEMMA KeptRecorded ==
    ASSUME NEW log, InOrder(log), NEW tick \in Nat, NEW levels \in Levels,
           \A n \in 1 .. Len(log.edges) : log.edges[n].tick <= tick
    PROVE  InOrder(Record(log, tick, levels))
  <1> DEFINE next == Record(log, tick, levels)
             edge == [tick |-> tick, levels |-> levels]
             k == Len(log.edges)
  <1>1. /\ LogType(next)
        /\ \/ next = log /\ levels = log.now
           \/ next.dropped = log.dropped + 1 /\ next.edges = log.edges
           \/ next.dropped = log.dropped /\ next.edges = Append(log.edges, edge)
    BY Recorded DEF InOrder
  <1>2. k \in Nat /\ \A n \in 1 .. k : log.edges[n].tick \in Int
    BY EdgesOf DEF InOrder
  <1>3. CASE next.edges = log.edges
    BY <1>1, <1>3 DEF InOrder
  <1>4. CASE next.edges # log.edges
    <2>1. next.edges = Append(log.edges, edge)
      BY <1>1, <1>4
    <2>2. k # MaxEdges
      <3>1. SUFFICES ASSUME k = MaxEdges PROVE next.edges = log.edges
        BY <1>4
      <3>2. next = log \/ next = [log EXCEPT !.now = levels, !.dropped = @ + 1]
        BY <3>1 DEF Record
      <3> HIDE DEF next
      <3> QED BY <3>2 DEF InOrder, LogType
    <2>3. edge \in EdgeType /\ log.edges \in Seq(EdgeType)
      <3>1. log.edges \in Seq(EdgeType)
        BY EdgesOf DEF InOrder
      <3>2. edge \in EdgeType
        BY DEF EdgeType
      <3> QED BY <3>1, <3>2
    <2> HIDE DEF next
    <2>4. /\ Len(next.edges) = k + 1 /\ next.edges[k + 1].tick = tick
          /\ \A n \in 1 .. k : next.edges[n] = log.edges[n]
      <3>1. Len(next.edges) = k + 1 /\ next.edges[k + 1] = edge
            /\ \A n \in 1 .. k : next.edges[n] = log.edges[n]
        BY <2>1, <2>3, AppendProperties
      <3> QED BY <3>1
    <2>5. k + 1 <= MaxEdges
      BY <1>2, <2>2, MaxEdgesAssumption DEF InOrder
    <2>6. ASSUME NEW n \in 1 .. k + 1 PROVE next.edges[n].tick >= 0 /\ next.edges[n].tick <= tick
      <3>1. CASE n \in 1 .. k
        BY <2>4, <3>1 DEF InOrder
      <3>2. CASE n = k + 1
        BY <2>4, <3>2
      <3> QED BY <1>2, <3>1, <3>2
    <2>7. ASSUME NEW m \in 1 .. k + 1, NEW n \in 1 .. k + 1, m <= n
          PROVE  next.edges[m].tick <= next.edges[n].tick
      <3>1. CASE n \in 1 .. k
        <4>1. m \in 1 .. k
          BY <1>2, <2>7, <3>1
        <4> QED BY <2>4, <2>7, <3>1, <4>1 DEF InOrder
      <3>2. CASE n = k + 1
        BY <2>4, <2>6, <3>2
      <3> QED BY <1>2, <3>1, <3>2
    <2> HIDE DEF k
    <2> QED BY <1>1, <2>4, <2>5, <2>6, <2>7 DEF InOrder, next
  <1> QED BY <1>3, <1>4

LEMMA KeptRolled ==
    ASSUME NEW log, InOrder(log), NEW frame \in Nat
    PROVE  InOrder(Roll(log, frame))
  <1> DEFINE next == Roll(log, frame)
             split == Inside(log, frame)
             k == Len(log.edges)
             rest == k - split
  <1>1. /\ LogType(next) /\ rest \in Nat /\ Len(next.edges) = rest
        /\ \A n \in 1 .. rest : next.edges[n].tick = log.edges[split + n].tick - frame
    BY Rolled DEF InOrder
  <1>2. split \in 0 .. k /\ (split < k => log.edges[split + 1].tick >= frame)
    BY InsideIs DEF InOrder
  <1>3. k \in Nat /\ \A n \in 1 .. k : log.edges[n].tick \in Int
    BY EdgesOf DEF InOrder
  <1>4. k <= MaxEdges /\ \A m, n \in 1 .. k : m <= n => log.edges[m].tick <= log.edges[n].tick
    BY DEF InOrder
  <1> HIDE DEF next, split, k
  <1>5. rest <= MaxEdges
    BY <1>2, <1>3, <1>4, MaxEdgesAssumption
  <1>6. ASSUME NEW n \in 1 .. rest PROVE split + n \in 1 .. k /\ split + 1 \in 1 .. k /\ split < k
    BY <1>1, <1>2, <1>3, <1>6
  <1>7. ASSUME NEW n \in 1 .. rest PROVE next.edges[n].tick >= 0
    <2>1. log.edges[split + 1].tick >= frame /\ log.edges[split + 1].tick <= log.edges[split + n].tick
      BY <1>2, <1>4, <1>6
    <2>2. log.edges[split + 1].tick \in Int /\ log.edges[split + n].tick \in Int
      BY <1>3, <1>6
    <2>3. next.edges[n].tick = log.edges[split + n].tick - frame
      BY <1>1
    <2> QED BY <2>1, <2>2, <2>3
  <1>8. ASSUME NEW m \in 1 .. rest, NEW n \in 1 .. rest, m <= n
        PROVE  next.edges[m].tick <= next.edges[n].tick
    <2>1. split + m \in 1 .. k /\ split + n \in 1 .. k /\ split + m <= split + n
      BY <1>2, <1>6, <1>8
    <2>2. log.edges[split + m].tick <= log.edges[split + n].tick
      BY <1>4, <2>1
    <2>3. log.edges[split + m].tick \in Int /\ log.edges[split + n].tick \in Int
      BY <1>3, <2>1
    <2>4. next.edges[m].tick = log.edges[split + m].tick - frame
          /\ next.edges[n].tick = log.edges[split + n].tick - frame
      BY <1>1
    <2> DEFINE x == log.edges[split + m].tick
               y == log.edges[split + n].tick
    <2> HIDE DEF x, y
    <2>5. x \in Int /\ y \in Int /\ x <= y
      BY <2>2, <2>3 DEF x, y
    <2>6. x - frame <= y - frame
      BY <2>5
    <2> QED BY <2>4, <2>6 DEF x, y
  <1> HIDE DEF rest
  <1> QED BY <1>1, <1>5, <1>7, <1>8 DEF InOrder, next

Picture == [0 .. Lines - 1 -> Colours]

Coloured ==
    /\ ula.border \in Colours /\ ula.lines \in Picture
    /\ ula.presented \in Picture /\ painted \in Picture

LEMMA StripedIs ==
    ASSUME NEW lines \in Picture, NEW filled, NEW border \in Colours, NEW line
    PROVE  Striped(lines, filled, border, line) \in Picture
  BY DEF Striped, Picture

LEMMA KeptInit == Init => InOrder(ula.log) /\ Coloured
  <1> SUFFICES ASSUME Init PROVE InOrder(ula.log) /\ Coloured
    OBVIOUS
  <1>1. ula.log = EmptyLog /\ LogType(ula.log)
    BY SoundsInit DEF Init, Sounds
  <1>2. Len(ula.log.edges) = 0
    BY <1>1, EmptySeq DEF EmptyLog
  <1>3. InOrder(ula.log)
    BY <1>1, <1>2, MaxEdgesAssumption DEF InOrder
  <1>4. 0 \in Colours
    BY DEF Colours
  <1> QED BY <1>3, <1>4 DEF Init, Coloured, Picture

LEMMA KeptSteps ==
    ASSUME Clock, Sounds, InOrder(ula.log), Coloured, [Next]_vars
    PROVE  InOrder(ula'.log) /\ Coloured'
  <1>1. CASE Elsewhere
    BY <1>1 DEF Elsewhere, Beam, Coloured
  <1>2. ASSUME NEW i \in Instructions, Writes(i) PROVE InOrder(ula'.log) /\ Coloured'
    <2> DEFINE tick == (t + i.at) - ula.frame_start
               log == ula.log
    <2>1. tick \in Nat /\ t \in Nat /\ ula.frame_start \in Nat /\ i.at \in Nat
      <3>1. i.op = "out"
        BY <1>2 DEF Writes
      <3>2. t \in Nat /\ ula.frame_start \in Nat /\ ula.frame_start <= t
        BY Durations DEF Clock
      <3>3. i.at \in Nat
        BY <3>1, Durations
      <3> QED BY <3>2, <3>3
    <2>2. LevelsOf(i.value) \in Levels
      <3>1. i.value.speaker \in BOOLEAN /\ i.value.mic \in BOOLEAN
        BY <1>2, FramesAssumption DEF Writes
      <3> QED BY <3>1 DEF Levels, LevelsOf
    <2>3. ula'.log = Record(log, tick, LevelsOf(i.value))
      BY <1>2 DEF Writes
    <2>4. ASSUME NEW n \in 1 .. Len(log.edges) PROVE log.edges[n].tick <= tick
      <3>1. log.edges[n].tick <= t - ula.frame_start /\ log.edges[n].tick \in Int
        BY EdgesOf DEF Sounds
      <3>2. t - ula.frame_start <= tick
        BY <2>1
      <3> DEFINE x == log.edges[n].tick
      <3> HIDE DEF x, tick
      <3>3. x \in Int /\ x <= t - ula.frame_start
        BY <3>1 DEF x
      <3>4. x <= tick
        BY <2>1, <3>2, <3>3
      <3> QED BY <3>4 DEF x
    <2> HIDE DEF tick, log
    <2>5. InOrder(log)
      BY DEF log
    <2>6. InOrder(ula'.log)
      BY <2>1, <2>2, <2>3, <2>4, <2>5, KeptRecorded
    <2>7. i.value.colour \in Colours /\ ula'.border = i.value.colour
      BY <1>2 DEF Colours, Writes
    <2>8. ula'.lines \in Picture /\ ula'.presented = ula.presented /\ painted' = painted
      BY <1>2, StripedIs DEF Writes, Coloured
    <2> QED BY <2>6, <2>7, <2>8 DEF Coloured
  <1>3. CASE Ends
    <2>1. ula'.log = Roll(ula.log, FrameTime) /\ ula'.border = ula.border
          /\ ula'.lines = Striped(ula.lines, ula.filled, ula.border, Lines)
          /\ ula'.presented = ula'.lines /\ painted' = ula'.presented
      BY <1>3 DEF Ends
    <2>2. InOrder(Roll(ula.log, FrameTime))
      BY Durations, KeptRolled
    <2>3. ula'.lines \in Picture
      BY <2>1, StripedIs DEF Coloured
    <2> QED BY <2>1, <2>2, <2>3 DEF Coloured
  <1> QED BY <1>1, <1>2, <1>3, Kinds

(* What the commands and the processor keep.                                *)
Desk ==
    /\ cpu \in [iff1 : BOOLEAN, ei_pending : BOOLEAN]
    /\ loop \in [state : {"Paused", "Running"}, running : BOOLEAN, target : Nat]
    /\ ula.keyboard \in Matrices \cup {0} /\ ula.pending \subseteq Matrices
    /\ commands \in Nat /\ commands <= MaxCommands /\ Len(writes) \in Nat /\ Len(writes) <= MaxWrites

LEMMA DeskInit == Init => Desk
  <1> SUFFICES ASSUME Init PROVE Desk
    OBVIOUS
  <1>1. MaxCommands \in Nat /\ MaxWrites \in Nat /\ Len(<<>>) = 0
    BY FramesAssumption, EmptySeq
  <1> QED BY <1>1 DEF Init, Desk

LEMMA DeskCpu ==
    ASSUME Clock, Desk, Written, NEW i \in Instructions, CpuStep(i)
    PROVE  /\ cpu' \in [iff1 : BOOLEAN, ei_pending : BOOLEAN]
           /\ ula'.keyboard = ula.keyboard /\ ula'.pending = ula.pending
           /\ Len(writes') \in Nat /\ Len(writes') <= MaxWrites
  <1>1. /\ cpu' = [cpu EXCEPT !.iff1 = FALSE]
           \/ cpu' = [iff1 |-> IF i.op = "ei" THEN TRUE ELSE IF i.op = "di" THEN FALSE ELSE cpu.iff1,
                      ei_pending |-> i.op = "ei" /\ ~cpu.ei_pending]
        /\ UNCHANGED <<ula, writes>>
           \/ /\ i.op = "out" /\ ula' = WritePort(ula, t + i.at, i.value)
              /\ Len(writes) < MaxWrites
              /\ writes' = Append(writes, [at |-> t + i.at, value |-> i.value])
    BY DEF CpuStep
  <1>2. cpu' \in [iff1 : BOOLEAN, ei_pending : BOOLEAN]
    <2>1. cpu \in [iff1 : BOOLEAN, ei_pending : BOOLEAN]
      BY DEF Desk
    <2>2. cpu.iff1 \in BOOLEAN /\ (i.op = "ei" /\ ~cpu.ei_pending) \in BOOLEAN
      BY <2>1
    <2>3. (IF i.op = "ei" THEN TRUE ELSE IF i.op = "di" THEN FALSE ELSE cpu.iff1) \in BOOLEAN
      BY <2>2
    <2>4. CASE cpu' = [cpu EXCEPT !.iff1 = FALSE]
      BY <2>1, <2>4
    <2>5. CASE cpu' = [iff1 |-> IF i.op = "ei" THEN TRUE ELSE IF i.op = "di" THEN FALSE ELSE cpu.iff1,
                       ei_pending |-> i.op = "ei" /\ ~cpu.ei_pending]
      BY <2>2, <2>3, <2>5
    <2> QED BY <1>1, <2>4, <2>5
  <1>3. ula'.keyboard = ula.keyboard /\ ula'.pending = ula.pending
    BY <1>1, WrittenShape DEF Clock
  <1>4. CASE writes' = writes
    BY <1>2, <1>3, <1>4 DEF Desk
  <1>5. CASE i.op = "out" /\ Len(writes) < MaxWrites
             /\ writes' = Append(writes, [at |-> t + i.at, value |-> i.value])
    <2>1. [at |-> t + i.at, value |-> i.value] \in [at : Nat, value : Values]
      BY <1>5, Durations DEF Clock, Values
    <2>2. Len(writes') = Len(writes) + 1
      BY <1>5, <2>1, AppendProperties DEF Written
    <2>3. MaxWrites \in Nat
      BY FramesAssumption
    <2> QED BY <1>2, <1>3, <1>5, <2>2, <2>3 DEF Desk
  <1> QED BY <1>1, <1>4, <1>5

LEMMA DeskSteps ==
    ASSUME Clock, Written, Desk, [Next]_vars
    PROVE  Desk'
  <1>1. MaxCommands \in Nat /\ Interval \in Nat /\ t \in Nat
    BY FramesAssumption DEF Clock
  <1>2. ASSUME Command PROVE commands' \in Nat /\ commands' <= MaxCommands
    BY <1>1, <1>2 DEF Command, Desk
  <1>3. CASE Resume
    BY <1>2, <1>3 DEF Resume, Desk
  <1>4. ASSUME NEW d, Button(d) PROVE Desk'
    <2>1. Command /\ ula' = DriveEar(ula, d) /\ UNCHANGED <<cpu, loop, writes>>
      BY <1>4 DEF Button
    <2>2. ula'.keyboard = ula.keyboard /\ ula'.pending = ula.pending
      BY <2>1, DrivenShape DEF Clock
    <2> QED BY <1>2, <2>1, <2>2 DEF Desk
  <1>5. CASE PressPlay \/ PressStop \/ PressRewind
    BY <1>4, <1>5 DEF PressPlay, PressStop, PressRewind
  <1>6. ASSUME NEW matrix \in Matrices, Keys(matrix) PROVE Desk'
    <2>1. Command /\ ula' = SetKeys(ula, matrix) /\ UNCHANGED <<cpu, loop, writes>>
      BY <1>6 DEF Keys
    <2>2. ula'.keyboard = ula.keyboard /\ ula'.pending = {matrix}
      BY <2>1, SetKeysShape DEF Clock
    <2> QED BY <1>2, <2>1, <2>2 DEF Desk
  <1>7. ASSUME NEW i \in Instructions, Step(i) PROVE Desk'
    <2>1. Command /\ CpuStep(i) /\ loop' = [loop EXCEPT !.state = "Paused"]
      BY <1>7 DEF Step
    <2> QED BY <1>2, <2>1, DeskCpu DEF Desk
  <1>8. CASE BeginSlice
    <2>1. loop' = [loop EXCEPT !.running = TRUE, !.target = t + Interval] /\ t + Interval \in Nat
      BY <1>1, <1>8 DEF BeginSlice
    <2> QED BY <1>8, <2>1 DEF BeginSlice, Desk
  <1>9. CASE RunEnds
    <2> DEFINE line == IF EdgeDue(tape, t) THEN DriveEar(ula, tape') ELSE ula
    <2>1. UlaShape(line) /\ line.keyboard = ula.keyboard /\ line.pending = ula.pending
      BY DrivenShape DEF Clock
    <2>2. ula' = ula \/ ula' = line \/ ula' = EndFrame(line, t)
      BY <1>9 DEF RunEnds, ServiceEvent
    <2> HIDE DEF line
    <2>3. ula'.keyboard \in {ula.keyboard} \cup ula.pending /\ ula'.pending \in {{}, ula.pending}
      BY <2>1, <2>2, EndedShape
    <2>4. loop' \in [state : {"Paused", "Running"}, running : BOOLEAN, target : Nat]
      <3>1. loop' = [loop EXCEPT !.running = t < loop.target] /\ (t < loop.target) \in BOOLEAN
        BY <1>9 DEF RunEnds
      <3> QED BY <3>1 DEF Desk
    <2>5. UNCHANGED <<cpu, commands, writes>>
      BY <1>9 DEF RunEnds
    <2> QED BY <2>3, <2>4, <2>5 DEF Desk
  <1>10. ASSUME NEW i \in Instructions, NEW stops \in BOOLEAN, RunInstruction(i, stops) PROVE Desk'
    <2>1. CpuStep(i) /\ UNCHANGED commands
          /\ loop' = IF stops THEN [loop EXCEPT !.running = FALSE, !.state = "Paused"] ELSE loop
      BY <1>10 DEF RunInstruction
    <2> QED BY <2>1, DeskCpu DEF Desk
  <1>11. CASE UNCHANGED vars
    BY <1>11 DEF vars, Desk
  <1> QED BY <1>3, <1>5, <1>6, <1>7, <1>8, <1>9, <1>10, <1>11 DEF Next

(* Every state is of its types: the frame counted is the clock's, an edge   *)
(* is never before the frame it is in, nor are there more than the log has  *)
(* room for, and there is a level of sound for each T-state gone by.        *)
THEOREM FramesTypeCorrect == Spec => []TypeOK
  <1> DEFINE Typed == InOrder(ula.log) /\ Coloured /\ Desk
  <1>1. Init => Typed
    BY KeptInit, DeskInit
  <1>2. ASSUME Clock, Written, Sounds, Typed, [Next]_vars PROVE Typed'
    BY <1>2, KeptSteps, DeskSteps
  <1>3. ASSUME Clock, Stripes, Sounds, Schedule, Typed PROVE TypeOK
    <2>1. IsLog(ula.log)
      BY <1>3, KeptIsLog
    <2>2. tape \in Decks /\ tape.level \in BOOLEAN /\ ula.ear \subseteq BOOLEAN
      BY <1>3 DEF Schedule, Timed, OnTheLine, Decks
    <2>3. {ula.lines, ula.presented, painted} \subseteq [0 .. Lines - 1 -> Colours] /\ ula.border \in Colours
      BY <1>3 DEF Coloured, Picture
    <2>4. ula.filled \in 0 .. Lines
      BY <1>3 DEF Stripes
    <2>5. Len(sound) = ula.frame_start
      BY <1>3 DEF Sounds
    <2>6. t \in Nat /\ ula.frame_start = FrameTime * ula.frames /\ ula.frame_start <= t
      BY <1>3 DEF Clock
    <2>7. Desk
      BY <1>3
    <2> QED BY <2>1, <2>2, <2>3, <2>4, <2>5, <2>6, <2>7 DEF TypeOK, Desk, Decks
  <1> HIDE DEF Typed
  <1>4. Spec => []Typed
    BY <1>1, <1>2, ClockAlways, WrittenAlways, SoundsAlways, PTL DEF Spec
  <1>5. Spec => []Schedule
    BY ScheduleAlways
  <1> QED BY <1>3, <1>4, <1>5, ClockAlways, StripesAlways, SoundsAlways, PTL

-----------------------------------------------------------------------------
(* What the edges become: the recorder, whatever the line does, for pulses   *)
(* of any length, lengths and tolerance of any machine, and any buffer.      *)

\* What is read of the block in progress is a payload of the buffer.
RecorderInv == RecorderTypeOK /\ BlocksTile

\* Where the buffer is used up to is a number.
LEMMA EndNat == ASSUME RecorderTypeOK PROVE End \in Nat
<1>1. CASE blocks = <<>>
    BY <1>1 DEF End
<1>2. CASE blocks # <<>>
  <2>1. blocks \in Seq([at : Nat, len : Nat])
      BY DEF RecorderTypeOK
  <2>2. Len(blocks) \in 1 .. Len(blocks)
      BY <1>2, <2>1, EmptySeq
  <2>3. blocks[Len(blocks)] \in [at : Nat, len : Nat]
      BY <2>1, <2>2, ElementOfSeq
  <2>. QED BY <1>2, <2>3 DEF End
<1>. QED BY <1>1, <1>2

\* A step that leaves the bytes and the blocks alone, on this side of the data.
LEMMA RecorderWaits ==
    ASSUME RecorderInv, state # "Data", state' \in {"Idle", "Pilot", "Sync"}, pilots' \in Nat,
           listening' \in BOOLEAN,
           UNCHANGED <<byte, bits, half, bytes, blocks, start, spilled, dropped, lost>>
    PROVE  RecorderInv'
BY DEF RecorderInv, RecorderTypeOK, BlocksTile, End

\* A step within a block: what was read of it may have grown.
LEMMA RecorderReads ==
    ASSUME RecorderInv, state = "Data", bytes' \in Seq(0 .. 255), Len(bytes') >= Len(bytes),
           byte' \in 0 .. 255, bits' \in 0 .. 7, half' \in {0, 1, None},
           spilled' \in BOOLEAN, dropped' \in Nat, listening' \in BOOLEAN,
           UNCHANGED <<state, pilots, blocks, start, lost>>
    PROVE  RecorderInv'
BY DEF RecorderInv, RecorderTypeOK, BlocksTile, End

\* The front of the buffer is a buffer.
LEMMA FrontPart ==
    ASSUME RecorderTypeOK, start <= Len(bytes)
    PROVE  SubSeq(bytes, 1, start) \in Seq(0 .. 255) /\ Len(SubSeq(bytes, 1, start)) = start
<1>1. bytes \in Seq(0 .. 255) /\ start \in Nat
    BY DEF RecorderTypeOK
<1>2. ASSUME NEW i \in 1 .. start PROVE bytes[i] \in 0 .. 255
  <2>1. i \in 1 .. Len(bytes)
      BY <1>1, LenProperties
  <2>. QED BY <1>1, <2>1, ElementOfSeq
<1>. QED BY <1>1, <1>2, SubSeqProperties

\* What the end of a block resets is of its type.
LEMMA QuietTypes ==
    ASSUME Quiesce, RecorderTypeOK
    PROVE  /\ state' \in {"Idle", "Pilot", "Sync", "Data"}
           /\ pilots' \in Nat /\ byte' \in 0 .. 255 /\ bits' \in 0 .. 7 /\ half' \in {0, 1, None}
           /\ spilled' \in BOOLEAN /\ start' \in Nat /\ dropped' \in Nat
<1>1. spilled' \in BOOLEAN
    BY Zenon DEF Quiesce
<1>. QED BY <1>1 DEF Quiesce, RecorderTypeOK, None

\* Throwing the block away leaves the buffer as it was before it.
LEMMA AbandonKeeps ==
    ASSUME RecorderInv, Abandon, listening' \in BOOLEAN
    PROVE  RecorderInv'
<1>. USE DEF RecorderInv
<1>1. CASE state = "Data" /\ Len(bytes) > start
  <2>1. bytes' = SubSeq(bytes, 1, start) /\ lost' = lost + 1 /\ blocks' = blocks
      BY <1>1 DEF Abandon, BeforeBlock
  <2>2. bytes' \in Seq(0 .. 255) /\ Len(bytes') = start
      BY <1>1, <2>1, FrontPart DEF RecorderTypeOK
  <2>3. RecorderTypeOK'
      BY <2>1, <2>2, QuietTypes DEF Abandon, RecorderTypeOK
  <2>. QED BY <1>1, <2>1, <2>2, <2>3 DEF Abandon, Quiesce, BlocksTile, End
<1>2. CASE ~(state = "Data" /\ Len(bytes) > start)
  <2>1. UNCHANGED <<bytes, blocks, lost>>
      BY <1>2 DEF Abandon
  <2>2. Len(bytes) = End
      BY <1>2 DEF BlocksTile, RecorderTypeOK
  <2>3. RecorderTypeOK'
      BY <2>1, QuietTypes DEF Abandon, RecorderTypeOK
  <2>. QED BY <2>1, <2>2, <2>3 DEF Abandon, Quiesce, BlocksTile, End
<1>. QED BY <1>1, <1>2

\* The end of a block publishes it or throws it away.
LEMMA FinishKeeps ==
    ASSUME RecorderInv, Finish, listening' \in BOOLEAN
    PROVE  RecorderInv'
<1>. USE DEF RecorderInv
<1>. DEFINE len == Len(bytes) - start
            whole == bits = 0 /\ ~spilled /\ len > 0
<1>1. CASE state # "Data"
    BY <1>1, RecorderWaits DEF Finish
<1>2. CASE state = "Data" /\ whole /\ Len(blocks) < BlockRoom
  <2>1. /\ Quiesce
        /\ blocks' = Append(blocks, [at |-> start, len |-> len])
        /\ UNCHANGED <<bytes, lost>>
      BY <1>2 DEF Finish
  <2>2. start \in Nat /\ len \in Nat /\ len > 0 /\ Len(bytes) \in Nat
      BY <1>2 DEF RecorderTypeOK
  <2>3. /\ blocks' \in Seq([at : Nat, len : Nat])
        /\ Len(blocks') = Len(blocks) + 1
        /\ blocks'[Len(blocks) + 1] = [at |-> start, len |-> len]
        /\ \A i \in 1 .. Len(blocks) : blocks'[i] = blocks[i]
      BY <2>1, <2>2 DEF RecorderTypeOK
  <2>4. RecorderTypeOK'
      BY <2>1, <2>3, QuietTypes DEF RecorderTypeOK
  <2>5. End' = Len(bytes)
      BY <2>2, <2>3 DEF End
  <2>6. ASSUME NEW i \in DOMAIN blocks'
        PROVE  /\ blocks'[i].len > 0
               /\ blocks'[i].at = IF i = 1 THEN 0 ELSE blocks'[i - 1].at + blocks'[i - 1].len
    <3>1. DOMAIN blocks' = 1 .. Len(blocks) + 1 /\ DOMAIN blocks = 1 .. Len(blocks)
          /\ Len(blocks) \in Nat
        BY <2>3 DEF RecorderTypeOK
    <3>2. CASE i \in 1 .. Len(blocks)
      <4>1. i # 1 => i - 1 \in 1 .. Len(blocks)
          BY <3>2, <3>1
      <4>2. /\ blocks[i].len > 0
            /\ blocks[i].at = IF i = 1 THEN 0 ELSE blocks[i - 1].at + blocks[i - 1].len
          BY <3>2, <3>1 DEF BlocksTile
      <4>. QED BY <2>3, <3>2, <4>1, <4>2
    <3>3. CASE i = Len(blocks) + 1
      <4>1. blocks'[i].len > 0 /\ blocks'[i].at = start /\ start = End
          BY <1>2, <2>2, <2>3, <3>3 DEF BlocksTile
      <4>2. CASE i = 1
        <5>1. blocks = <<>>
            BY <3>1, <3>3, <4>2 DEF RecorderTypeOK
        <5>. QED BY <4>1, <4>2, <5>1 DEF End
      <4>3. CASE i # 1
        <5>1. i - 1 = Len(blocks) /\ Len(blocks) \in 1 .. Len(blocks) /\ blocks # <<>>
            BY <3>1, <3>3, <4>3
        <5>2. End = blocks[Len(blocks)].at + blocks[Len(blocks)].len
            BY <5>1 DEF End
        <5>. QED BY <2>3, <4>1, <4>3, <5>1, <5>2
      <4>. QED BY <4>2, <4>3
    <3>. QED BY <3>1, <3>2, <3>3
  <2>. QED BY <2>1, <2>4, <2>5, <2>6 DEF Quiesce, BlocksTile
<1>3. CASE state = "Data" /\ ~(whole /\ Len(blocks) < BlockRoom)
  <2>1. /\ Quiesce
        /\ bytes' = SubSeq(bytes, 1, start)
        /\ lost' \in {lost, lost + 1}
        /\ blocks' = blocks
      BY <1>3 DEF Finish, BeforeBlock
  <2>2. bytes' \in Seq(0 .. 255) /\ Len(bytes') = start
      BY <1>3, <2>1, FrontPart DEF BlocksTile, RecorderTypeOK
  <2>3. RecorderTypeOK'
      BY <2>1, <2>2, QuietTypes DEF RecorderTypeOK
  <2>. QED BY <1>3, <2>1, <2>2, <2>3 DEF Quiesce, BlocksTile, End
<1>. QED BY <1>1, <1>2, <1>3

\* Half a bit more: read, complete a byte, or spoil the block.
LEMMA HalfBitKeeps ==
    ASSUME RecorderInv, state = "Data", NEW bit \in {0, 1}, HalfBit(bit), listening' \in BOOLEAN
    PROVE  RecorderInv'
<1>. USE DEF RecorderInv
<1>. DEFINE value == (2 * byte + bit) % 256
<1>1. value \in 0 .. 255
    BY DEF RecorderTypeOK
<1>2. CASE half = None
    BY <1>2, RecorderReads DEF HalfBit, RecorderTypeOK
<1>3. CASE half # None /\ half # bit
    BY <1>3, AbandonKeeps DEF HalfBit
<1>4. CASE half # None /\ half = bit /\ bits = 7
  <2>1. Push(value)
      BY <1>4 DEF HalfBit
  <2>2. bytes' \in Seq(0 .. 255) /\ Len(bytes') >= Len(bytes)
        /\ spilled' \in BOOLEAN /\ dropped' \in Nat
    <3>1. CASE Len(bytes) = ByteRoom
      <4>1. spilled' \in BOOLEAN
          BY <2>1, <3>1, Zenon DEF Push
      <4>. QED BY <2>1, <3>1, <4>1 DEF Push, RecorderTypeOK
    <3>2. CASE Len(bytes) # ByteRoom
      <4>1. bytes' = Append(bytes, value) /\ dropped' = dropped /\ spilled' = spilled
          BY <2>1, <3>2 DEF Push
      <4>2. bytes \in Seq(0 .. 255)
          BY DEF RecorderTypeOK
      <4>3. bytes' \in Seq(0 .. 255) /\ Len(bytes') = Len(bytes) + 1 /\ Len(bytes) \in Nat
          BY <1>1, <4>1, <4>2, AppendProperties, LenProperties
      <4>. QED BY <4>1, <4>3 DEF RecorderTypeOK
    <3>. QED BY <3>1, <3>2
  <2>. QED BY <2>1, <2>2, RecorderReads DEF Push, None
<1>5. CASE half # None /\ half = bit /\ bits # 7
  <2>1. half' = None /\ byte' = value /\ bits' = bits + 1
        /\ UNCHANGED <<state, pilots, bytes, blocks, start, spilled, dropped, lost>>
      BY <1>5 DEF HalfBit
  <2>. QED BY <1>1, <1>5, <2>1, RecorderReads DEF RecorderTypeOK, None
<1>. QED BY <1>2, <1>3, <1>4, <1>5

\* One level, in each of the four states.
LEMMA PulseKeeps ==
    ASSUME RecorderInv, NEW ticks \in Nat, Pulse(ticks), listening' \in BOOLEAN
    PROVE  RecorderInv'
<1>1. CASE ticks > Gap
    BY <1>1, FinishKeeps DEF Pulse
<1>2. CASE state = "Idle" /\ CountPilot(ticks)
    BY <1>2, RecorderWaits DEF CountPilot, Become, RecorderInv, RecorderTypeOK
<1>3. CASE state = "Pilot" /\ FindSync(ticks)
  <2>1. CASE Abandon
      BY <2>1, AbandonKeeps
  <2>2. CASE ~Abandon
      BY <1>3, <2>2, RecorderWaits DEF FindSync, Become, RecorderInv, RecorderTypeOK
  <2>. QED BY <2>1, <2>2
<1>4. CASE state = "Sync" /\ FindSecond(ticks)
  <2>1. CASE Near(ticks, Lengths.sync_second)
    <3>1. /\ state' = "Data" /\ start' = Len(bytes) /\ spilled' = FALSE
          /\ bits' = 0 /\ byte' = 0 /\ half' = None
          /\ UNCHANGED <<pilots, bytes, blocks, dropped, lost>>
        BY <1>4, <2>1 DEF FindSecond
    <3>2. Len(bytes) = End
        BY <1>4 DEF RecorderInv, BlocksTile
    <3>3. spilled' \in BOOLEAN
        BY <3>1, Zenon
    <3>4. RecorderTypeOK'
        BY <3>1, <3>3 DEF RecorderInv, RecorderTypeOK, None
    <3>. QED BY <3>1, <3>2, <3>4 DEF RecorderInv, BlocksTile, End, RecorderTypeOK
  <2>2. CASE ~Near(ticks, Lengths.sync_second)
      BY <1>4, <2>2, AbandonKeeps DEF FindSecond
  <2>. QED BY <2>1, <2>2
<1>5. CASE state = "Data" /\ ReadData(ticks)
  <2>1. CASE HalfBit(0)
      BY <1>5, <2>1, HalfBitKeeps
  <2>2. CASE HalfBit(1)
      BY <1>5, <2>2, HalfBitKeeps
  <2>3. CASE Finish
      BY <2>3, FinishKeeps
  <2>4. CASE Abandon
      BY <2>4, AbandonKeeps
  <2>. QED BY <1>5, <2>1, <2>2, <2>3, <2>4 DEF ReadData
<1>. QED BY <1>1, <1>2, <1>3, <1>4, <1>5 DEF Pulse

\* The recorder begins with an empty buffer.
LEMMA RecorderStarts == RecorderInit => RecorderInv
<1>. SUFFICES ASSUME RecorderInit PROVE RecorderInv
    OBVIOUS
<1>1. listening \in BOOLEAN /\ spilled \in BOOLEAN
    BY Zenon DEF RecorderInit
<1>2. bytes \in Seq(0 .. 255) /\ blocks \in Seq([at : Nat, len : Nat])
    BY EmptySeq DEF RecorderInit
<1>. QED BY <1>1, <1>2 DEF RecorderInit, RecorderInv, RecorderTypeOK, BlocksTile, End, None

\* And clearing it takes it back there.
LEMMA ClearKeeps == Clear => RecorderInv'
<1>. SUFFICES ASSUME Clear PROVE RecorderInv'
    OBVIOUS
<1>1. listening' \in BOOLEAN /\ spilled' \in BOOLEAN
    BY Zenon DEF Clear
<1>2. bytes' \in Seq(0 .. 255) /\ blocks' \in Seq([at : Nat, len : Nat])
    BY EmptySeq DEF Clear
<1>. QED BY <1>1, <1>2 DEF Clear, RecorderInv, RecorderTypeOK, BlocksTile, End, None

\* Every operation keeps the list and the buffer together.
LEMMA RecorderStep == RecorderAssumption /\ RecorderInv /\ [RecorderNext]_recorder => RecorderInv'
<1>. SUFFICES ASSUME RecorderAssumption, RecorderInv, [RecorderNext]_recorder PROVE RecorderInv'
    OBVIOUS
<1>1. ASSUME NEW ticks \in Pulses, Edge(ticks) PROVE RecorderInv'
  <2>1. ticks \in Nat
      BY <1>1 DEF RecorderAssumption
  <2>2. CASE listening
      BY <1>1, <2>1, <2>2, PulseKeeps DEF Edge
  <2>3. CASE ~listening
      BY <1>1, <2>3 DEF Edge, RecorderInv, RecorderTypeOK, BlocksTile, End
  <2>. QED BY <2>2, <2>3
<1>2. ASSUME NEW ticks \in Pulses, Idle(ticks) PROVE RecorderInv'
  <2>1. CASE listening /\ ticks > Gap
      BY <1>2, <2>1, FinishKeeps DEF Idle
  <2>2. CASE ~(listening /\ ticks > Gap)
    <3>1. UNCHANGED recorder
        BY <1>2, <2>2 DEF Idle
    <3>. QED BY <3>1 DEF recorder, RecorderInv, RecorderTypeOK, BlocksTile, End
  <2>. QED BY <2>1, <2>2
<1>3. CASE Clear
    BY <1>3, ClearKeeps
<1>4. CASE UNCHANGED recorder
    BY <1>4 DEF recorder, RecorderInv, RecorderTypeOK, BlocksTile, End
<1>. QED BY <1>1, <1>2, <1>3, <1>4 DEF RecorderNext

\* The blocks kept lie end to end from the front of the buffer, none empty,
\* and what follows them is the block in progress and nothing else (save.rs).
THEOREM RecorderTiles == RecorderSpec => []BlocksTile
<1>1. RecorderInit => RecorderInv
    BY RecorderStarts
<1>2. RecorderInv /\ [RecorderNext]_recorder => RecorderInv'
    BY RecorderStep, RecorderAssumption
<1>3. RecorderInv => BlocksTile
    BY DEF RecorderInv
<1>. QED BY <1>1, <1>2, <1>3, PTL DEF RecorderSpec
=============================================================================
