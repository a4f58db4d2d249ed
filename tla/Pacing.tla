------------------------------- MODULE Pacing -------------------------------
(***************************************************************************)
(* How fast the machine may run: the pacer, the ring of samples it looks   *)
(* at, and the device that empties the ring a callback at a time.          *)
(*                                                                         *)
(* Time is in ticks of a sound-card clock.  A slice of the machine is      *)
(* SliceTicks of emulated time; a frame's sound goes into the ring at the  *)
(* end of the frame.  The anchor's instant and T-state matter only for how *)
(* far emulated time has got ahead of the clock since, so that is what the *)
(* anchor here holds.                                                      *)
(***************************************************************************)
EXTENDS Integers

CONSTANTS
    Devices,       \* whether there is a device: what to start with
    SliceTicks,    \* emulated time of a slice
    FrameSlices,   \* slices in a frame
    RingTicks,     \* sound the ring holds
    HighWater,     \* how full it may get before the machine waits
    CallbackTicks, \* sound the device takes at a time
    MaxBehind      \* bound: how far behind the clock is told apart

ASSUME PacingAssumption ==
    /\ Devices \subseteq BOOLEAN
    /\ SliceTicks \in Nat \ {0} /\ SliceTicks % 2 = 0
    /\ FrameSlices \in Nat \ {0}
    /\ RingTicks \in Nat /\ HighWater \in Nat
    /\ CallbackTicks \in Nat \ {0}
    /\ MaxBehind \in Nat

\* A frame's sound fits above the high water, with what the device may still owe a
\* machine that has waited for it at every slice of a frame.
RoomForAFrame ==
    HighWater + (CallbackTicks - 1) \div FrameSlices + FrameSlices * SliceTicks <= RingTicks

VARIABLES
    speed,         \* the knob, turned by the window
    audio,         \* there is a device at the other end of the ring
    anchor,        \* [speed, ahead], or NoAnchor
    left,          \* what is left of the wait the pacer asked for
    fill, phase,   \* sound in the ring, and ticks since the last callback
    at,            \* slices run of the frame in progress
    lead,          \* history: emulated time run less time passed, pacing by the clock, since the
                   \* machine was last started or its pacer last saw a new speed
    by,            \* history: the speed the pacer saw last
    restarted,     \* history: the machine has been started since then
    cuts,          \* history: waits cut short since it was last level with the clock, or with
                   \* the ring; to turn to the speaker with the ring too full counts as one
    spilt          \* history: sound lost to a full ring by a machine pacing on it

pacing == <<speed, audio, anchor, left, fill, phase, at, lead, by, restarted, cuts, spilt>>

Speeds == {"Normal", "Double", "Max"}
SpeedAfter(s) == CASE s = "Normal" -> "Double" [] s = "Double" -> "Max" [] s = "Max" -> "Normal"
SliceAt(s) == IF s = "Double" THEN SliceTicks \div 2 ELSE SliceTicks

NoAnchor == [speed |-> "Max", ahead |-> 0]

Least(a, b) == IF a < b THEN a ELSE b
Most(a, b) == IF a > b THEN a ELSE b

PacingInit ==
    /\ speed = "Normal"
    /\ audio \in Devices
    /\ anchor = NoAnchor
    /\ left = 0
    /\ fill = 0 /\ phase = 0
    /\ at = 0
    /\ lead = 0 /\ by = "Normal" /\ restarted = FALSE /\ cuts = 0
    /\ spilt = FALSE

(***************************************************************************)
(* After a slice: how long to wait before the next.                        *)
(***************************************************************************)
AudioWait(sound) == IF sound > HighWater THEN sound - HighWater ELSE 0
ClockWait(ahead) == IF ahead > 0 THEN ahead ELSE 0

ByTheSpeaker == speed = "Normal" /\ audio
ByTheClock(s) == s = "Double" \/ (s = "Normal" /\ ~audio)

\* Mutant: the anchor outlives the speed it was set at.
AnchorKept(ahead) == [speed |-> speed, ahead |-> IF anchor # NoAnchor THEN ahead ELSE 0]

\* An anchor set at another speed is dropped, and a new one is where the two
\* clocks are agreed to be together.
Reanchored(ahead) ==
    IF anchor # NoAnchor /\ anchor.speed = speed
    THEN [speed |-> speed, ahead |-> ahead] ELSE [speed |-> speed, ahead |-> 0]

Wait(sound, ahead) ==
    IF ByTheSpeaker THEN anchor' = NoAnchor /\ left' = AudioWait(sound)
    ELSE IF ByTheClock(speed) THEN anchor' = Reanchored(ahead) /\ left' = ClockWait(anchor'.ahead)
    ELSE anchor' = NoAnchor /\ left' = 0

(***************************************************************************)
(* One slice of the machine, and the wait asked for after it.              *)
(***************************************************************************)
SoundAfterSlice == IF at + 1 = FrameSlices THEN fill + FrameSlices * SliceTicks ELSE fill

RunSlice ==
    LET sound == SoundAfterSlice
    IN  /\ at' = (at + 1) % FrameSlices
        /\ fill' = Least(sound, RingTicks)
        /\ spilt' = (spilt \/ (sound > RingTicks /\ by = "Normal" /\ audio /\ cuts = 0))
        /\ Wait(fill', anchor.ahead + SliceAt(anchor.speed))
        /\ lead' = IF by = speed /\ ByTheClock(speed) THEN lead + SliceAt(speed) ELSE 0
        /\ cuts' = IF by = speed THEN cuts
                   ELSE IF ByTheSpeaker /\ fill' > HighWater THEN 1 ELSE 0
        /\ by' = speed
        /\ restarted' = (restarted /\ by = speed)
        /\ UNCHANGED <<speed, audio, phase>>

\* The same where nobody asks how long anything takes.
RunUntimed ==
    /\ at' = (at + 1) % FrameSlices
    /\ UNCHANGED <<speed, audio, anchor, left, fill, phase, lead, by, restarted, cuts, spilt>>

\* A command arrived: the wait is over early.
CutShort ==
    /\ left' = 0
    /\ cuts' = IF left > 0 THEN cuts + 1 ELSE cuts
    /\ UNCHANGED <<speed, audio, anchor, fill, phase, at, lead, by, restarted, spilt>>

Turn ==
    /\ speed' = SpeedAfter(speed)
    /\ UNCHANGED <<audio, anchor, left, fill, phase, at, lead, by, restarted, cuts, spilt>>

\* The machine starts again: nothing tells the pacer.
Start ==
    /\ lead' = 0 /\ restarted' = TRUE
    /\ cuts' = IF ByTheClock(by) THEN 0 ELSE cuts
    /\ UNCHANGED <<speed, audio, anchor, left, fill, phase, at, by, spilt>>

(***************************************************************************)
(* A tick of time: the device takes a callback's sound when one is due.    *)
(***************************************************************************)
Later(n) == Most(n - 1, -MaxBehind)

TickOn(running) ==
    /\ phase' = (phase + 1) % CallbackTicks
    /\ fill' = IF audio /\ phase' = 0 THEN Most(fill - CallbackTicks, 0) ELSE fill
    /\ anchor' = IF anchor = NoAnchor THEN anchor ELSE [anchor EXCEPT !.ahead = Later(@)]
    /\ left' = Most(left - 1, 0)
    /\ lead' = IF running /\ ByTheClock(by) THEN Later(lead) ELSE lead
    /\ cuts' = IF (IF ByTheClock(by) THEN lead' <= 0 ELSE fill' <= HighWater) THEN 0 ELSE cuts
    /\ UNCHANGED <<speed, audio, at, by, restarted, spilt>>

(***************************************************************************)
(* Properties.                                                             *)
(***************************************************************************)
PacingTypeOK ==
    /\ speed \in Speeds /\ by \in Speeds
    /\ audio \in BOOLEAN /\ restarted \in BOOLEAN /\ spilt \in BOOLEAN
    /\ anchor \in [speed : Speeds, ahead : Int]
    /\ left \in Nat
    /\ fill \in 0 .. RingTicks
    /\ phase \in 0 .. CallbackTicks - 1
    /\ at \in 0 .. FrameSlices - 1
    /\ lead \in Int /\ cuts \in Nat
=============================================================================
