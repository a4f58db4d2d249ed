------------------------------ MODULE FrameSwap ------------------------------
(***************************************************************************)
(* Getting the picture off the emulation thread: the swap chain of         *)
(* rkw-spectrum's present.rs, one action per access to what the two        *)
(* threads share.                                                          *)
(*                                                                         *)
(* A framebuffer is the number of the frame painted in it, 0 for a fresh   *)
(* one; what a frame looks like is left out.  The mutex is never poisoned: *)
(* neither end can panic while it holds it.                                *)
(***************************************************************************)
EXTENDS Naturals, FiniteSets

CONSTANT MaxFrames   \* bound: frames the machine comes to the end of

ASSUME FrameSwapAssumption == MaxFrames \in Nat

VARIABLES
    slot, lock,                   \* shared: the frame waiting, and who holds it
    published, taken, missed,     \* shared: the counters
    tape_playing,                 \* shared: the deck's light
    scratch, frame, deck,         \* the machine: its buffer, the frames it has
                                  \* finished, and whether its deck is running
    spc,                          \* the sink: where in publish
    current, seen,                \* the source's own
    fpc, loaded,                  \* the source: where in take, and the count it read
    swapped, last, overtaken,     \* history: how many frames were put in the slot,
                                  \* the last of them, and whether a take got it
                                  \* without having seen it counted
    drawn, stale                  \* history: the frames take has handed out, and
                                  \* the takes made while overtaken

machine == <<scratch, frame, deck, spc>>
source == <<current, seen, fpc, loaded>>
history == <<swapped, last, overtaken, drawn, stale>>
counters == <<published, taken, missed>>
swap_vars == <<slot, lock, counters, tape_playing, machine, source, history>>

SwapInit ==
    /\ slot = 0 /\ lock = "free"
    /\ published = 0 /\ taken = 0 /\ missed = 0 /\ tape_playing = FALSE
    /\ scratch = 0 /\ frame = 0 /\ deck = FALSE /\ spc = "idle"
    /\ current = 0 /\ seen = 0 /\ fpc = "idle" /\ loaded = 0
    /\ swapped = 0 /\ last = 0 /\ overtaken = FALSE
    /\ drawn = {} /\ stale = 0

-----------------------------------------------------------------------------
(* The emulation thread.  A frame ends, and the deck may have started or    *)
(* stopped in it; the wrapped machine finishes it before it is painted.     *)
ServiceEvent ==
    /\ spc = "idle" /\ frame < MaxFrames
    /\ frame' = frame + 1
    /\ deck' \in BOOLEAN
    /\ scratch' = frame'
    /\ spc' = "light"
    /\ UNCHANGED <<slot, lock, counters, tape_playing, source, history>>

(* A deck that moves outside publish: the play and stop keys. *)
SetTape ==
    /\ spc = "idle"
    /\ deck' = ~deck
    /\ UNCHANGED <<slot, lock, counters, tape_playing, scratch, frame, spc, source, history>>

(* The deck's light is set before the lock is tried. *)
Light ==
    /\ spc = "light"
    /\ tape_playing' = deck
    /\ spc' = "try"
    /\ UNCHANGED <<slot, lock, counters, scratch, frame, deck, source, history>>

TryLockUncounted ==
    /\ spc = "try"
    /\ IF lock = "free" THEN lock' = "sink" /\ spc' = "swap"
                        ELSE spc' = "idle" /\ UNCHANGED lock
    /\ UNCHANGED <<slot, counters, tape_playing, scratch, frame, deck, source, history>>

TryLockCounted ==
    /\ spc = "try"
    /\ IF lock = "free" THEN lock' = "sink" /\ spc' = "swap"
                        ELSE spc' = "count" /\ UNCHANGED lock
    /\ UNCHANGED <<slot, counters, tape_playing, scratch, frame, deck, source, history>>

(* try_lock: a frame that finds the source inside its swap is dropped.      *)
TryLock ==
    /\ spc = "try"
    /\ IF lock = "free"
         THEN lock' = "sink" /\ spc' = "swap" /\ UNCHANGED missed
         ELSE missed' = missed + 1 /\ spc' = "idle" /\ UNCHANGED lock
    /\ UNCHANGED <<slot, published, taken, tape_playing, scratch, frame, deck, source, history>>

SwapIn ==
    /\ spc = "swap"
    /\ slot' = scratch /\ scratch' = slot
    /\ lock' = "free"
    /\ spc' = "count"
    /\ swapped' = swapped + 1 /\ last' = scratch /\ overtaken' = FALSE
    /\ UNCHANGED <<counters, tape_playing, frame, deck, source, drawn, stale>>

Count ==
    /\ spc = "count"
    /\ published' = published + 1
    /\ spc' = "idle"
    /\ UNCHANGED <<slot, lock, taken, missed, tape_playing, scratch, frame, deck, source, history>>

-----------------------------------------------------------------------------
(* The window's thread.  Nothing new is None. *)
LoadCount ==
    /\ fpc = "idle" /\ published # seen
    /\ loaded' = published
    /\ fpc' = "lock"
    /\ UNCHANGED <<slot, lock, counters, tape_playing, machine, current, seen, history>>

Lock ==
    /\ fpc = "lock" /\ lock = "free"
    /\ lock' = "source"
    /\ fpc' = "swap"
    /\ UNCHANGED <<slot, counters, tape_playing, machine, current, seen, loaded, history>>

SwapOut ==
    /\ fpc = "swap"
    /\ slot' = current /\ current' = slot
    /\ overtaken' = (overtaken \/ swapped > loaded)
    /\ drawn' = drawn \cup ({slot} \ {0})
    /\ stale' = IF overtaken THEN stale + 1 ELSE stale
    /\ lock' = "free"
    /\ fpc' = "miss"
    /\ UNCHANGED <<counters, tape_playing, machine, seen, loaded, swapped, last>>

(* fetch_add of the frames that went by unread. *)
CountMissed ==
    /\ fpc = "miss"
    /\ missed' = missed + (loaded - seen - 1)
    /\ fpc' = "seen"
    /\ UNCHANGED <<slot, lock, published, taken, tape_playing, machine, current, seen, loaded,
                   history>>

CountTakenLate ==
    /\ fpc = "seen"
    /\ seen' = published
    /\ taken' = taken + 1
    /\ fpc' = "idle"
    /\ UNCHANGED <<slot, lock, published, missed, tape_playing, machine, current, loaded,
                   history>>

CountTaken ==
    /\ fpc = "seen"
    /\ seen' = loaded
    /\ taken' = taken + 1
    /\ fpc' = "idle"
    /\ UNCHANGED <<slot, lock, published, missed, tape_playing, machine, current, loaded,
                   history>>

-----------------------------------------------------------------------------
Sink == ServiceEvent \/ Light \/ TryLock \/ SwapIn \/ Count
TakeFrame == LoadCount \/ Lock \/ SwapOut \/ CountMissed \/ CountTaken

SwapNext == Sink \/ SetTape \/ TakeFrame

SwapSpec == SwapInit /\ [][SwapNext]_swap_vars

(* The machine runs on, and the window redraws, which is when it takes.     *)
FairSpec == SwapSpec /\ WF_swap_vars(Sink) /\ WF_swap_vars(TakeFrame)

-----------------------------------------------------------------------------
SwapTypeOK ==
    /\ {slot, scratch, current, frame, last} \subseteq 0 .. MaxFrames
    /\ {published, taken, missed, seen, loaded, swapped} \subseteq 0 .. MaxFrames
    /\ lock \in {"free", "sink", "source"}
    /\ {tape_playing, deck, overtaken} \subseteq BOOLEAN
    /\ drawn \subseteq 1 .. MaxFrames /\ stale \in Nat
    /\ spc \in {"idle", "light", "try", "swap", "count"}
    /\ fpc \in {"idle", "lock", "swap", "miss", "seen"}

AtRest == spc = "idle" /\ fpc = "idle"

(* The frames the machine has ended that take has not handed out. *)
Undrawn == (1 .. frame) \ drawn

(* What `missed` counts, told by the frames themselves and not by the calls *)
(* of take.  Of the frames never handed out, `missed` has all but those     *)
(* counted and not yet looked at, and one more for every take that went     *)
(* ahead while overtaken: that take was given an old picture in the place   *)
(* of a frame somebody had painted over, and the frame is nowhere counted.  *)
(* And no frame is out of sight: one is still to be drawn exactly when the  *)
(* count is new and the take before was not overtaken.                      *)
EveryFrameCounted ==
    AtRest => /\ Cardinality(Undrawn) = missed + stale + (published - seen)
              /\ slot \in Undrawn <=> published # seen /\ ~overtaken

(* What `missed` promises: "Frames the machine painted that will never be   *)
(* drawn".  It does not hold: see `stale`.                                  *)
MissedNeverDrawn == AtRest /\ published = seen => missed = Cardinality(Undrawn)

(* take hands back the newest frame there is, one it never handed back      *)
(* before.  It does so except once it has handed back one that was in the   *)
(* slot and not in the count it read: then, and until another is put there, *)
(* the slot holds an old one.                                               *)
NewestUnlessOvertaken ==
    [][SwapOut /\ ~overtaken => current' = last /\ current' \notin drawn]_swap_vars

(* When the machine has been paused the window comes to show the last frame *)
(* that was not dropped, with the same exception.                           *)
ShowsLastFrame == <>[](seen = published /\ (overtaken \/ current = last))

(* The light says what the deck was doing when the last frame ended, also   *)
(* when the frame itself was dropped.                                       *)
LightFollowsDeck == [][spc # "idle" /\ spc' = "idle" => tape_playing' = deck']_swap_vars
=============================================================================
