------------------------------ MODULE Recorder ------------------------------
(***************************************************************************)
(* MIC edges read back into blocks.  Edge(ticks) is a move of the line     *)
(* "ticks" after the one before it; Idle(ticks) is the end of a frame that *)
(* long after the last move.  Only intervals matter, so the T-state of the *)
(* last edge is kept as whether there is one (listening).                  *)
(***************************************************************************)
EXTENDS Integers, Sequences

CONSTANTS
    Pulses,       \* intervals the line makes, in T-states
    Lengths,      \* the ROM's pulse lengths: pilot, sync_first, sync_second, zero, one
    Tolerance,    \* how far from nominal a pulse is still recognised, in percent
    MinPilot,     \* pilot pulses before a tape is believed in
    ByteRoom,     \* bytes the buffer holds
    BlockRoom     \* blocks the list holds

ASSUME RecorderAssumption ==
    /\ Pulses \subseteq Nat
    /\ Lengths \in [pilot : Nat, sync_first : Nat, sync_second : Nat, zero : Nat, one : Nat]
    /\ Tolerance \in Nat
    /\ MinPilot \in Nat
    /\ ByteRoom \in Nat
    /\ BlockRoom \in Nat

VARIABLES
    listening,    \* a last edge to measure from
    state,        \* "Idle", "Pilot", "Sync" or "Data"
    pilots,       \* pilot pulses in a row
    byte, bits,   \* the byte being assembled, and how many bits of it
    half,         \* the first half of a bit's cycle: 0, 1, or None
    bytes,        \* what has been read
    blocks,       \* the blocks in it, as [at, len]
    start,        \* where the block in progress starts
    spilled,      \* it has lost bytes
    dropped,      \* bytes there was no room for
    lost          \* blocks started and thrown away

recorder == <<listening, state, pilots, byte, bits, half, bytes, blocks, start, spilled, dropped, lost>>

None == 2

RecorderInit ==
    /\ listening = FALSE
    /\ state = "Idle"
    /\ pilots = 0
    /\ byte = 0 /\ bits = 0 /\ half = None
    /\ bytes = <<>> /\ blocks = <<>>
    /\ start = 0
    /\ spilled = FALSE
    /\ dropped = 0 /\ lost = 0

Gap == 5 * Lengths.one

Near(ticks, target) ==
    (IF ticks > target THEN ticks - target ELSE target - ticks) * 100 <= target * Tolerance

(***************************************************************************)
(* The ends of a block.                                                    *)
(***************************************************************************)
Quiesce ==
    /\ state' = "Idle"
    /\ pilots' = 0
    /\ half' = None /\ bits' = 0 /\ byte' = 0
    /\ spilled' = FALSE
    /\ UNCHANGED <<start, dropped>>

BeforeBlock == SubSeq(bytes, 1, start)

\* Mutant: what was read of the block stays in the buffer.
AbandonInPlace ==
    /\ Quiesce
    /\ UNCHANGED <<bytes, blocks>>
    /\ lost' = IF state = "Data" /\ Len(bytes) > start THEN lost + 1 ELSE lost

\* The block in progress is not usable; with nothing read of it, it is not counted.
Abandon ==
    /\ Quiesce
    /\ UNCHANGED blocks
    /\ IF state = "Data" /\ Len(bytes) > start
       THEN bytes' = BeforeBlock /\ lost' = lost + 1
       ELSE UNCHANGED <<bytes, lost>>

\* The signal has stopped.  Keep the block if it is whole and there is room.
Finish ==
    LET len == Len(bytes) - start
        whole == bits = 0 /\ ~spilled /\ len > 0
    IN  IF state # "Data"
        THEN /\ state' = "Idle"
             /\ pilots' = 0
             /\ UNCHANGED <<byte, bits, half, bytes, blocks, start, spilled, dropped, lost>>
        ELSE /\ Quiesce
             /\ IF whole /\ Len(blocks) < BlockRoom
                THEN /\ blocks' = Append(blocks, [at |-> start, len |-> len])
                     /\ UNCHANGED <<bytes, lost>>
                ELSE /\ bytes' = BeforeBlock
                     /\ lost' = IF len > 0 \/ spilled THEN lost + 1 ELSE lost
                     /\ UNCHANGED blocks

(***************************************************************************)
(* One level, held for "ticks": a pilot is counted, the sync pair found,   *)
(* and then two pulses read to a bit.                                      *)
(***************************************************************************)
Become(s, n) ==
    /\ state' = s
    /\ pilots' = n
    /\ UNCHANGED <<byte, bits, half, bytes, blocks, start, spilled, dropped, lost>>

CountPilot(ticks) ==
    IF Near(ticks, Lengths.pilot)
    THEN Become(IF pilots + 1 >= MinPilot THEN "Pilot" ELSE "Idle", pilots + 1)
    ELSE Become("Idle", 0)

FindSync(ticks) ==
    IF Near(ticks, Lengths.pilot) THEN Become("Pilot", pilots)
    ELSE IF Near(ticks, Lengths.sync_first) THEN Become("Sync", pilots)
    ELSE Abandon

FindSecond(ticks) ==
    IF Near(ticks, Lengths.sync_second)
    THEN /\ state' = "Data"
         /\ start' = Len(bytes)
         /\ spilled' = FALSE
         /\ bits' = 0 /\ byte' = 0 /\ half' = None
         /\ UNCHANGED <<pilots, bytes, blocks, dropped, lost>>
    ELSE Abandon

\* The eighth bit completes a byte, which is dropped when the buffer is full.
Push(value) ==
    /\ bits' = 0 /\ byte' = 0 /\ half' = None
    /\ IF Len(bytes) = ByteRoom
       THEN /\ dropped' = dropped + 1
            /\ spilled' = TRUE
            /\ UNCHANGED bytes
       ELSE /\ bytes' = Append(bytes, value)
            /\ UNCHANGED <<dropped, spilled>>
    /\ UNCHANGED <<state, pilots, blocks, start, lost>>

\* Mutant: the second half of a cycle is taken at its word.
SecondHalfWins(bit) ==
    LET value == (2 * byte + bit) % 256
    IN  IF half = None
        THEN /\ half' = bit
             /\ UNCHANGED <<state, pilots, byte, bits, bytes, blocks, start, spilled, dropped, lost>>
        ELSE IF bits = 7 THEN Push(value)
        ELSE /\ half' = None
             /\ byte' = value
             /\ bits' = bits + 1
             /\ UNCHANGED <<state, pilots, bytes, blocks, start, spilled, dropped, lost>>

HalfBit(bit) ==
    LET value == (2 * byte + bit) % 256
    IN  IF half = None
        THEN /\ half' = bit
             /\ UNCHANGED <<state, pilots, byte, bits, bytes, blocks, start, spilled, dropped, lost>>
        ELSE IF half # bit THEN Abandon
        ELSE IF bits = 7 THEN Push(value)
        ELSE /\ half' = None
             /\ byte' = value
             /\ bits' = bits + 1
             /\ UNCHANGED <<state, pilots, bytes, blocks, start, spilled, dropped, lost>>

\* A pulse that is no bit, where a block may end, is the tail of a whole block.
ReadData(ticks) ==
    IF Near(ticks, Lengths.zero) THEN HalfBit(0)
    ELSE IF Near(ticks, Lengths.one) THEN HalfBit(1)
    ELSE IF bits = 0 /\ half = None /\ Len(bytes) > start THEN Finish
    ELSE Abandon

Pulse(ticks) ==
    IF ticks > Gap THEN Finish
    ELSE \/ state = "Idle" /\ CountPilot(ticks)
         \/ state = "Pilot" /\ FindSync(ticks)
         \/ state = "Sync" /\ FindSecond(ticks)
         \/ state = "Data" /\ ReadData(ticks)

(***************************************************************************)
(* The operations.                                                         *)
(***************************************************************************)
Edge(ticks) ==
    /\ listening' = TRUE
    /\ IF listening THEN Pulse(ticks)
       ELSE UNCHANGED <<state, pilots, byte, bits, half, bytes, blocks, start, spilled, dropped, lost>>

Idle(ticks) ==
    IF listening /\ ticks > Gap
    THEN Finish /\ listening' = FALSE
    ELSE UNCHANGED recorder

Clear ==
    /\ listening' = FALSE
    /\ state' = "Idle"
    /\ pilots' = 0
    /\ byte' = 0 /\ bits' = 0 /\ half' = None
    /\ bytes' = <<>> /\ blocks' = <<>>
    /\ start' = 0
    /\ spilled' = FALSE
    /\ dropped' = 0 /\ lost' = 0

RecorderNext ==
    \/ \E ticks \in Pulses : Edge(ticks) \/ Idle(ticks)
    \/ Clear

RecorderSpec == RecorderInit /\ [][RecorderNext]_recorder

\* The blocks recorded so far, in order, which is what to_tap writes out.
Kept == [i \in DOMAIN blocks |-> SubSeq(bytes, blocks[i].at + 1, blocks[i].at + blocks[i].len)]

(***************************************************************************)
(* Properties.                                                             *)
(***************************************************************************)
RecorderTypeOK ==
    /\ listening \in BOOLEAN
    /\ state \in {"Idle", "Pilot", "Sync", "Data"}
    /\ pilots \in Nat
    /\ byte \in 0 .. 255
    /\ bits \in 0 .. 7
    /\ half \in {0, 1, None}
    /\ bytes \in Seq(0 .. 255)
    /\ blocks \in Seq([at : Nat, len : Nat])
    /\ start \in Nat
    /\ spilled \in BOOLEAN
    /\ dropped \in Nat
    /\ lost \in Nat

\* Where the list of blocks says the buffer is used up to.
End == IF blocks = <<>> THEN 0 ELSE blocks[Len(blocks)].at + blocks[Len(blocks)].len

\* The blocks kept lie end to end from the front of the buffer, none of them
\* empty, and all that follows them is the block in progress: nothing thrown
\* away stays behind to be counted as room, or to be read as part of another
\* block (save.rs: every path out of a block truncates or publishes it).
BlocksTile ==
    /\ \A i \in DOMAIN blocks :
         /\ blocks[i].len > 0
         /\ blocks[i].at = IF i = 1 THEN 0 ELSE blocks[i - 1].at + blocks[i - 1].len
    /\ IF state = "Data" THEN start = End /\ start <= Len(bytes) ELSE Len(bytes) = End

\* save.rs:190 of dropped(): "Any block that lost one is discarded, so this
\* being non-zero means lost_blocks is too", once the block has ended.
DroppedMeansLost == state = "Idle" /\ dropped > 0 => lost > 0
=============================================================================
