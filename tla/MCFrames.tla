------------------------------- MODULE MCFrames -------------------------------
(* Instructions and a tape for Frames: writes that move both lines and the   *)
(* border, and three pulses with a stop between them.                        *)
EXTENDS Frames

Value(speaker, mic, colour) == [speaker |-> speaker, mic |-> mic, colour |-> colour]
I(op, len, value) == [op |-> op, len |-> len, at |-> 1, value |-> value]

MCInstructions ==
    {I("nop", 2, 0), I("ei", 1, 0)}
      \cup {I("out", 2, v) : v \in {Value(FALSE, TRUE, 0), Value(TRUE, FALSE, 1)}}

MCImage == <<[ticks |-> 3, level |-> TRUE], [ticks |-> 2, level |-> FALSE], [ticks |-> 0, level |-> FALSE],
             [ticks |-> 3, level |-> TRUE]>>
=============================================================================
