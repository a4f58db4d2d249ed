---------------------------- MODULE RecordStream ----------------------------
(***************************************************************************)
(* What rkw-debug's ring promises its consumer: records come out whole and *)
(* in the order they were written.  An overwriting ring may skip some, each *)
(* a whole lap behind the newest and each counted; a refusing ring skips   *)
(* none and never holds more than it has room for.                         *)
(***************************************************************************)
EXTENDS Naturals, Sequences

CONSTANT Capacity

VARIABLES
    lossy,     \* which of the two it is, for good
    written,   \* records published so far
    next,      \* position of the record the consumer takes next
    lost,      \* records the consumer was told it missed
    delivered  \* the records it was handed, oldest first

svars == <<lossy, written, next, lost, delivered>>

(* The record written at a position; positions count from zero. *)
Record(p) == [lo |-> p + 1, hi |-> p + 1]

SInit == lossy \in BOOLEAN /\ written = 0 /\ next = 0 /\ lost = 0 /\ delivered = <<>>

Write ==
    /\ ~lossy => written - next < Capacity - 1
    /\ written' = written + 1
    /\ UNCHANGED <<lossy, next, lost, delivered>>

Deliver(skip) ==
    /\ next + skip < written
    /\ skip > 0 => lossy /\ (next + skip - 1) + Capacity <= written
    /\ delivered' = Append(delivered, Record(next + skip))
    /\ next' = next + skip + 1
    /\ lost' = lost + skip
    /\ UNCHANGED <<lossy, written>>

SNext == Write \/ \E skip \in 0 .. written : Deliver(skip)

SSpec == SInit /\ [][SNext]_svars
=============================================================================
