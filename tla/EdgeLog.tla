------------------------------- MODULE EdgeLog -------------------------------
(***************************************************************************)
(* The list of moments at which the speaker or the MIC line moved (edges.rs *)
(* of rkw-audio): ticks are counted from the start of the frame being       *)
(* recorded, may run past its end, and a full log stops recording but not   *)
(* following the level.  Ticks stay below MAX_TICK, which is five minutes.  *)
(***************************************************************************)
EXTENDS Integers, Sequences, SequencesExt

CONSTANT MaxEdges  \* MAX_EDGES

ASSUME MaxEdgesAssumption == MaxEdges \in Nat

Levels == [speaker : BOOLEAN, mic : BOOLEAN]
Quiet == [speaker |-> FALSE, mic |-> FALSE]

EmptyLog == [edges |-> <<>>, start |-> Quiet, now |-> Quiet, dropped |-> 0]

IsLog(log) ==
    /\ DOMAIN log = {"edges", "start", "now", "dropped"}
    /\ log.edges \in Seq([tick : Nat, levels : Levels]) /\ Len(log.edges) <= MaxEdges
    /\ log.start \in Levels /\ log.now \in Levels /\ log.dropped \in Nat

(* The level is followed whether or not there is room to write it down. *)
Record(log, tick, levels) ==
    IF levels = log.now THEN log
    ELSE IF Len(log.edges) = MaxEdges
      THEN [log EXCEPT !.now = levels, !.dropped = @ + 1]
      ELSE [log EXCEPT !.now = levels, !.edges = Append(@, [tick |-> tick, levels |-> levels])]

(* How many of the edges come before the first that is past the frame.      *)
Inside(log, frame) ==
    LET past == SelectInSeq(log.edges, LAMBDA e : e.tick >= frame)
    IN  IF past = 0 THEN Len(log.edges) ELSE past - 1

RollForgets(log, frame) == [log EXCEPT !.start = log.now, !.edges = <<>>]

(* On to the next frame: what was inside this one goes, the rest is counted *)
(* from the new start, where the level is the one in force there.           *)
Roll(log, frame) ==
    LET split == Inside(log, frame)
        over == SubSeq(log.edges, split + 1, Len(log.edges))
    IN  [log EXCEPT
           !.start = IF over = <<>> THEN log.now
                     ELSE IF split = 0 THEN log.start ELSE log.edges[split].levels,
           !.edges = [i \in DOMAIN over |-> [over[i] EXCEPT !.tick = @ - frame]]]
=============================================================================
