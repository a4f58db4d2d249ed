--------------------------------- MODULE Emu ---------------------------------
(***************************************************************************)
(* The emulation thread of rkw-debug (src/emu.rs) and the handle that      *)
(* talks to it: the slice loop with its park and unpark, the command       *)
(* queue, and the stop channel both sides share, one action per access to  *)
(* a shared atomic.                                                        *)
(*                                                                         *)
(* The queue is the first-in first-out queue Ring shows the refusing ring  *)
(* to be.  A command is named by what it does to the run state: "resume"   *)
(* for Resume, StepOut, RunTo and a StepOver that is left running; "step"  *)
(* for Step and a StepOver that is over at once; "edit" for the commands   *)
(* that arm, poke, press keys or reset.  The words of a stop's reason      *)
(* carry the number of the stop, so that whose reason was read shows.      *)
(***************************************************************************)
EXTENDS Naturals, Sequences

CONSTANTS
    QueueCapacity,  \* commands the ring has room for
    Clients,        \* which clients there are: TRUE is one that moves the machine
                    \* only when it has been told it stopped, FALSE one that does not
    MaxSend,        \* bound: commands sent
    MaxStops        \* bound: stops the machine may come to while running

ASSUME EmuAssumption ==
    /\ QueueCapacity \in Nat \ {0}
    /\ Clients \subseteq BOOLEAN
    /\ MaxSend \in Nat /\ MaxStops \in Nat

VARIABLES
    queue, state, lo, hi, stops,   \* shared: the command ring and the stop channel
    token,                         \* the emulation thread's park token
    epc, command,                  \* the emulation thread: where, and applying what
    stop,                          \* history: stops begun
    oneAtATime,                    \* which client it is
    hpc, stops_seen, words,        \* the client: where, stops_seen, and the word read
    how,                           \* the client: what it is in the middle of
    answer, reports,               \* what it was last told; history: waits answered
    sent, applied                  \* history: commands pushed and applied

shared == <<queue, state, lo, hi, stops, token>>
emuVars == <<epc, command, stop, applied>>
clientVars == <<oneAtATime, hpc, stops_seen, words, how, answer, reports, sent>>
vars == <<shared, emuVars, clientVars>>

Commands == {"resume", "pause", "step", "edit", "quit"}
NoAnswer == [how |-> "none", stop |-> FALSE, lo |-> 0, hi |-> 0]

Init ==
    /\ queue = <<>> /\ state = "Paused" /\ lo = 0 /\ hi = 0 /\ stops = 0
    /\ token = FALSE
    /\ epc = "drain" /\ command = "none" /\ stop = 0
    /\ oneAtATime \in Clients
    /\ hpc = "idle" /\ stops_seen = 0 /\ words = 0 /\ how = "none"
    /\ answer = NoAnswer /\ reports = 0
    /\ sent = 0 /\ applied = 0

-----------------------------------------------------------------------------
(* The emulation thread.  *)

Pop ==
    /\ epc = "drain" /\ queue # <<>>
    /\ command' = Head(queue) /\ queue' = Tail(queue)
    /\ epc' = "apply"
    /\ UNCHANGED <<state, lo, hi, stops, token, stop, applied, clientVars>>

Stops(c) == c \in {"pause", "step", "quit"}

ApplyOne ==
    /\ epc = "apply"
    /\ \/ /\ Stops(command)
          /\ epc' = "lo" /\ stop' = stop + 1
          /\ UNCHANGED <<state, applied>>
       \/ /\ ~Stops(command)
          /\ state' = IF command = "resume" THEN "Running" ELSE state
          /\ epc' = (IF state' = "Running" THEN "run" ELSE "park") /\ applied' = applied + 1
          /\ UNCHANGED stop
    /\ UNCHANGED <<queue, lo, hi, stops, token, command, clientVars>>

(* Commands that stop the machine go on to publish a stop; the others are   *)
(* over at once.                                                            *)
Apply ==
    /\ epc = "apply"
    /\ \/ /\ Stops(command)
          /\ epc' = "lo" /\ stop' = stop + 1
          /\ UNCHANGED <<state, applied>>
       \/ /\ ~Stops(command)
          /\ state' = IF command = "resume" THEN "Running" ELSE state
          /\ epc' = "drain" /\ applied' = applied + 1
          /\ UNCHANGED stop
    /\ UNCHANGED <<queue, lo, hi, stops, token, command, clientVars>>

(* set_stop: the words of the reason, then the state, then the count.       *)
PublishLo ==
    /\ epc = "lo" /\ lo' = stop /\ epc' = "hi"
    /\ UNCHANGED <<queue, state, hi, stops, token, command, stop, applied, clientVars>>
PublishHi ==
    /\ epc = "hi" /\ hi' = stop /\ epc' = "state"
    /\ UNCHANGED <<queue, state, lo, stops, token, command, stop, applied, clientVars>>
PublishState ==
    /\ epc = "state" /\ epc' = "stops"
    /\ state' = IF command = "quit" THEN "Exited" ELSE "Paused"
    /\ UNCHANGED <<queue, lo, hi, stops, token, command, stop, applied, clientVars>>
PublishStopsStays ==
    /\ epc = "stops" /\ stops' = stops + 1
    /\ epc' = IF command = "none" THEN "park" ELSE "drain"
    /\ applied' = IF command = "none" THEN applied ELSE applied + 1
    /\ UNCHANGED <<queue, state, lo, hi, token, command, stop, clientVars>>

(* Then back to what published: the drain, or the end of the slice.         *)
PublishStops ==
    /\ epc = "stops" /\ stops' = stops + 1
    /\ epc' = CASE command = "quit" -> "exited"
                [] command = "none" -> "park"
                [] OTHER -> "drain"
    /\ applied' = IF command = "none" THEN applied ELSE applied + 1
    /\ UNCHANGED <<queue, state, lo, hi, token, command, stop, clientVars>>

EndDrain ==
    /\ epc = "drain" /\ queue = <<>>
    /\ epc' = IF state = "Running" THEN "run" ELSE "park"
    /\ command' = "none"
    /\ UNCHANGED <<shared, stop, applied, clientVars>>

(* A slice ends at its deadline, or something stops the machine in it.      *)
Run ==
    /\ epc = "run"
    /\ \/ epc' = "pace" /\ UNCHANGED stop
       \/ stop < MaxStops /\ epc' = "lo" /\ stop' = stop + 1
    /\ UNCHANGED <<shared, command, applied, clientVars>>

(* No wait, or a park_timeout: over early if there is a token, and without  *)
(* one when its time is up.                                                 *)
Pace ==
    /\ epc = "pace" /\ epc' = "drain"
    /\ token' \in {token, FALSE}
    /\ UNCHANGED <<queue, state, lo, hi, stops, command, stop, applied, clientVars>>

Park ==
    /\ epc = "park" /\ token
    /\ token' = FALSE /\ epc' = "drain"
    /\ UNCHANGED <<queue, state, lo, hi, stops, command, stop, applied, clientVars>>

SpuriousWake ==
    /\ epc = "park" /\ epc' = "drain"
    /\ UNCHANGED <<shared, command, stop, applied, clientVars>>

-----------------------------------------------------------------------------
(* The client, through its Handle. *)

(* What a client that moves the machine one step at a time may send: it has *)
(* been told of every stop, and a movement it asked for is over.            *)
Told == stops_seen = sent
MaySend(c) == oneAtATime => Told /\ c \in {"step", "resume", "quit"}

HasRoom == Len(queue) < QueueCapacity

SendIfPaused(c) ==
    /\ hpc = "idle" /\ sent < MaxSend /\ MaySend(c)
    /\ HasRoom
    /\ queue' = Append(queue, c) /\ sent' = sent + 1
    /\ hpc' = (IF state = "Paused" THEN "unpark" ELSE "idle") /\ how' = "send"
    /\ UNCHANGED <<state, lo, hi, stops, token, emuVars, oneAtATime, stops_seen, words, answer, reports>>

(* try_push; a full ring hands the command back and nothing changes.        *)
Send(c) ==
    /\ hpc = "idle" /\ sent < MaxSend /\ MaySend(c)
    /\ HasRoom
    /\ queue' = Append(queue, c) /\ sent' = sent + 1
    /\ hpc' = "unpark" /\ how' = "send"
    /\ UNCHANGED <<state, lo, hi, stops, token, emuVars, oneAtATime, stops_seen, words, answer, reports>>

Unpark ==
    /\ hpc = "unpark" /\ token' = TRUE
    /\ hpc' = IF how = "drop" THEN "gone" ELSE "idle"
    /\ UNCHANGED <<queue, state, lo, hi, stops, emuVars, oneAtATime, stops_seen, words, how, answer,
                   reports, sent>>

(* Drop: a Quit if there is room for one, and an unpark either way.         *)
Drop ==
    /\ hpc = "idle"
    /\ IF HasRoom THEN queue' = Append(queue, "quit") /\ sent' = sent + 1
                  ELSE UNCHANGED <<queue, sent>>
    /\ hpc' = "unpark" /\ how' = "drop"
    /\ UNCHANGED <<state, lo, hi, stops, token, emuVars, oneAtATime, stops_seen, words, answer, reports>>

WaitForStopAgain ==
    /\ hpc = "idle" /\ stops # stops_seen
    /\ hpc' = "state" /\ how' = "wait"
    /\ UNCHANGED <<shared, emuVars, oneAtATime, stops_seen, words, answer, reports, sent>>

(* wait_for_stop sees a count it has not been told of.  Until then it spins, *)
(* and a wait that times out changes nothing.                                *)
WaitForStop ==
    /\ hpc = "idle" /\ stops # stops_seen
    /\ stops_seen' = stops
    /\ hpc' = "state" /\ how' = "wait"
    /\ UNCHANGED <<shared, emuVars, oneAtATime, words, answer, reports, sent>>

StopReason ==
    /\ hpc = "idle" /\ (oneAtATime => Told)
    /\ hpc' = "state" /\ how' = "reason"
    /\ UNCHANGED <<shared, emuVars, oneAtATime, stops_seen, words, answer, reports, sent>>

(* stop_reason: the state, then the two words. *)
LoadState ==
    /\ hpc = "state"
    /\ IF state = "Running"
         THEN /\ hpc' = "idle"
              /\ answer' = [NoAnswer EXCEPT !.how = how]
         ELSE hpc' = "lo" /\ UNCHANGED answer
    /\ UNCHANGED <<shared, emuVars, oneAtATime, stops_seen, words, how, reports, sent>>
LoadLo ==
    /\ hpc = "lo" /\ words' = lo /\ hpc' = "hi"
    /\ UNCHANGED <<shared, emuVars, oneAtATime, stops_seen, how, answer, reports, sent>>
LoadHi ==
    /\ hpc = "hi" /\ hpc' = "idle"
    /\ answer' = [how |-> how, stop |-> TRUE, lo |-> words, hi |-> hi]
    /\ reports' = IF how = "wait" THEN reports + 1 ELSE reports
    /\ UNCHANGED <<shared, emuVars, oneAtATime, stops_seen, words, how, sent>>

-----------------------------------------------------------------------------
Emulation == Pop \/ Apply \/ PublishLo \/ PublishHi \/ PublishState \/ PublishStops
             \/ EndDrain \/ Run \/ Pace \/ Park
Client == (\E c \in Commands : Send(c)) \/ Unpark \/ Drop \/ WaitForStop \/ StopReason
          \/ LoadState \/ LoadLo \/ LoadHi

Next == Emulation \/ SpuriousWake \/ Client

Spec == Init /\ [][Next]_vars

(* The emulation thread is a thread of its own and its loop never waits but *)
(* in park; a client that has pushed a command goes on to unpark.           *)
FairSpec == Spec /\ WF_vars(Emulation) /\ WF_vars(Unpark)

-----------------------------------------------------------------------------
TypeOK ==
    /\ queue \in Seq(Commands) /\ Len(queue) <= QueueCapacity
    /\ state \in {"Running", "Paused", "Exited"}
    /\ {lo, hi, stops, stop, stops_seen, words, reports, sent, applied} \subseteq Nat
    /\ token \in BOOLEAN
    /\ epc \in {"drain", "apply", "lo", "hi", "state", "stops", "run", "pace", "park", "exited"}
    /\ command \in Commands \cup {"none"}
    /\ oneAtATime \in Clients
    /\ hpc \in {"idle", "unpark", "state", "lo", "hi", "gone"}
    /\ how \in {"none", "send", "drop", "wait", "reason"}

(* No wakeup is lost: a parked thread with a command waiting for it has a   *)
(* token, or the client is about to give it one.  A push and its unpark are *)
(* two steps, and the thread may drain, pace and park again between them.   *)
NoLostWakeup == epc = "park" /\ queue # <<>> => token \/ hpc = "unpark"

(* Whatever order pushes, parks, pacing waits and stops come in, every      *)
(* command the ring took is applied, unless one before it was Quit.         *)
EveryCommandApplied ==
    \A n \in 1 .. MaxSend + 1 : (sent >= n) ~> (applied >= n \/ epc = "exited")

(* Dropping the handle ends the thread, if the ring had room for the Quit:  *)
(* it is not left parked with nobody to wake it.                            *)
QuitWaiting == \E i \in 1 .. Len(queue) : queue[i] = "quit"
DropEndsThread == (hpc = "unpark" /\ how = "drop" /\ QuitWaiting) ~> (epc = "exited")

(* The stop channel's promise: a reader that sees a machine not running     *)
(* reads the reason that goes with the stop, not parts of two.              *)
ReasonWhole == answer.stop => answer.lo = answer.hi

(* wait_for_stop's promise: it returns a stop unless its time runs out.     *)
WaitReturnsStop == answer.how = "wait" => answer.stop

(* Both promises hold of a client that moves the machine only when it has   *)
(* been told it stopped, and such a client is told of the first stop, then  *)
(* of the second, and so on: none is told twice and none is left out.       *)
ToldOfEachStop ==
    oneAtATime => /\ ReasonWhole /\ WaitReturnsStop
                  /\ answer.how = "wait" => answer.lo = reports
=============================================================================
