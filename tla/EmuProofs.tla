------------------------------ MODULE EmuProofs ------------------------------
(***************************************************************************)
(* Proofs about Emu, for a command ring of any size and any client: its    *)
(* types, and that the emulation thread never sleeps on a command.         *)
(***************************************************************************)
EXTENDS Emu, TLAPS

-----------------------------------------------------------------------------
(* No lost wakeup.  Parking is the last of several steps the thread takes   *)
(* after it last found the ring empty: it may run a slice, publish the stop *)
(* that ended it, or wait out its pace.  A command pushed at any of them    *)
(* has its unpark to come, or has left its token.                           *)

Publishing == {"lo", "hi", "state", "stops"}

(* The thread has looked at the ring and will not look again before a park. *)
PastDrain == epc \in {"run", "pace", "park"} \/ (epc \in Publishing /\ command = "none")

Woken == PastDrain /\ queue # <<>> => token \/ hpc = "unpark"

(* A stop that ends a slice is told from one a command asked for. *)
OwnStop == epc \in {"run", "pace"} => command = "none"

WakeInv == Woken /\ OwnStop

LEMMA InitWakes == Init => WakeInv
  BY DEF Init, WakeInv, Woken, OwnStop, PastDrain, Publishing

(* The client only ever adds a command on its way to an unpark, and leaves  *)
(* the way by giving the token.                                             *)
LEMMA ClientWakes ==
    ASSUME WakeInv, Client
    PROVE  WakeInv'
  <1>1. UNCHANGED <<epc, command>>
    BY DEF Client, Send, Unpark, Drop, WaitForStop, StopReason, LoadState, LoadLo, LoadHi, emuVars
  <1>2. OwnStop'
    BY <1>1 DEF WakeInv, OwnStop
  <1>3. CASE hpc' = "unpark"
    BY <1>2, <1>3 DEF WakeInv, Woken
  <1>4. CASE Unpark
    BY <1>2, <1>4 DEF WakeInv, Woken, Unpark
  <1>5. CASE WaitForStop \/ StopReason \/ LoadState \/ LoadLo \/ LoadHi
    <2>1. UNCHANGED <<queue, token>> /\ hpc # "unpark"
      BY <1>5 DEF WaitForStop, StopReason, LoadState, LoadLo, LoadHi, shared
    <2> QED BY <1>1, <1>2, <2>1 DEF WakeInv, Woken, PastDrain
  <1> QED BY <1>3, <1>4, <1>5 DEF Client, Send, Drop

(* The thread empties the ring before it goes on, and a token it uses up    *)
(* sends it back to the ring.                                               *)
LEMMA EmulationWakes ==
    ASSUME WakeInv, Emulation \/ SpuriousWake
    PROVE  WakeInv'
  <1>1. CASE Pop
    BY <1>1 DEF Pop, WakeInv, Woken, OwnStop, PastDrain, Publishing
  <1>2. CASE Apply
    <2>1. (epc' \in Publishing /\ command' # "none") \/ epc' = "drain"
      BY <1>2 DEF Apply, Stops, Publishing
    <2> QED BY <2>1 DEF WakeInv, Woken, OwnStop, PastDrain, Publishing
  <1>3. CASE PublishLo \/ PublishHi \/ PublishState
    <2>1. UNCHANGED <<queue, token, command, hpc>> /\ epc \in Publishing /\ epc' \in Publishing
      BY <1>3 DEF PublishLo, PublishHi, PublishState, Publishing, clientVars
    <2> QED BY <2>1 DEF WakeInv, Woken, OwnStop, PastDrain, Publishing
  <1>4. CASE PublishStops
    <2>1. UNCHANGED <<queue, token, command, hpc>> /\ epc \in Publishing
      BY <1>4 DEF PublishStops, Publishing, clientVars
    <2>2. (epc' = "park" /\ command = "none") \/ epc' \in {"exited", "drain"}
      BY <1>4 DEF PublishStops
    <2> QED BY <2>1, <2>2 DEF WakeInv, Woken, OwnStop, PastDrain, Publishing
  <1>5. CASE EndDrain
    BY <1>5 DEF EndDrain, shared, WakeInv, Woken, OwnStop, PastDrain, Publishing
  <1>6. CASE Run
    <2>1. UNCHANGED <<queue, token, command, hpc>> /\ epc = "run" /\ epc' \in {"pace", "lo"}
      BY <1>6 DEF Run, shared, clientVars
    <2> QED BY <2>1 DEF WakeInv, Woken, OwnStop, PastDrain, Publishing
  <1>7. CASE Pace \/ Park \/ SpuriousWake
    <2>1. epc' = "drain"
      BY <1>7 DEF Pace, Park, SpuriousWake
    <2> QED BY <2>1 DEF WakeInv, Woken, OwnStop, PastDrain, Publishing
  <1> QED BY <1>1, <1>2, <1>3, <1>4, <1>5, <1>6, <1>7 DEF Emulation

(* The thread is never parked with a command waiting and no wakeup on its   *)
(* way: send pushes and then unparks, and every look at an empty ring that  *)
(* leads to a park comes before the push whose unpark ends it.              *)
THEOREM NeverParkedOnACommand == Spec => []NoLostWakeup
  <1>1. WakeInv /\ UNCHANGED vars => WakeInv'
    BY DEF vars, shared, emuVars, clientVars, WakeInv, Woken, OwnStop, PastDrain
  <1>2. WakeInv /\ [Next]_vars => WakeInv'
    BY <1>1, ClientWakes, EmulationWakes DEF Next
  <1>3. WakeInv => NoLostWakeup
    BY DEF WakeInv, Woken, PastDrain, NoLostWakeup
  <1> QED BY InitWakes, <1>2, <1>3, PTL DEF Spec

-----------------------------------------------------------------------------
(* The types. *)

LEMMA Numbers ==
    ASSUME TypeOK
    PROVE  /\ lo \in Nat /\ hi \in Nat /\ stops \in Nat /\ stop \in Nat /\ stops_seen \in Nat
           /\ words \in Nat /\ reports \in Nat /\ sent \in Nat /\ applied \in Nat
  BY DEF TypeOK

LEMMA ClientTypes ==
    ASSUME TypeOK, Client
    PROVE  TypeOK'
  <1>1. CASE \E c \in Commands : Send(c)
    <2> PICK c \in Commands : Send(c)
      BY <1>1
    <2>1. queue' \in Seq(Commands) /\ Len(queue') <= QueueCapacity
      BY EmuAssumption DEF TypeOK, Send, HasRoom
    <2>2. sent' \in Nat
      BY Numbers DEF Send
    <2> QED BY <2>1, <2>2 DEF TypeOK, Send, emuVars
  <1>2. CASE Drop
    <2>1. CASE HasRoom
      <3>1. queue' = Append(queue, "quit") /\ sent' = sent + 1 /\ "quit" \in Commands
        BY <1>2, <2>1 DEF Drop, Commands
      <3>2. queue' \in Seq(Commands) /\ Len(queue') <= QueueCapacity
        BY <2>1, <3>1, EmuAssumption DEF TypeOK, HasRoom
      <3>3. sent' \in Nat
        BY <3>1, Numbers
      <3> QED BY <1>2, <3>2, <3>3 DEF TypeOK, Drop, emuVars
    <2>2. CASE ~HasRoom
      BY <1>2, <2>2 DEF TypeOK, Drop, emuVars
    <2> QED BY <2>1, <2>2
  <1>3. CASE LoadHi
    <2>1. reports' \in Nat
      BY <1>3, Numbers DEF LoadHi
    <2> QED BY <1>3, <2>1 DEF TypeOK, LoadHi, shared, emuVars
  <1>4. CASE Unpark \/ WaitForStop
    BY <1>4 DEF TypeOK, Unpark, WaitForStop, shared, emuVars
  <1>5. CASE StopReason \/ LoadState \/ LoadLo
    BY <1>5 DEF TypeOK, StopReason, LoadState, LoadLo, shared, emuVars
  <1> QED BY <1>1, <1>2, <1>3, <1>4, <1>5 DEF Client

LEMMA EmulationTypes ==
    ASSUME TypeOK, Emulation \/ SpuriousWake
    PROVE  TypeOK'
  <1>1. CASE Pop
    <2>1. /\ queue' = Tail(queue) /\ command' = Head(queue) /\ queue # <<>>
          /\ queue \in Seq(Commands) /\ Len(queue) <= QueueCapacity /\ QueueCapacity \in Nat
      BY <1>1, EmuAssumption DEF TypeOK, Pop
    <2>2. queue' \in Seq(Commands) /\ Len(queue') <= QueueCapacity /\ command' \in Commands
      BY <2>1
    <2> QED BY <1>1, <2>2 DEF TypeOK, Pop, clientVars
  <1>2. CASE Apply
    <2>1. stop' \in Nat /\ applied' \in Nat
      BY <1>2, Numbers DEF Apply
    <2> QED BY <1>2, <2>1 DEF TypeOK, Apply, clientVars
  <1>3. CASE PublishLo \/ PublishHi \/ PublishState
    BY <1>3 DEF TypeOK, PublishLo, PublishHi, PublishState, clientVars
  <1>4. CASE PublishStops
    <2>1. stops' \in Nat /\ applied' \in Nat
      BY <1>4, Numbers DEF PublishStops
    <2>2. epc' \in {"exited", "park", "drain"}
      BY <1>4 DEF PublishStops
    <2> QED BY <1>4, <2>1, <2>2 DEF TypeOK, PublishStops, clientVars
  <1>5. CASE Run
    <2>1. stop' \in Nat
      BY <1>5, Numbers DEF Run
    <2> QED BY <1>5, <2>1 DEF TypeOK, Run, shared, clientVars
  <1>6. CASE EndDrain \/ Pace \/ Park \/ SpuriousWake
    BY <1>6 DEF TypeOK, EndDrain, Pace, Park, SpuriousWake, shared, clientVars
  <1> QED BY <1>1, <1>2, <1>3, <1>4, <1>5, <1>6 DEF Emulation

(* The ring never holds more than it has room for, and both ends' places    *)
(* and counts keep their types.                                             *)
THEOREM TypeCorrect == Spec => []TypeOK
  <1>1. Init => TypeOK
    <2> SUFFICES ASSUME Init PROVE TypeOK
      OBVIOUS
    <2>1. queue = <<>> /\ queue \in Seq(Commands) /\ Len(queue) = 0 /\ 0 <= QueueCapacity
      BY EmuAssumption DEF Init
    <2>2. Len(queue) <= QueueCapacity
      BY <2>1
    <2>3. {lo, hi, stops, stop, stops_seen, words, reports, sent, applied} \subseteq Nat
      <3>1. /\ lo = 0 /\ hi = 0 /\ stops = 0 /\ stop = 0 /\ stops_seen = 0
            /\ words = 0 /\ reports = 0 /\ sent = 0 /\ applied = 0
        BY DEF Init
      <3> QED BY <3>1
    <2>4. /\ state = "Paused" /\ token = FALSE /\ epc = "drain" /\ command = "none"
          /\ oneAtATime \in Clients /\ hpc = "idle" /\ how = "none"
      BY DEF Init
    <2> QED BY <2>1, <2>2, <2>3, <2>4 DEF TypeOK
  <1>2. TypeOK /\ UNCHANGED vars => TypeOK'
    BY DEF TypeOK, vars, shared, emuVars, clientVars
  <1>3. TypeOK /\ [Next]_vars => TypeOK'
    BY <1>2, ClientTypes, EmulationTypes DEF Next
  <1> QED BY <1>1, <1>3, PTL DEF Spec

-----------------------------------------------------------------------------
(* Every stop is told.  A client which moves the machine only when it has   *)
(* been told it stopped has at most one movement outstanding, so the words  *)
(* of the reason are never rewritten while it reads them.  A client that    *)
(* has begun to drop its handle has nothing more to be told.                *)

Moves == {"step", "resume", "quit"}
Reading == {"state", "lo", "hi"}

(* The machine is at rest with its n-th stop published. *)
Settled(n) ==
    /\ epc \in {"drain", "park", "exited"} /\ state # "Running"
    /\ stop = n /\ stops = n /\ lo = n /\ hi = n

(* The life of a movement: in the ring, taken out of it, run, published.    *)
Asked == (\E c \in Moves : queue = <<c>>) /\ Settled(stops_seen)
Taken ==
    /\ queue = <<>> /\ epc = "apply" /\ command \in Moves
    /\ stop = stops_seen /\ stops = stops_seen
Under ==
    /\ queue = <<>> /\ state = "Running" /\ epc \in {"drain", "run", "pace"}
    /\ stop = stops_seen /\ stops = stops_seen
InWords ==
    /\ queue = <<>> /\ epc \in Publishing
    /\ stop = stops_seen + 1 /\ stops = stops_seen
    /\ epc # "lo" => lo = stop
    /\ epc \in {"state", "stops"} => hi = stop
    /\ epc = "stops" => state # "Running"
Over == queue = <<>> /\ Settled(stops_seen + 1)

Phase ==
    \/ sent = stops_seen /\ queue = <<>> /\ Settled(stops_seen)
    \/ sent = stops_seen + 1 /\ hpc \in {"idle", "unpark"}
         /\ (Asked \/ Taken \/ Under \/ InWords \/ Over)

(* What the client has been told, and is in the middle of being told. *)
Reads ==
    /\ stops_seen = reports + (IF how = "wait" /\ hpc \in Reading THEN 1 ELSE 0)
    /\ hpc = "hi" => words = stops_seen

Answers == ReasonWhole /\ WaitReturnsStop /\ (answer.how = "wait" => answer.lo = reports)

ToldInv ==
    oneAtATime =>
      /\ Answers
      /\ IF how = "drop" THEN hpc \in {"unpark", "gone"} ELSE Phase /\ Reads /\ hpc # "gone"

LEMMA InitTold == Init => ToldInv
  <1> SUFFICES ASSUME Init PROVE ToldInv
    OBVIOUS
  <1>1. Answers
    BY DEF Init, Answers, ReasonWhole, WaitReturnsStop, NoAnswer
  <1>2. Phase
    BY DEF Init, Phase, Settled
  <1>3. Reads
    BY DEF Init, Reads, Reading
  <1> QED BY <1>1, <1>2, <1>3 DEF Init, ToldInv

(* The emulation thread takes a movement through its life and starts none   *)
(* of its own.                                                              *)
LEMMA EmulationPhase ==
    ASSUME TypeOK, Phase, Emulation \/ SpuriousWake
    PROVE  Phase'
  <1>0. UNCHANGED <<stops_seen, sent, hpc>> /\ stops_seen \in Nat
    BY Numbers
    DEF Emulation, Pop, Apply, PublishLo, PublishHi, PublishState, PublishStops, EndDrain, Run,
        Pace, Park, SpuriousWake, clientVars
  <1>1. CASE Pop
    <2>1. queue # <<>> /\ epc = "drain"
      BY <1>1 DEF Pop
    <2>2. PICK c \in Moves : queue = <<c>> /\ Settled(stops_seen)
      BY <2>1 DEF Phase, Asked, Taken, Under, InWords, Over
    <2>3. Head(queue) = c /\ Tail(queue) = <<>>
      BY <2>2
    <2>4. Taken'
      BY <1>0, <1>1, <2>2, <2>3 DEF Pop, Taken, Settled
    <2> QED BY <1>0, <2>1, <2>4 DEF Phase
  <1>2. CASE Apply
    <2>1. Taken
      BY <1>2 DEF Apply, Phase, Settled, Asked, Under, InWords, Over, Publishing
    <2>2. CASE Stops(command)
      <3>1. InWords'
        BY <1>0, <1>2, <2>1, <2>2 DEF Apply, Taken, InWords, Publishing
      <3> QED BY <1>0, <2>1, <3>1 DEF Phase, Taken, Settled
    <2>3. CASE ~Stops(command)
      <3>1. command = "resume"
        BY <2>1, <2>3 DEF Taken, Moves, Stops
      <3>2. Under'
        BY <1>0, <1>2, <2>1, <2>3, <3>1 DEF Apply, Taken, Under
      <3> QED BY <1>0, <1>2, <2>1, <3>2 DEF Apply, Phase, Taken, Settled
    <2> QED BY <2>2, <2>3
  <1>3. CASE PublishLo \/ PublishHi \/ PublishState
    <2>1. InWords
      BY <1>3 DEF PublishLo, PublishHi, PublishState, Phase, Settled, Asked, Taken, Under, Over
    <2>2. InWords'
      BY <1>0, <1>3, <2>1 DEF PublishLo, PublishHi, PublishState, InWords, Publishing
    <2> QED BY <1>0, <1>3, <2>1, <2>2
        DEF PublishLo, PublishHi, PublishState, Phase, InWords, Settled, Publishing
  <1>4. CASE PublishStops
    <2>1. InWords
      BY <1>4 DEF PublishStops, Phase, Settled, Asked, Taken, Under, Over
    <2>2. epc = "stops" /\ stops' = stops + 1 /\ epc' \in {"exited", "park", "drain"}
          /\ UNCHANGED <<queue, state, lo, hi, stop>>
      BY <1>4 DEF PublishStops
    <2>3. Over'
      BY <1>0, <2>1, <2>2 DEF InWords, Over, Settled
    <2> QED BY <1>0, <2>1, <2>2, <2>3 DEF Phase, InWords, Settled, Publishing
  <1>5. CASE EndDrain
    <2>1. queue = <<>> /\ epc = "drain" /\ UNCHANGED <<queue, state, stop, stops, lo, hi>>
          /\ epc' = IF state = "Running" THEN "run" ELSE "park"
      BY <1>5 DEF EndDrain, shared
    <2>2. \A n : Settled(n) => Settled(n)'
      BY <2>1 DEF Settled
    <2>3. Under => Under'
      BY <1>0, <2>1 DEF Under
    <2> QED BY <1>0, <2>1, <2>2, <2>3 DEF Phase, Asked, Taken, InWords, Publishing, Over
  <1>6. CASE Run
    <2>1. Under
      BY <1>6 DEF Run, Phase, Settled, Asked, Taken, InWords, Over, Publishing
    <2>2. Under' \/ InWords'
      BY <1>0, <1>6, <2>1 DEF Run, shared, Under, InWords, Publishing
    <2> QED BY <1>0, <1>6, <2>1, <2>2 DEF Run, Phase, Under, Settled
  <1>7. CASE Pace
    <2>1. Under
      BY <1>7 DEF Pace, Phase, Settled, Asked, Taken, InWords, Over, Publishing
    <2>2. Under'
      BY <1>0, <1>7, <2>1 DEF Pace, Under
    <2> QED BY <1>0, <1>7, <2>1, <2>2 DEF Pace, Phase, Under, Settled
  <1>8. CASE Park \/ SpuriousWake
    <2>1. epc = "park" /\ epc' = "drain" /\ UNCHANGED <<queue, state, stop, stops, lo, hi>>
      BY <1>8 DEF Park, SpuriousWake, shared
    <2>2. \A n : Settled(n) => Settled(n)'
      BY <2>1 DEF Settled
    <2> QED BY <1>0, <2>1, <2>2 DEF Phase, Asked, Taken, Under, InWords, Publishing, Over
  <1> QED BY <1>1, <1>2, <1>3, <1>4, <1>5, <1>6, <1>7, <1>8 DEF Emulation

LEMMA EmulationTold ==
    ASSUME TypeOK, ToldInv, Emulation \/ SpuriousWake
    PROVE  ToldInv'
  <1>1. UNCHANGED clientVars
    BY DEF Emulation, Pop, Apply, PublishLo, PublishHi, PublishState, PublishStops, EndDrain, Run,
           Pace, Park, SpuriousWake
  <1> QED BY <1>1, EmulationPhase
      DEF ToldInv, Answers, ReasonWhole, WaitReturnsStop, Reads, clientVars

-----------------------------------------------------------------------------
(* The client moves the machine only from rest, and reads only at rest.     *)

LEMMA SendTold ==
    ASSUME TypeOK, ToldInv, oneAtATime, NEW c \in Commands, Send(c)
    PROVE  ToldInv'
  <1>1. /\ hpc = "idle" /\ stops_seen = sent /\ c \in Moves
        /\ queue' = Append(queue, c) /\ sent' = sent + 1 /\ hpc' = "unpark" /\ how' = "send"
        /\ UNCHANGED <<state, lo, hi, stops, stop, epc, stops_seen, reports, answer, oneAtATime>>
    BY DEF Send, MaySend, Told, Moves, emuVars
  <1>2. how # "drop" /\ Phase /\ Reads /\ Answers
    BY <1>1 DEF ToldInv
  <1>3. queue = <<>> /\ Settled(stops_seen)
    BY <1>1, <1>2, Numbers DEF Phase
  <1>4. queue' = <<c>>
    BY <1>1, <1>3
  <1>5. Phase'
    BY <1>1, <1>3, <1>4 DEF Phase, Asked, Settled
  <1>6. Reads'
    BY <1>1, <1>2 DEF Reads, Reading
  <1>7. Answers'
    BY <1>1, <1>2 DEF Answers, ReasonWhole, WaitReturnsStop
  <1> QED BY <1>1, <1>5, <1>6, <1>7 DEF ToldInv

LEMMA DropTold ==
    ASSUME ToldInv, oneAtATime, Drop
    PROVE  ToldInv'
  <1>1. hpc' = "unpark" /\ how' = "drop" /\ UNCHANGED <<answer, reports, oneAtATime>>
    BY DEF Drop
  <1> QED BY <1>1 DEF ToldInv, Answers, ReasonWhole, WaitReturnsStop

LEMMA UnparkTold ==
    ASSUME ToldInv, oneAtATime, Unpark
    PROVE  ToldInv'
  <1>1. /\ hpc = "unpark" /\ hpc' = (IF how = "drop" THEN "gone" ELSE "idle")
        /\ UNCHANGED <<queue, state, lo, hi, stops, stop, epc, command, stops_seen, sent, how,
                       reports, answer, oneAtATime>>
    BY DEF Unpark, emuVars
  <1>2. Answers'
    BY <1>1 DEF ToldInv, Answers, ReasonWhole, WaitReturnsStop
  <1>3. CASE how = "drop"
    BY <1>1, <1>2, <1>3 DEF ToldInv
  <1>4. CASE how # "drop"
    <2>1. Phase'
      BY <1>1, <1>4 DEF ToldInv, Phase, Asked, Taken, Under, InWords, Over, Settled
    <2>2. Reads'
      BY <1>1, <1>4 DEF ToldInv, Reads, Reading
    <2> QED BY <1>1, <1>2, <1>4, <2>1, <2>2 DEF ToldInv
  <1> QED BY <1>3, <1>4

(* A wait is over only when the movement is, and takes its stop for seen.   *)
LEMMA WaitTold ==
    ASSUME TypeOK, ToldInv, oneAtATime, WaitForStop
    PROVE  ToldInv'
  <1>1. /\ hpc = "idle" /\ stops # stops_seen /\ stops_seen' = stops
        /\ hpc' = "state" /\ how' = "wait"
        /\ UNCHANGED <<queue, state, lo, hi, stops, stop, epc, sent, words, reports, answer,
                       oneAtATime>>
    BY DEF WaitForStop, shared, emuVars
  <1>2. how # "drop" /\ Phase /\ Reads /\ Answers
    BY <1>1 DEF ToldInv
  <1>3. Over /\ sent = stops_seen + 1
    BY <1>1, <1>2 DEF Phase, Asked, Taken, Under, InWords, Settled
  <1>4. stops = stops_seen + 1
    BY <1>3 DEF Over, Settled
  <1>5. Phase'
    BY <1>1, <1>3, <1>4 DEF Phase, Over, Settled
  <1>6. Reads'
    BY <1>1, <1>2, <1>4, Numbers DEF Reads, Reading
  <1>7. Answers'
    BY <1>1, <1>2 DEF Answers, ReasonWhole, WaitReturnsStop
  <1> QED BY <1>1, <1>5, <1>6, <1>7 DEF ToldInv

(* What a read answers with is the stop the client has just been told of.   *)
LEMMA ReadTold ==
    ASSUME TypeOK, ToldInv, oneAtATime, StopReason \/ LoadState \/ LoadLo \/ LoadHi
    PROVE  ToldInv'
  <1>1. UNCHANGED <<queue, state, lo, hi, stops, stop, epc, command, stops_seen, sent, oneAtATime>>
    BY DEF StopReason, LoadState, LoadLo, LoadHi, shared, emuVars
  <1>2. /\ hpc \in {"idle", "state", "lo", "hi"} /\ hpc' \in {"idle", "state", "lo", "hi"}
        /\ how' # "drop"
        /\ how # "drop" /\ Phase /\ Reads /\ Answers
    BY DEF ToldInv, StopReason, LoadState, LoadLo, LoadHi
  <1>3. sent = stops_seen
    BY <1>2 DEF Phase, StopReason, LoadState, LoadLo, LoadHi, Told
  <1>4. queue = <<>> /\ Settled(stops_seen)
    BY <1>2, <1>3, Numbers DEF Phase
  <1>5. Phase'
    BY <1>1, <1>3, <1>4 DEF Phase, Settled
  <1>6. CASE StopReason
    <2>1. Reads'
      BY <1>1, <1>2, <1>6 DEF Reads, Reading, StopReason
    <2>2. Answers'
      BY <1>2, <1>6 DEF Answers, ReasonWhole, WaitReturnsStop, StopReason
    <2> QED BY <1>2, <1>5, <2>1, <2>2 DEF ToldInv
  <1>7. CASE LoadState \/ LoadLo
    <2>1. hpc \in Reading /\ hpc' \in {"lo", "hi"} /\ UNCHANGED <<answer, reports, how>>
          /\ (hpc' = "hi" => words' = lo)
      BY <1>4, <1>7 DEF LoadState, LoadLo, Settled, Reading
    <2>2. Reads'
      BY <1>1, <1>2, <1>4, <2>1 DEF Reads, Reading, Settled
    <2>3. Answers'
      BY <1>2, <2>1 DEF Answers, ReasonWhole, WaitReturnsStop
    <2> QED BY <1>2, <1>5, <2>2, <2>3 DEF ToldInv
  <1>8. CASE LoadHi
    <2>1. /\ hpc = "hi" /\ hpc' = "idle" /\ how' = how
          /\ answer' = [how |-> how, stop |-> TRUE, lo |-> words, hi |-> hi]
          /\ reports' = IF how = "wait" THEN reports + 1 ELSE reports
      BY <1>8 DEF LoadHi
    <2>2. words = stops_seen /\ hi = stops_seen
      BY <1>2, <1>4, <2>1 DEF Reads, Settled
    <2>3. stops_seen = reports'
      BY <1>2, <2>1, Numbers DEF Reads, Reading
    <2>4. Reads'
      BY <1>1, <2>1, <2>3, Numbers DEF Reads, Reading
    <2>5. Answers'
      BY <2>1, <2>2, <2>3 DEF Answers, ReasonWhole, WaitReturnsStop
    <2> QED BY <1>2, <1>5, <2>4, <2>5 DEF ToldInv
  <1> QED BY <1>6, <1>7, <1>8

(* For a client that moves the machine only when it has been told it        *)
(* stopped: a reason is never the parts of two, a wait never answers that   *)
(* there is none, and the n-th answer to a wait is the n-th stop.           *)
THEOREM EachStopTold == Spec => []ToldOfEachStop
  <1>1. ToldInv /\ UNCHANGED vars => ToldInv'
    BY DEF vars, shared, emuVars, clientVars, ToldInv, Answers, ReasonWhole, WaitReturnsStop, Phase,
           Asked, Taken, Under, InWords, Over, Settled, Reads
  <1>2. TypeOK /\ ToldInv /\ [Next]_vars => ToldInv'
    <2> SUFFICES ASSUME TypeOK, ToldInv, Next PROVE ToldInv'
      BY <1>1
    <2>1. CASE ~oneAtATime
      <3>1. oneAtATime' = oneAtATime
        BY DEF Next, Emulation, Pop, Apply, PublishLo, PublishHi, PublishState, PublishStops,
               EndDrain, Run, Pace, Park, SpuriousWake, Client, Send, Unpark, Drop, WaitForStop,
               StopReason, LoadState, LoadLo, LoadHi, clientVars
      <3> QED BY <2>1, <3>1 DEF ToldInv
    <2>2. CASE oneAtATime
      BY <2>2, EmulationTold, SendTold, UnparkTold, DropTold, WaitTold, ReadTold DEF Next, Client
    <2> QED BY <2>1, <2>2
  <1>3. ToldInv => ToldOfEachStop
    BY DEF ToldInv, Answers, ToldOfEachStop
  <1> QED BY InitTold, <1>2, <1>3, TypeCorrect, PTL DEF Spec
=============================================================================
