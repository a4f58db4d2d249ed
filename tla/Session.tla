------------------------------ MODULE Session -------------------------------
(***************************************************************************)
(* The window's session: what a key event, a function key or a change of   *)
(* focus makes of the state it can read (the run state, the deck's light,  *)
(* its own record of the keys held) and of the command ring, and the       *)
(* emulation thread at the other end, pacing itself.                       *)
(*                                                                         *)
(* A handler that reads the run state or the light and then sends is two   *)
(* steps, the emulation thread free to act between them (window says where *)
(* the handler is).  Which commands stop a parked thread's sleep, and why  *)
(* no wake-up is lost, is module Emu's business: here a command that gets  *)
(* into the ring leaves a token.                                           *)
(***************************************************************************)
EXTENDS Pacing, Wire, SequencesExt

CONSTANTS
    HostKeys,      \* keys on the host's keyboard
    MaxHeld,       \* host keys that can be held at once
    Room,          \* commands the ring holds
    Hands,         \* bound: what the user is busy with: "keys", the machine's; "buttons", the
                   \* function keys, with time left out; or "speed", those that change the
                   \* machine's speed or stop it, and time
    MaxPress       \* bound: presses of the function keys

ASSUME SessionAssumption ==
    /\ \A k \in HostKeys : PC(k) # {}
    /\ MaxHeld \in Nat \ {0} /\ Room \in Nat \ {0} /\ MaxPress \in Nat

VARIABLES
    hands, down,       \* what the user is at, and the keys under the fingers
    focus,             \* the window has the keyboard
    held, matrix,      \* the session: host keys held, oldest first, and the matrix last sent
    muted, silent,     \* the user's mute, and the volume's
    window, seen,      \* where a handler is, and what it read
    presses,           \* function keys pressed
    ring, token,       \* the command ring, in words, and the thread's park token
    state,             \* the run state
    thread,            \* the emulation thread: "drain", "wait" (pacing), "park"
    latched, keys,     \* the machine: its keyboard as last told, and as in force this frame
    deck, light,       \* the tape, and the deck's light as last painted
    told,              \* history: the run state the user was last promised
    nudged,            \* history: a wake has sent a Resume since
    refused            \* history: "keys" the last matrix, or "button" a command, found no room

windowVars == <<hands, down, focus, held, matrix, muted, silent, window, seen, presses>>
machineVars == <<state, thread, latched, keys, deck, light>>
vars == <<pacing, windowVars, machineVars, ring, token, told, nudged, refused>>

\* The keys of the machine's that host keys hold down, and the matrix they make.
KeysOf(h) == UNION {PC(h[i]) : i \in DOMAIN h}
MatrixOf(h) == Matrix(Holding(KeysOf(h)))

Resume == [is |-> "Resume"]
Tape(button) == [is |-> "Tape", button |-> button]

Init ==
    /\ PacingInit
    /\ hands \in Hands
    /\ down = {} /\ focus = TRUE
    /\ held = <<>> /\ matrix = {}
    /\ muted = FALSE /\ silent = FALSE
    /\ window = "idle" /\ seen = "nothing"
    /\ presses = 0
    /\ ring = <<Encode(Resume)>> /\ token = TRUE
    /\ state = "Paused" /\ thread = "drain"
    /\ latched = NoKeys /\ keys = NoKeys
    /\ deck = "stopped" /\ light = FALSE
    /\ told = "Running" /\ nudged = FALSE /\ refused = {}

(***************************************************************************)
(* Sending: a full ring refuses.                                           *)
(***************************************************************************)
HasRoom == Len(ring) < Room

Send(c) ==
    IF HasRoom THEN ring' = Append(ring, Encode(c)) /\ token' = TRUE
    ELSE UNCHANGED <<ring, token>>

SendButton(c) ==
    /\ Send(c)
    /\ refused' = IF HasRoom THEN refused ELSE refused \cup {"button"}

(***************************************************************************)
(* Keys of the machine's.  The matrix is rebuilt from all that is held.    *)
(***************************************************************************)
IsHeld(k) == \E i \in DOMAIN held : held[i] = k

\* Past the limit the oldest key held is forgotten.
Pressed(k) ==
    IF IsHeld(k) THEN held
    ELSE Append(IF Len(held) = MaxHeld THEN Tail(held) ELSE held, k)

Released(k) == RemoveFirst(held, k)

\* Mutant: what was not sent is written down as sent.
SendAndRecord(h) ==
    /\ held' = h
    /\ matrix' = MatrixOf(h)
    /\ IF MatrixOf(h) = matrix THEN UNCHANGED <<ring, token>> ELSE Send([is |-> "Keys", matrix |-> MatrixOf(h)])
    /\ refused' = refused \ {"keys"}

SendMatrix(h) ==
    /\ held' = h
    /\ IF MatrixOf(h) = matrix THEN UNCHANGED <<ring, token, matrix>> /\ refused' = refused \ {"keys"}
       ELSE /\ Send([is |-> "Keys", matrix |-> MatrixOf(h)])
            /\ matrix' = IF HasRoom THEN MatrixOf(h) ELSE matrix
            /\ refused' = IF HasRoom THEN refused \ {"keys"} ELSE refused \cup {"keys"}

Typing == hands = "keys" /\ window = "idle" /\ state # "Exited"
NoOther == UNCHANGED <<pacing, hands, muted, silent, window, seen, presses, machineVars, told, nudged>>

\* A press, or the auto-repeat of one.
KeyDown(k) ==
    /\ Typing /\ focus
    /\ down' = down \cup {k}
    /\ SendMatrix(Pressed(k))
    /\ UNCHANGED focus
    /\ NoOther

KeyUp(k) ==
    /\ Typing /\ focus /\ k \in down
    /\ down' = down \ {k}
    /\ SendMatrix(Released(k))
    /\ UNCHANGED focus
    /\ NoOther

\* Fingers come and go with the keyboard elsewhere, and nobody is told.
Elsewhere ==
    /\ Typing /\ ~focus
    /\ \E k \in HostKeys : down' = IF k \in down THEN down \ {k} ELSE down \cup {k}
    /\ UNCHANGED <<focus, held, matrix, ring, token, refused>>
    /\ NoOther

LoseFocus ==
    /\ Typing /\ focus
    /\ focus' = FALSE
    /\ SendMatrix(<<>>)
    /\ UNCHANGED down
    /\ NoOther

GainFocus ==
    /\ Typing /\ ~focus
    /\ focus' = TRUE
    /\ UNCHANGED <<down, held, matrix, ring, token, refused>>
    /\ NoOther

(***************************************************************************)
(* The function keys.                                                      *)
(***************************************************************************)
Policy(m, s, knob) == silent' = (m \/ ~(knob = "Normal" /\ s = "Running"))

Fixed == UNCHANGED <<hands, down, focus, held, matrix>>

Begin(at_step, read) ==
    /\ hands # "keys" /\ window = "idle" /\ presses < MaxPress /\ state # "Exited"
    /\ presses' = presses + 1
    /\ window' = at_step
    /\ seen' = read
    /\ UNCHANGED <<muted, silent, ring, token, refused, machineVars>>
    /\ Fixed

Lit == IF light THEN "lit" ELSE "dark"

PressPause == Begin("pause", state) /\ UNCHANGED <<pacing, told, nudged>>
PressTape == hands = "buttons" /\ Begin("tape", Lit) /\ UNCHANGED <<pacing, told, nudged>>
PressRewind == hands = "buttons" /\ Begin("rewind", "nothing") /\ UNCHANGED <<pacing, told, nudged>>
PressReset == hands = "buttons" /\ Begin("reset", "nothing") /\ UNCHANGED <<pacing, told, nudged>>
PressQuit == hands = "buttons" /\ Begin("quit", "nothing") /\ UNCHANGED <<pacing, told, nudged>>
PressSpeed == Begin("wake", "nothing") /\ Turn /\ UNCHANGED <<told, nudged>>

Handle(here, next) ==
    /\ window = here
    /\ window' = next
    /\ seen' = "nothing"
    /\ UNCHANGED <<pacing, presses, muted, machineVars>>
    /\ Fixed

Promise(s) == told' = s /\ nudged' = FALSE

\* Decides from a state the commands still in the ring have not reached.
TogglePause ==
    /\ Handle("pause", "policy")
    /\ SendButton([is |-> IF seen = "Running" THEN "Pause" ELSE "Resume"])
    /\ Promise(IF seen = "Running" THEN "Paused" ELSE "Running")
    /\ UNCHANGED silent

ToggleTape ==
    /\ Handle("tape", "wake")
    /\ SendButton(Tape(IF seen = "lit" THEN "Stop" ELSE "Play"))
    /\ UNCHANGED <<silent, told, nudged>>

Rewind ==
    /\ Handle("rewind", "policy")
    /\ SendButton(Tape("Rewind"))
    /\ UNCHANGED <<silent, told, nudged>>

Reset ==
    /\ Handle("reset", "resume")
    /\ SendButton([is |-> "Reset"])
    /\ UNCHANGED <<silent, told, nudged>>

\* Mutant: a reset leaves a paused machine paused.
ResetOnly ==
    /\ Handle("resume", "policy")
    /\ Promise("Running")
    /\ UNCHANGED <<silent, ring, token, refused>>

ResumeAfterReset ==
    /\ Handle("resume", "policy")
    /\ SendButton(Resume)
    /\ Promise("Running")
    /\ UNCHANGED silent

\* A parked thread is woken with a Resume, if it was running when last looked at.
WakeLooks ==
    /\ window = "wake"
    /\ window' = IF state = "Running" THEN "nudge" ELSE "policy"
    /\ UNCHANGED <<pacing, seen, presses, muted, silent, machineVars, ring, token, refused, told, nudged>>
    /\ Fixed

WakeSends ==
    /\ Handle("nudge", "policy")
    /\ Send(Resume)
    /\ nudged' = (nudged \/ HasRoom)
    /\ UNCHANGED <<silent, told, refused>>

Quit ==
    /\ Handle("quit", "gone")
    /\ SendButton([is |-> "Quit"])
    /\ Promise("Exited")
    /\ UNCHANGED silent

\* Every function key ends with the mute policy, and so does every poll.
ApplyMutePolicy ==
    /\ window = "policy" \/ (window = "idle" /\ hands = "buttons")
    /\ window' = "idle"
    /\ Policy(muted, state, speed)
    /\ UNCHANGED <<pacing, seen, presses, muted, machineVars, ring, token, told, nudged, refused>>
    /\ Fixed

ToggleMute ==
    /\ hands = "buttons" /\ window = "idle" /\ presses < MaxPress
    /\ presses' = presses + 1
    /\ muted' = ~muted
    /\ Policy(~muted, state, speed)
    /\ UNCHANGED <<pacing, window, seen, machineVars, ring, token, told, nudged, refused>>
    /\ Fixed

(***************************************************************************)
(* The emulation thread.                                                   *)
(***************************************************************************)
\* Bound: at the speed keys a handler is over before anything else happens.
Free == hands = "speed" => window = "idle"

NotWindow == UNCHANGED <<windowVars, told, nudged, refused>>

Apply ==
    /\ thread = "drain" /\ ring # <<>> /\ state # "Exited"
    /\ ring' = Tail(ring)
    /\ LET c == Decode(Head(ring))
       IN  /\ state' = CASE c.is = "Resume" -> "Running"
                         [] c.is = "Pause" -> "Paused"
                         [] c.is = "Quit" -> "Exited"
                         [] OTHER -> state
           /\ latched' = IF c.is = "Keys" THEN FromMatrix(c.matrix) ELSE latched
           /\ deck' = CASE c = Tape("Play") /\ deck # "ended" -> "playing"
                        [] c = Tape("Stop") /\ deck = "playing" -> "stopped"
                        [] c = Tape("Rewind") /\ deck = "ended" -> "stopped"
                        [] OTHER -> deck
    /\ IF state = "Paused" /\ state' = "Running" THEN Start ELSE UNCHANGED pacing
    /\ UNCHANGED <<thread, keys, light, token>>
    /\ NotWindow

\* A slice; at the end of a frame, the picture and the keys for the next; and what the pacer makes of it.
Slice ==
    /\ thread = "drain" /\ ring = <<>> /\ state = "Running"
    /\ IF hands = "speed" THEN RunSlice ELSE RunUntimed
    /\ deck' \in {deck} \cup (IF deck = "playing" THEN {"ended"} ELSE {})
    /\ keys' = IF at' = 0 THEN latched ELSE keys
    /\ light' = IF at' = 0 THEN deck' = "playing" ELSE light
    /\ thread' = IF left' > 0 THEN "wait" ELSE "drain"
    /\ UNCHANGED <<state, latched, ring, token>>
    /\ NotWindow

GoToSleep ==
    /\ thread = "drain" /\ ring = <<>> /\ state = "Paused"
    /\ thread' = "park"
    /\ UNCHANGED <<pacing, state, latched, keys, deck, light, ring, token>>
    /\ NotWindow

Woken ==
    /\ thread \in {"wait", "park"} /\ token
    /\ token' = FALSE
    /\ thread' = "drain"
    /\ CutShort
    /\ UNCHANGED <<state, latched, keys, deck, light, ring>>
    /\ NotWindow

TimeUp ==
    /\ thread = "wait" /\ left = 0 /\ ~token
    /\ thread' = "drain"
    /\ UNCHANGED <<pacing, state, latched, keys, deck, light, ring, token>>
    /\ NotWindow

Tick ==
    /\ hands = "speed" /\ Free
    /\ TickOn(state = "Running")
    /\ UNCHANGED <<machineVars, ring, token>>
    /\ NotWindow

Window ==
    \/ \E k \in HostKeys : KeyDown(k) \/ KeyUp(k)
    \/ Elsewhere \/ LoseFocus \/ GainFocus
    \/ PressPause \/ PressTape \/ PressRewind \/ PressReset \/ PressSpeed \/ PressQuit
    \/ ToggleMute

Handler ==
    \/ TogglePause \/ ToggleTape \/ Rewind \/ Reset \/ ResumeAfterReset \/ Quit
    \/ WakeLooks \/ WakeSends \/ ApplyMutePolicy

Thread == Free /\ (Apply \/ Slice \/ GoToSleep \/ Woken \/ TimeUp)

Next == Window \/ Handler \/ Thread \/ Tick

Spec == Init /\ [][Next]_vars

(***************************************************************************)
(* Properties.                                                             *)
(***************************************************************************)
TypeOK ==
    /\ PacingTypeOK
    /\ down \subseteq HostKeys /\ focus \in BOOLEAN
    /\ Len(held) <= MaxHeld /\ Len(ring) <= Room
    /\ muted \in BOOLEAN /\ silent \in BOOLEAN /\ token \in BOOLEAN
    /\ state \in {"Running", "Paused", "Exited"}
    /\ deck \in {"stopped", "playing", "ended"} /\ light \in BOOLEAN

\* The last of these commands in a ring; none of them is in it.
LastSent(words, kinds, c) ==
    \E n \in DOMAIN words :
        /\ Decode(words[n]) = c /\ c.is \in kinds
        /\ \A later \in DOMAIN words : later > n => Decode(words[later]).is \notin kinds
NoneSent(words, kinds) == \A n \in DOMAIN words : Decode(words[n]).is \notin kinds

\* The matrix the machine has been told, or is about to be.
HeadedFor(m) ==
    \/ LastSent(ring, {"Keys"}, [is |-> "Keys", matrix |-> m])
    \/ NoneSent(ring, {"Keys"}) /\ Matrix(latched) = m

\* What a scan of these half-rows reads while these keys of the host's are held.
Scans == {{r} : r \in HalfRows} \cup {{0, 3}, {0, 4}, HalfRows, {}}
Reading(h, low) ==
    Columns \ {Column(key) : key \in {k \in KeysOf(h) : HalfRow(k) \in low}}

\* No key sticks, none is let go of early and none is mistaken for another
\* (session.rs key, release_all, send_matrix): what the machine has been told,
\* or is about to be, is the matrix the session thinks it sent, which is that
\* of the keys it holds unless the last one found no room; it holds no key
\* that is not under a finger, none at all without the focus, none twice and
\* no more than it can; and from the first frame that starts with everything
\* told, a scan of any half-rows finds the columns of those keys and no other.
KeysArrive ==
    /\ HeadedFor(matrix)
    /\ "keys" \notin refused => matrix = MatrixOf(held)
    /\ \A i \in DOMAIN held : focus /\ held[i] \in down
    /\ \A i, j \in DOMAIN held : i # j => held[i] # held[j]
    /\ Len(held) <= MaxHeld
    /\ ring = <<>> /\ latched = keys /\ "keys" \notin refused =>
         \A low \in Scans : Read(keys, low) = Reading(held, low)

\* Once the ring is empty and the handlers have returned, the machine is in
\* the state the user was last promised (session.rs: toggle_pause "returns
\* the state it is now heading for"; a reset starts it; quit stops it for
\* good), however the presses fell against the thread; unless a command found
\* no room, or a wake read Running with the Pause still on its way and sent
\* the Resume that undoes it.
PromisesKept ==
    ring = <<>> /\ window \in {"idle", "gone"} /\ "button" \notin refused =>
        \/ state = told
        \/ told = "Paused" /\ nudged /\ state = "Running"

\* By the clock, the machine is never ahead of it by more than a slice for
\* every wait cut short, nor made to wait while it is not ahead, since its
\* pacer saw that speed; except for the time it stood paused, which it makes up.
PacedByTheClock ==
    ByTheClock(by) /\ ~restarted =>
        /\ lead <= SliceAt(by) * (1 + cuts)
        /\ left <= Most(lead, 0)

\* At the speed asked for (pacing.rs): by the clock so, and by the speaker with
\* no sound lost.
PacedAsAsked == PacedByTheClock /\ ~spilt

\* pacing.rs:29: "emulated time against elapsed time, twice as fast", with
\* nothing to make up for the time it was stopped.
TwiceAsFast == by = "Double" => lead <= SliceAt(by) * (1 + cuts)
=============================================================================
