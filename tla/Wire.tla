-------------------------------- MODULE Wire --------------------------------
(***************************************************************************)
(* What a command, an event and a stop reason are while they are two words *)
(* in a ring or in shared memory: command.rs, event.rs and emu.rs of       *)
(* rkw-debug.                                                              *)
(*                                                                         *)
(* A word, an address, a number or a byte is the set of its bits that are  *)
(* 1, so that | is union and << moves the bits up.                         *)
(***************************************************************************)
EXTENDS Keyboard

Word(n) == SUBSET (0 .. n - 1)
Up(bits, n) == {i + n : i \in bits}
Field(word, from, width) == {i \in 0 .. width - 1 : i + from \in word}
Flag(on, at) == IF on THEN {at} ELSE {}

Nothing == [is |-> "nothing"]

-----------------------------------------------------------------------------
(* Commands: all in the first word, above the kind byte.                    *)
Plain == {"Resume", "Pause", "Step", "StepOver", "StepOut", "ClearAll", "Reset", "Quit"}
Addressed == {"RunTo", "Break", "Unbreak", "Unwatch", "SetPc"}

Command ==
    [is : Plain] \cup [is : Addressed, addr : Word(16)]
    \cup [is : {"Watch"}, addr : Word(16), read : BOOLEAN, write : BOOLEAN]
    \cup [is : {"Poke"}, addr : Word(16), value : Word(8)]
    \cup [is : {"Keys"}, matrix : Word(40)]
    \cup [is : {"Tape"}, button : {"Play", "Stop", "Rewind"}]

\* 1 to 17 as bits, and the codes 0 to 2.
Kind == [Resume |-> {0}, Pause |-> {1}, Step |-> {0, 1}, StepOver |-> {2}, StepOut |-> {0, 2},
         RunTo |-> {1, 2}, Break |-> {0, 1, 2}, Unbreak |-> {3}, Watch |-> {0, 3},
         Unwatch |-> {1, 3}, ClearAll |-> {0, 1, 3}, Poke |-> {2, 3}, Quit |-> {0, 2, 3},
         Reset |-> {1, 2, 3}, SetPc |-> {0, 1, 2, 3}, Keys |-> {4}, Tape |-> {0, 4}]
Code == [Play |-> {}, Stop |-> {0}, Rewind |-> {1}]

Payload(c) ==
    CASE c.is \in Addressed -> Up(c.addr, 8)
      [] c.is = "Watch" -> Up(c.addr, 8) \cup Flag(c.read, 24) \cup Flag(c.write, 25)
      [] c.is = "Poke" -> Up(c.addr, 8) \cup Up(c.value, 24)
      [] c.is = "Keys" -> Up(c.matrix \cap 0 .. 39, 8)
      [] c.is = "Tape" -> Up(Code[c.button], 8)
      [] OTHER -> {}
Encode(c) == <<Kind[c.is] \cup Payload(c), {}>>

\* The addresses and the keys share bits 8 to 23: only the kind tells them apart.
Opened(is, word) ==
    CASE is \in Plain -> [is |-> is]
      [] is \in Addressed -> [is |-> is, addr |-> Field(word, 8, 16)]
      [] is = "Watch" ->
           [is |-> is, addr |-> Field(word, 8, 16), read |-> 24 \in word, write |-> 25 \in word]
      [] is = "Poke" -> [is |-> is, addr |-> Field(word, 8, 16), value |-> Field(word, 24, 8)]
      [] is = "Keys" -> [is |-> is, matrix |-> Field(word, 8, 40)]
      [] is = "Tape" /\ Field(word, 8, 56) = {} -> [is |-> is, button |-> "Play"]
      [] is = "Tape" /\ Field(word, 8, 56) = {0} -> [is |-> is, button |-> "Stop"]
      [] is = "Tape" /\ Field(word, 8, 56) = {1} -> [is |-> is, button |-> "Rewind"]
      [] OTHER -> Nothing

\* A reserved bit or a kind of no command's is no command.
Decode(words) ==
    IF words[2] = {} /\ \E is \in DOMAIN Kind : Field(words[1], 0, 8) = Kind[is]
      THEN Opened(CHOOSE is \in DOMAIN Kind : Field(words[1], 0, 8) = Kind[is], words[1])
      ELSE Nothing

-----------------------------------------------------------------------------
(* Events: the T-state whole, then a kind byte and what it is of.           *)
Event ==
    [is : {"Exec"}, t : Word(64), pc : Word(16)]
    \cup [is : {"MemWrite"}, t : Word(64), addr : Word(16), value : Word(8)]
    \cup [is : {"PortOut"}, t : Word(64), port : Word(16), value : Word(8)]
    \cup [is : {"Applied"}, t : Word(64), seq : Word(32)]

EncodeEvent(e) ==
    <<e.t, CASE e.is = "Exec" -> {0} \cup Up(e.pc, 8)
             [] e.is = "MemWrite" -> {1} \cup Up(e.addr, 8) \cup Up(e.value, 24)
             [] e.is = "PortOut" -> {0, 1} \cup Up(e.port, 8) \cup Up(e.value, 24)
             [] e.is = "Applied" -> {2} \cup Up(e.seq, 8)>>

DecodeEvent(words) ==
    LET kind == Field(words[2], 0, 8)
        addr == Field(words[2], 8, 16)
        value == Field(words[2], 24, 8)
    IN  CASE kind = {0} -> [is |-> "Exec", t |-> words[1], pc |-> addr]
          [] kind = {1} -> [is |-> "MemWrite", t |-> words[1], addr |-> addr, value |-> value]
          [] kind = {0, 1} -> [is |-> "PortOut", t |-> words[1], port |-> addr, value |-> value]
          [] kind = {2} -> [is |-> "Applied", t |-> words[1], seq |-> Field(words[2], 8, 32)]
          [] OTHER -> Nothing

-----------------------------------------------------------------------------
(* Stop reasons: kind and id in the first word, the rest in the second.     *)
Reason ==
    [is : {"Step", "Halted", "Paused", "OutOfBudget"}]
    \cup [is : {"Breakpoint"}, id : Word(32), addr : Word(16)]
    \cup [is : {"Watchpoint"}, id : Word(32), addr : Word(16), wrote : BOOLEAN,
          old : Word(8), new : Word(8)]
    \cup [is : {"PortWatchpoint"}, id : Word(32), addr : Word(16), wrote : BOOLEAN,
          value : Word(8)]

EncodeReason(r) ==
    CASE r.is = "Step" -> <<{0}, {}>>
      [] r.is = "Halted" -> <<{0, 2}, {}>>
      [] r.is = "Paused" -> <<{1, 2}, {}>>
      [] r.is = "OutOfBudget" -> <<{0, 1, 2}, {}>>
      [] r.is = "Breakpoint" -> <<{1} \cup Up(r.id, 8), r.addr>>
      [] r.is = "Watchpoint" ->
           <<{0, 1} \cup Up(r.id, 8),
             r.addr \cup Flag(r.wrote, 16) \cup Up(r.old, 24) \cup Up(r.new, 32)>>
      [] r.is = "PortWatchpoint" ->
           <<{2} \cup Up(r.id, 8), r.addr \cup Flag(r.wrote, 16) \cup Up(r.value, 24)>>

DecodeReason(words) ==
    LET kind == Field(words[1], 0, 8)
        id == Field(words[1], 8, 32)
        addr == Field(words[2], 0, 16)
        wrote == 16 \in words[2]
    IN  CASE kind = {0} -> [is |-> "Step"]
          [] kind = {0, 2} -> [is |-> "Halted"]
          [] kind = {1, 2} -> [is |-> "Paused"]
          [] kind = {0, 1, 2} -> [is |-> "OutOfBudget"]
          [] kind = {1} -> [is |-> "Breakpoint", id |-> id, addr |-> addr]
          [] kind = {0, 1} ->
               [is |-> "Watchpoint", id |-> id, addr |-> addr, wrote |-> wrote,
                old |-> Field(words[2], 24, 8), new |-> Field(words[2], 32, 8)]
          [] kind = {2} ->
               [is |-> "PortWatchpoint", id |-> id, addr |-> addr, wrote |-> wrote,
                value |-> Field(words[2], 24, 8)]
          [] OTHER -> Nothing
=============================================================================
