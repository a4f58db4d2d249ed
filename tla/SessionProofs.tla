--------------------------- MODULE SessionProofs ---------------------------
(***************************************************************************)
(* For any keyboard, any ring, any number of keys held and any speed: no   *)
(* key sticks or goes missing between the window and the machine, the      *)
(* machine ends up as the user was told it would, and it is paced as asked.*)
(* Before that, the words the two sides speak in: a command, an event and  *)
(* a stop reason each come out of their two words as they went in.         *)
(***************************************************************************)
EXTENDS Session, SequenceTheorems, TLAPS

-----------------------------------------------------------------------------
(* The words of the ring.                                                   *)

LEMMA UpIn ==
    ASSUME NEW n \in Nat, NEW bits \in SUBSET Nat, NEW i \in Int
    PROVE  i \in Up(bits, n) <=> i - n \in bits
  BY DEF Up

LEMMA FieldIs ==
    ASSUME NEW word, NEW n \in Nat, NEW w \in Nat, NEW bits \in Word(w),
           \A i \in 0 .. w - 1 : i + n \in word <=> i \in bits
    PROVE  Field(word, n, w) = bits
  BY DEF Field, Word

(* A kind byte and one field above it do not touch.                         *)
LEMMA OneField ==
    ASSUME NEW k \in Word(8), NEW w \in Nat, NEW b \in Word(w),
           NEW word, word = k \cup Up(b, 8)
    PROVE  Field(word, 0, 8) = k /\ Field(word, 8, w) = b
  <1>1. \A i \in Int : i \in Up(b, 8) <=> i - 8 \in b
    BY UpIn DEF Word
  <1>2. \A i \in 0 .. 8 - 1 : i + 0 \in word <=> i \in k
    BY <1>1 DEF Word
  <1>3. \A i \in 0 .. w - 1 : i + 8 \in word <=> i \in b
    BY <1>1 DEF Word
  <1>4. Field(word, 0, 8) = k
    BY <1>2, FieldIs
  <1>5. Field(word, 8, w) = b
    BY <1>3, FieldIs
  <1> QED BY <1>4, <1>5

(* Nor does what is put above an address of sixteen bits.                   *)
LEMMA AddressField ==
    ASSUME NEW k \in Word(8), NEW addr \in Word(16),
           NEW rest, \A i \in rest : i \in Int /\ i >= 24,
           NEW word, word = k \cup Up(addr, 8) \cup rest
    PROVE  /\ Field(word, 0, 8) = k /\ Field(word, 8, 16) = addr
           /\ \A i \in Int : i >= 24 => (i \in word <=> i \in rest)
  <1>1. \A i \in Int : i \in Up(addr, 8) <=> i - 8 \in addr
    BY UpIn DEF Word
  <1>2. \A i \in 0 .. 8 - 1 : i + 0 \in word <=> i \in k
    BY <1>1 DEF Word
  <1>3. \A i \in 0 .. 16 - 1 : i + 8 \in word <=> i \in addr
    BY <1>1 DEF Word
  <1>4. \A i \in Int : i >= 24 => (i \in word <=> i \in rest)
    BY <1>1 DEF Word
  <1>5. Field(word, 0, 8) = k
    BY <1>2, FieldIs
  <1>6. Field(word, 8, 16) = addr
    BY <1>3, FieldIs
  <1> QED BY <1>4, <1>5, <1>6

LEMMA ByteField ==
    ASSUME NEW k \in Word(8), NEW addr \in Word(16), NEW value \in Word(8),
           NEW word, word = k \cup Up(addr, 8) \cup Up(value, 24)
    PROVE  /\ Field(word, 0, 8) = k /\ Field(word, 8, 16) = addr
           /\ Field(word, 24, 8) = value
  <1>1. \A i \in Up(value, 24) : i \in Int /\ i >= 24
    BY DEF Up, Word
  <1>2. \A i \in 0 .. 8 - 1 : i + 24 \in Up(value, 24) <=> i \in value
    <2>1. ASSUME NEW i \in 0 .. 8 - 1 PROVE i + 24 \in Up(value, 24) <=> i + 24 - 24 \in value
      BY UpIn DEF Word
    <2> QED BY <2>1
  <1> DEFINE rest == Up(value, 24)
  <1> HIDE DEF rest
  <1>3. /\ Field(word, 0, 8) = k /\ Field(word, 8, 16) = addr
        /\ \A i \in Int : i >= 24 => (i \in word <=> i \in rest)
    <2>1. word = k \cup Up(addr, 8) \cup rest /\ \A i \in rest : i \in Int /\ i >= 24
      BY <1>1 DEF rest
    <2> QED BY <2>1, AddressField
  <1>4. \A i \in 0 .. 8 - 1 : i + 24 \in word <=> i \in value
    BY <1>2, <1>3 DEF rest
  <1>5. Field(word, 24, 8) = value
    BY <1>4, FieldIs
  <1> QED BY <1>3, <1>5

LEMMA KindsDiffer ==
    /\ \A is \in DOMAIN Kind : Kind[is] \in Word(8)
    /\ \A a, b \in DOMAIN Kind : Kind[a] = Kind[b] => a = b
  <1>1. \A is \in DOMAIN Kind : Kind[is] \in Word(8)
    BY DEF Kind, Word
  <1>2. ASSUME NEW a \in DOMAIN Kind, NEW b \in DOMAIN Kind, Kind[a] = Kind[b]
        PROVE  a = b
    <2>1. \A i \in 0 .. 4 : i \in Kind[a] <=> i \in Kind[b]
      BY <1>2
    <2> QED BY <2>1 DEF Kind
  <1> QED BY <1>1, <1>2

LEMMA CommandShape ==
    ASSUME NEW c \in Command
    PROVE  /\ c.is \in DOMAIN Kind
           /\ \/ c.is \in Plain /\ c = [is |-> c.is]
              \/ c.is \in Addressed /\ c.addr \in Word(16) /\ c = [is |-> c.is, addr |-> c.addr]
              \/ /\ c.is = "Watch" /\ c.addr \in Word(16)
                 /\ c.read \in BOOLEAN /\ c.write \in BOOLEAN
                 /\ c = [is |-> c.is, addr |-> c.addr, read |-> c.read, write |-> c.write]
              \/ /\ c.is = "Poke" /\ c.addr \in Word(16) /\ c.value \in Word(8)
                 /\ c = [is |-> c.is, addr |-> c.addr, value |-> c.value]
              \/ c.is = "Keys" /\ c.matrix \in Word(40) /\ c = [is |-> c.is, matrix |-> c.matrix]
              \/ /\ c.is = "Tape" /\ c.button \in {"Play", "Stop", "Rewind"}
                 /\ c = [is |-> c.is, button |-> c.button]
  BY DEF Command, Kind, Plain, Addressed

(* The payload is all above the kind byte, and nothing in it overlaps.      *)
LEMMA PayloadOut ==
    ASSUME NEW c \in Command
    PROVE  /\ Field(Encode(c)[1], 0, 8) = Kind[c.is]
           /\ Opened(c.is, Encode(c)[1]) = c
  <1> DEFINE word == Encode(c)[1]
             k == Kind[c.is]
  <1>0. word = k \cup Payload(c) /\ k \in Word(8)
    BY CommandShape, KindsDiffer DEF Encode
  <1> SUFFICES Field(word, 0, 8) = k /\ Opened(c.is, word) = c
    OBVIOUS
  <1> HIDE DEF word, k
  <1>1. CASE c.is \in Plain
    <2>1. word = k \cup Up({}, 8)
      BY <1>0, <1>1 DEF Payload, Plain, Addressed, Up
    <2>2. Field(word, 0, 8) = k
      <3>1. {} \in Word(0)
        BY DEF Word
      <3> QED BY <1>0, <2>1, <3>1, OneField
    <2> QED BY <1>1, <2>2, CommandShape DEF Opened, Plain, Addressed
  <1>2. CASE c.is \in Addressed
    <2>1. word = k \cup Up(c.addr, 8) /\ c.addr \in Word(16)
      BY <1>0, <1>2, CommandShape DEF Payload, Plain, Addressed
    <2>2. Field(word, 0, 8) = k /\ Field(word, 8, 16) = c.addr
      BY <1>0, <2>1, OneField
    <2> QED BY <1>2, <2>2, CommandShape DEF Opened, Plain, Addressed
  <1>3. CASE c.is = "Watch"
    <2> DEFINE rest == Flag(c.read, 24) \cup Flag(c.write, 25)
    <2>1. /\ word = k \cup Up(c.addr, 8) \cup rest
          /\ c.addr \in Word(16) /\ c.read \in BOOLEAN /\ c.write \in BOOLEAN
          /\ c = [is |-> "Watch", addr |-> c.addr, read |-> c.read, write |-> c.write]
      BY <1>0, <1>3, CommandShape DEF Payload, Plain, Addressed
    <2>2. /\ \A i \in rest : i \in Int /\ i >= 24
          /\ 24 \in rest <=> c.read
          /\ 25 \in rest <=> c.write
      BY <2>1 DEF Flag
    <2> HIDE DEF rest
    <2>3. /\ Field(word, 0, 8) = k /\ Field(word, 8, 16) = c.addr
          /\ \A i \in Int : i >= 24 => (i \in word <=> i \in rest)
      BY <1>0, <2>1, <2>2, AddressField
    <2>4. (24 \in word) = c.read /\ (25 \in word) = c.write
      BY <2>1, <2>2, <2>3
    <2> QED BY <1>3, <2>1, <2>3, <2>4 DEF Opened, Plain, Addressed
  <1>4. CASE c.is = "Poke"
    <2>1. /\ word = k \cup Up(c.addr, 8) \cup Up(c.value, 24)
          /\ c.addr \in Word(16) /\ c.value \in Word(8)
      BY <1>0, <1>4, CommandShape DEF Payload, Plain, Addressed
    <2>2. /\ Field(word, 0, 8) = k /\ Field(word, 8, 16) = c.addr
          /\ Field(word, 24, 8) = c.value
      BY <1>0, <2>1, ByteField
    <2> QED BY <1>4, <2>2, CommandShape DEF Opened, Plain, Addressed
  <1>5. CASE c.is = "Keys"
    <2>1. c.matrix \in Word(40)
      BY <1>5, CommandShape DEF Plain, Addressed
    <2>2. c.matrix \cap 0 .. 39 = c.matrix
      BY <2>1 DEF Word
    <2>3. word = k \cup Up(c.matrix, 8)
      BY <1>0, <1>5, <2>2 DEF Payload, Addressed
    <2>4. Field(word, 0, 8) = k /\ Field(word, 8, 40) = c.matrix
      BY <1>0, <2>1, <2>3, OneField
    <2> QED BY <1>5, <2>4, CommandShape DEF Opened, Plain, Addressed
  <1>6. CASE c.is = "Tape"
    <2>1. /\ word = k \cup Up(Code[c.button], 8) /\ c.button \in {"Play", "Stop", "Rewind"}
          /\ Code[c.button] \in Word(56)
      BY <1>0, <1>6, CommandShape DEF Payload, Plain, Addressed, Code, Word
    <2>2. Field(word, 0, 8) = k /\ Field(word, 8, 56) = Code[c.button]
      BY <1>0, <2>1, OneField
    <2>3. c = [is |-> "Tape", button |-> c.button]
      BY <1>6, CommandShape DEF Plain, Addressed
    <2>4. CASE c.button = "Play"
      BY <1>6, <2>2, <2>3, <2>4 DEF Opened, Plain, Addressed, Code
    <2>5. CASE c.button = "Stop"
      BY <1>6, <2>2, <2>3, <2>5 DEF Opened, Plain, Addressed, Code
    <2>6. CASE c.button = "Rewind"
      BY <1>6, <2>2, <2>3, <2>6 DEF Opened, Plain, Addressed, Code
    <2> QED BY <2>1, <2>4, <2>5, <2>6
  <1> QED BY <1>1, <1>2, <1>3, <1>4, <1>5, <1>6, CommandShape

(* Every command with any address, byte or matrix comes out of the ring as  *)
(* it went in: nothing it carries runs into its kind or into anything else  *)
(* it carries, and no two kinds are one (command.rs every_command_round_    *)
(* trips).                                                                  *)
THEOREM CommandsRoundTrip == \A c \in Command : Decode(Encode(c)) = c
  <1> SUFFICES ASSUME NEW c \in Command PROVE Decode(Encode(c)) = c
    OBVIOUS
  <1>1. Encode(c)[2] = {} /\ c.is \in DOMAIN Kind /\ Field(Encode(c)[1], 0, 8) = Kind[c.is]
    BY PayloadOut, CommandShape DEF Encode
  <1>2. (CHOOSE is \in DOMAIN Kind : Field(Encode(c)[1], 0, 8) = Kind[is]) = c.is
    BY <1>1, KindsDiffer
  <1> QED BY <1>1, <1>2, PayloadOut DEF Decode

(* Every event, whatever its T-state, comes out of the ring as it went in   *)
(* (event.rs every_kind_round_trips).                                       *)
THEOREM EventsRoundTrip == \A e \in Event : DecodeEvent(EncodeEvent(e)) = e
  <1> SUFFICES ASSUME NEW e \in Event PROVE DecodeEvent(EncodeEvent(e)) = e
    OBVIOUS
  <1> DEFINE word == EncodeEvent(e)[2]
  <1>0. EncodeEvent(e)[1] = e.t
    BY DEF EncodeEvent
  <1>1. CASE e.is = "Exec"
    <2>1. /\ e.pc \in Word(16) /\ e = [is |-> "Exec", t |-> e.t, pc |-> e.pc]
          /\ word = {0} \cup Up(e.pc, 8) /\ {0} \in Word(8)
      BY <1>1 DEF Event, EncodeEvent, Word
    <2> HIDE DEF word
    <2>2. Field(word, 0, 8) = {0} /\ Field(word, 8, 16) = e.pc
      BY <2>1, OneField
    <2> QED BY <1>0, <2>1, <2>2 DEF DecodeEvent, word
  <1>2. CASE e.is = "MemWrite"
    <2>1. /\ e.addr \in Word(16) /\ e.value \in Word(8)
          /\ e = [is |-> "MemWrite", t |-> e.t, addr |-> e.addr, value |-> e.value]
          /\ word = {1} \cup Up(e.addr, 8) \cup Up(e.value, 24) /\ {1} \in Word(8)
      BY <1>2 DEF Event, EncodeEvent, Word
    <2> HIDE DEF word
    <2>2. Field(word, 0, 8) = {1} /\ Field(word, 8, 16) = e.addr /\ Field(word, 24, 8) = e.value
      BY <2>1, ByteField
    <2> QED BY <1>0, <2>1, <2>2 DEF DecodeEvent, word
  <1>3. CASE e.is = "PortOut"
    <2>1. /\ e.port \in Word(16) /\ e.value \in Word(8)
          /\ e = [is |-> "PortOut", t |-> e.t, port |-> e.port, value |-> e.value]
          /\ word = {0, 1} \cup Up(e.port, 8) \cup Up(e.value, 24) /\ {0, 1} \in Word(8)
      BY <1>3 DEF Event, EncodeEvent, Word
    <2> HIDE DEF word
    <2>2. Field(word, 0, 8) = {0, 1} /\ Field(word, 8, 16) = e.port /\ Field(word, 24, 8) = e.value
      BY <2>1, ByteField
    <2> QED BY <1>0, <2>1, <2>2 DEF DecodeEvent, word
  <1>4. CASE e.is = "Applied"
    <2>1. /\ e.seq \in Word(32) /\ e = [is |-> "Applied", t |-> e.t, seq |-> e.seq]
          /\ word = {2} \cup Up(e.seq, 8) /\ {2} \in Word(8)
      BY <1>4 DEF Event, EncodeEvent, Word
    <2> HIDE DEF word
    <2>2. Field(word, 0, 8) = {2} /\ Field(word, 8, 32) = e.seq
      BY <2>1, OneField
    <2> QED BY <1>0, <2>1, <2>2 DEF DecodeEvent, word
  <1> QED BY <1>1, <1>2, <1>3, <1>4 DEF Event

(* The second word of a watchpoint's reason: the address, the access and    *)
(* two bytes, none over another.                                            *)
LEMMA AccessFields ==
    ASSUME NEW addr \in Word(16), NEW wrote \in BOOLEAN, NEW old \in Word(8), NEW new \in Word(8),
           NEW word, word = addr \cup Flag(wrote, 16) \cup Up(old, 24) \cup Up(new, 32)
    PROVE  /\ Field(word, 0, 16) = addr /\ (16 \in word <=> wrote)
           /\ Field(word, 24, 8) = old /\ Field(word, 32, 8) = new
  <1>1. \A i \in Int : (i \in Up(old, 24) <=> i - 24 \in old) /\ (i \in Up(new, 32) <=> i - 32 \in new)
    BY UpIn DEF Word
  <1>2. \A i \in 0 .. 16 - 1 : i + 0 \in word <=> i \in addr
    BY <1>1 DEF Word, Flag
  <1>3. \A i \in 0 .. 8 - 1 : i + 24 \in word <=> i \in old
    BY <1>1 DEF Word, Flag
  <1>4. \A i \in 0 .. 8 - 1 : i + 32 \in word <=> i \in new
    BY <1>1 DEF Word, Flag
  <1>5. 16 \in word <=> wrote
    BY <1>1 DEF Word, Flag
  <1>6. Field(word, 0, 16) = addr
    BY <1>2, FieldIs
  <1>7. Field(word, 24, 8) = old
    BY <1>3, FieldIs
  <1>8. Field(word, 32, 8) = new
    BY <1>4, FieldIs
  <1> QED BY <1>5, <1>6, <1>7, <1>8

(* Every reason a machine can stop for comes out of the two words it is     *)
(* published in as it went in (emu.rs).                                     *)
THEOREM ReasonsRoundTrip == \A r \in Reason : DecodeReason(EncodeReason(r)) = r
  <1> SUFFICES ASSUME NEW r \in Reason PROVE DecodeReason(EncodeReason(r)) = r
    OBVIOUS
  <1> DEFINE lo == EncodeReason(r)[1]
             hi == EncodeReason(r)[2]
  <1>1. CASE r.is \in {"Step", "Halted", "Paused", "OutOfBudget"}
    <2>1. r = [is |-> r.is] /\ hi = {}
      BY <1>1 DEF Reason, EncodeReason
    <2>2. lo \in Word(8)
      BY <1>1 DEF EncodeReason, Word
    <2>3. Field(lo, 0, 8) = lo
      <3>1. \A i \in 0 .. 8 - 1 : i + 0 \in lo <=> i \in lo
        OBVIOUS
      <3> HIDE DEF lo
      <3> QED BY <2>2, <3>1, FieldIs
    <2>4. CASE r.is = "Step"
      BY <2>1, <2>3, <2>4 DEF EncodeReason, DecodeReason
    <2>5. CASE r.is = "Halted"
      BY <2>1, <2>3, <2>5 DEF EncodeReason, DecodeReason
    <2>6. CASE r.is = "Paused"
      BY <2>1, <2>3, <2>6 DEF EncodeReason, DecodeReason
    <2>7. CASE r.is = "OutOfBudget"
      BY <2>1, <2>3, <2>7 DEF EncodeReason, DecodeReason
    <2> QED BY <1>1, <2>4, <2>5, <2>6, <2>7
  <1>2. CASE r.is = "Breakpoint"
    <2>1. /\ r.id \in Word(32) /\ r.addr \in Word(16)
          /\ r = [is |-> "Breakpoint", id |-> r.id, addr |-> r.addr]
          /\ lo = {1} \cup Up(r.id, 8) /\ {1} \in Word(8) /\ hi = r.addr
      BY <1>2 DEF Reason, EncodeReason, Word
    <2>2. \A i \in 0 .. 16 - 1 : i + 0 \in hi <=> i \in r.addr
      BY <2>1
    <2> HIDE DEF lo, hi
    <2>3. Field(lo, 0, 8) = {1} /\ Field(lo, 8, 32) = r.id
      BY <2>1, OneField
    <2>4. Field(hi, 0, 16) = r.addr
      BY <2>1, <2>2, FieldIs
    <2> QED BY <2>1, <2>3, <2>4 DEF DecodeReason, lo, hi
  <1>3. CASE r.is = "Watchpoint"
    <2>1. /\ r.id \in Word(32) /\ r.addr \in Word(16) /\ r.wrote \in BOOLEAN
          /\ r.old \in Word(8) /\ r.new \in Word(8)
          /\ r = [is |-> "Watchpoint", id |-> r.id, addr |-> r.addr, wrote |-> r.wrote,
                  old |-> r.old, new |-> r.new]
      BY <1>3 DEF Reason
    <2>2. /\ lo = {0, 1} \cup Up(r.id, 8) /\ {0, 1} \in Word(8)
          /\ hi = r.addr \cup Flag(r.wrote, 16) \cup Up(r.old, 24) \cup Up(r.new, 32)
      BY <1>3 DEF EncodeReason, Word
    <2> HIDE DEF lo, hi
    <2>3. Field(lo, 0, 8) = {0, 1} /\ Field(lo, 8, 32) = r.id
      BY <2>1, <2>2, OneField
    <2>4. /\ Field(hi, 0, 16) = r.addr /\ (16 \in hi <=> r.wrote)
          /\ Field(hi, 24, 8) = r.old /\ Field(hi, 32, 8) = r.new
      BY <2>1, <2>2, AccessFields
    <2>5. (16 \in hi) = r.wrote
      BY <2>1, <2>4
    <2> QED BY <2>1, <2>3, <2>4, <2>5 DEF DecodeReason, lo, hi
  <1>4. CASE r.is = "PortWatchpoint"
    <2>1. /\ r.id \in Word(32) /\ r.addr \in Word(16) /\ r.wrote \in BOOLEAN /\ r.value \in Word(8)
          /\ r = [is |-> "PortWatchpoint", id |-> r.id, addr |-> r.addr, wrote |-> r.wrote,
                  value |-> r.value]
      BY <1>4 DEF Reason
    <2>2. /\ lo = {2} \cup Up(r.id, 8) /\ {2} \in Word(8) /\ {} \in Word(8)
          /\ hi = r.addr \cup Flag(r.wrote, 16) \cup Up(r.value, 24) \cup Up({}, 32)
      BY <1>4 DEF EncodeReason, Word, Up
    <2> HIDE DEF lo, hi
    <2>3. Field(lo, 0, 8) = {2} /\ Field(lo, 8, 32) = r.id
      BY <2>1, <2>2, OneField
    <2>4. /\ Field(hi, 0, 16) = r.addr /\ (16 \in hi <=> r.wrote) /\ Field(hi, 24, 8) = r.value
      BY <2>1, <2>2, AccessFields
    <2>5. (16 \in hi) = r.wrote
      BY <2>1, <2>4
    <2> QED BY <2>1, <2>3, <2>4, <2>5 DEF DecodeReason, lo, hi
  <1> QED BY <1>1, <1>2, <1>3, <1>4 DEF Reason

-----------------------------------------------------------------------------
(* The keyboard. *)

LEMMA KeysLen == DOMAIN Keys = 1 .. 40
  BY DEF Keys

Wired == DOMAIN Position

LEMMA WiredKeys == \A n \in 1 .. 40 : Keys[n] \in Wired
  BY KeysLen DEF Wired, Position

LEMMA PositionType ==
    ASSUME NEW key \in Wired
    PROVE  Position[key] \in 0 .. 39
  <1>1. PICK n \in 1 .. 40 : Keys[n] = key
    BY KeysLen DEF Wired, Position
  <1>2. n - 1 \in 0 .. 39 /\ Keys[n - 1 + 1] = key
    BY <1>1
  <1>3. Position[key] = CHOOSE m \in 0 .. 39 : Keys[m + 1] = key
    BY DEF Wired, Position
  <1> QED BY <1>2, <1>3

LEMMA KeyNames ==
    /\ Keys[1] = "CapsShift" /\ Keys[37] = "SymbolShift" /\ Keys[31] = "Enter" /\ Keys[36] = "Space"
    /\ Keys[21] = "0" /\ Keys[20] = "5" /\ Keys[25] = "6" /\ Keys[24] = "7" /\ Keys[23] = "8"
    /\ Keys[39] = "N" /\ Keys[38] = "M" /\ Keys[27] = "O" /\ Keys[34] = "J" /\ Keys[32] = "L"
    /\ Keys[5] = "V" /\ Keys[8] = "D"
  BY DEF Keys

(* Whatever key of the host's is held, keys of the machine's go down.       *)
LEMMA PCWired == \A host : PC(host) \subseteq Wired
  <1>1. {"CapsShift", "SymbolShift", "Enter", "Space", "0", "5", "6", "7", "8", "N", "M", "O", "J",
         "L", "V", "D"} \subseteq Wired
    BY KeyNames, WiredKeys
  <1> QED BY <1>1 DEF PC, Wired

LEMMA Fives ==
    \A p \in 0 .. 39 : p \div 5 \in 0 .. 7 /\ p % 5 \in 0 .. 4 /\ 5 * (p \div 5) + (p % 5) = p
  OBVIOUS

LEMMA Wiring ==
    ASSUME NEW key \in Wired
    PROVE  /\ HalfRow(key) \in HalfRows /\ Column(key) \in Columns
           /\ 5 * HalfRow(key) + Column(key) = Position[key]
  <1> QED BY Fives, PositionType DEF HalfRow, Column, HalfRows, Columns

Keyboards == [HalfRows -> SUBSET Columns]

LEMMA HoldingType ==
    ASSUME NEW set \in SUBSET Wired
    PROVE  Holding(set) \in Keyboards
  BY Wiring DEF Holding, Keyboards

LEMMA MatrixBit ==
    ASSUME NEW keyboard \in Keyboards, NEW r \in HalfRows, NEW c \in Columns
    PROVE  5 * r + c \in Matrix(keyboard) <=> c \in keyboard[r]
  <1>1. ASSUME NEW s \in HalfRows, NEW d \in Columns, 5 * r + c = 5 * s + d PROVE r = s /\ c = d
    BY <1>1 DEF HalfRows, Columns
  <1>2. \A s \in HalfRows : keyboard[s] \subseteq Columns
    BY DEF Keyboards
  <1> QED BY <1>1, <1>2 DEF Matrix

LEMMA MatrixWord ==
    ASSUME NEW keyboard \in Keyboards
    PROVE  Matrix(keyboard) \in Word(40)
  <1>1. ASSUME NEW r \in HalfRows, NEW c \in keyboard[r] PROVE 5 * r + c \in 0 .. 39
    <2>1. c \in Columns
      BY DEF Keyboards
    <2> QED BY <2>1 DEF HalfRows, Columns
  <1> QED BY <1>1 DEF Matrix, Word

LEMMA FromMatrixType == \A m : FromMatrix(m) \in Keyboards
  BY DEF FromMatrix, Keyboards

(* A keyboard is told by its matrix, and a matrix by its keyboard.          *)
LEMMA MatrixThere ==
    ASSUME NEW keyboard \in Keyboards
    PROVE  FromMatrix(Matrix(keyboard)) = keyboard
  <1>1. \A r \in HalfRows : {c \in Columns : 5 * r + c \in Matrix(keyboard)} = keyboard[r]
    BY MatrixBit DEF Keyboards
  <1> QED BY <1>1 DEF FromMatrix, Keyboards

LEMMA MatrixBack ==
    ASSUME NEW m \in Word(40)
    PROVE  Matrix(FromMatrix(m)) = m
  <1>1. \A r \in HalfRows, c \in Columns : 5 * r + c \in Matrix(FromMatrix(m)) <=> 5 * r + c \in m
    BY FromMatrixType, MatrixBit DEF FromMatrix
  <1>2. ASSUME NEW p \in 0 .. 39 PROVE \E r \in HalfRows, c \in Columns : p = 5 * r + c
    <2> DEFINE r == p \div 5
               c == p % 5
    <2>1. r \in HalfRows /\ c \in Columns /\ p = 5 * r + c
      BY Fives DEF HalfRows, Columns
    <2> HIDE DEF r, c
    <2> QED BY <2>1
  <1>3. Matrix(FromMatrix(m)) \in Word(40)
    BY FromMatrixType, MatrixWord
  <1>4. ASSUME NEW p \in 0 .. 39 PROVE p \in Matrix(FromMatrix(m)) <=> p \in m
    <2>1. PICK r \in HalfRows, c \in Columns : p = 5 * r + c
      BY <1>2
    <2> QED BY <1>1, <2>1
  <1>5. Matrix(FromMatrix(m)) \subseteq 0 .. 39 /\ m \subseteq 0 .. 39
    BY <1>3 DEF Word
  <1> DEFINE b == Matrix(FromMatrix(m))
             P == 0 .. 39
  <1> HIDE DEF b, P
  <1>6. b \subseteq P /\ m \subseteq P /\ \A p \in P : p \in b <=> p \in m
    BY <1>4, <1>5 DEF b, P
  <1>7. b = m
    BY <1>6
  <1> QED BY <1>7 DEF b

(* A scan of any half-rows finds the columns of the keys that are down.     *)
LEMMA ReadsHeld ==
    ASSUME NEW h, NEW low \in SUBSET HalfRows
    PROVE  Read(Holding(KeysOf(h)), low) = Reading(h, low)
  BY DEF Read, Reading, Holding

LEMMA KeysOfWired == \A h : KeysOf(h) \in SUBSET Wired
  BY PCWired DEF KeysOf

-----------------------------------------------------------------------------
(* The ring: what a command appended to it, or taken from it, leaves.       *)

Words == {Encode(c) : c \in Command}

LEMMA Opens ==
    /\ \A c \in Command : Encode(c) \in Words /\ Decode(Encode(c)) = c
    /\ \A w \in Words : Decode(w) \in Command
  BY CommandsRoundTrip DEF Words

LEMMA SendsLast ==
    ASSUME NEW q \in Seq(Words), NEW kinds, NEW c \in Command, c.is \in kinds
    PROVE  LastSent(Append(q, Encode(c)), kinds, c)
  <1>1. /\ Append(q, Encode(c)) \in Seq(Words)
        /\ DOMAIN Append(q, Encode(c)) = 1 .. Len(q) + 1
        /\ Append(q, Encode(c))[Len(q) + 1] = Encode(c)
    BY Opens
  <1> QED BY <1>1, Opens DEF LastSent

LEMMA SendsOther ==
    ASSUME NEW q \in Seq(Words), NEW kinds, NEW c \in Command, c.is \notin kinds, NEW d
    PROVE  /\ LastSent(q, kinds, d) => LastSent(Append(q, Encode(c)), kinds, d)
           /\ NoneSent(q, kinds) => NoneSent(Append(q, Encode(c)), kinds)
  <1> DEFINE r == Append(q, Encode(c))
  <1>1. /\ DOMAIN r = 1 .. Len(q) + 1 /\ DOMAIN q = 1 .. Len(q) /\ Len(q) \in Nat
        /\ \A n \in 1 .. Len(q) : r[n] = q[n]
        /\ Decode(r[Len(q) + 1]).is \notin kinds
    BY Opens
  <1> HIDE DEF r
  <1>2. \A n \in DOMAIN r : (n \in DOMAIN q /\ r[n] = q[n]) \/ Decode(r[n]).is \notin kinds
    BY <1>1
  <1>3. \A n \in DOMAIN q : n \in DOMAIN r /\ r[n] = q[n]
    BY <1>1
  <1>4. NoneSent(q, kinds) => NoneSent(r, kinds)
    BY <1>2 DEF NoneSent
  <1>5. LastSent(q, kinds, d) => LastSent(r, kinds, d)
    BY <1>2, <1>3 DEF LastSent
  <1> QED BY <1>4, <1>5 DEF r

(* What was last sent is still last once the head has gone, or was the head. *)
LEMMA TakesHead ==
    ASSUME NEW q \in Seq(Words), q # <<>>, NEW kinds, NEW d
    PROVE  /\ LastSent(q, kinds, d) =>
                 \/ LastSent(Tail(q), kinds, d)
                 \/ Decode(Head(q)) = d /\ NoneSent(Tail(q), kinds)
           /\ NoneSent(q, kinds) => NoneSent(Tail(q), kinds) /\ Decode(Head(q)).is \notin kinds
  <1>1. /\ Len(q) \in Nat \ {0} /\ DOMAIN q = 1 .. Len(q) /\ Head(q) = q[1]
        /\ DOMAIN Tail(q) = 1 .. Len(q) - 1
        /\ \A n \in 1 .. Len(q) - 1 : Tail(q)[n] = q[n + 1]
    OBVIOUS
  <1>2. NoneSent(q, kinds) => NoneSent(Tail(q), kinds) /\ Decode(Head(q)).is \notin kinds
    BY <1>1 DEF NoneSent
  <1>3. ASSUME NEW n \in DOMAIN q, Decode(q[n]) = d, d.is \in kinds,
               \A later \in DOMAIN q : later > n => Decode(q[later]).is \notin kinds
        PROVE  \/ LastSent(Tail(q), kinds, d)
               \/ Decode(Head(q)) = d /\ NoneSent(Tail(q), kinds)
    <2>1. CASE n = 1
      <3>1. \A m \in DOMAIN Tail(q) : m + 1 \in DOMAIN q /\ m + 1 > n /\ Tail(q)[m] = q[m + 1]
        BY <1>1, <2>1
      <3> QED BY <1>1, <1>3, <2>1, <3>1 DEF NoneSent
    <2>2. CASE n # 1
      <3>1. n - 1 \in DOMAIN Tail(q) /\ Tail(q)[n - 1] = q[n]
        BY <1>1, <2>2
      <3>2. \A m \in DOMAIN Tail(q) : m > n - 1 => m + 1 \in DOMAIN q /\ m + 1 > n /\ Tail(q)[m] = q[m + 1]
        BY <1>1
      <3> QED BY <1>3, <3>1, <3>2 DEF LastSent
    <2> QED BY <2>1, <2>2
  <1>4. LastSent(q, kinds, d) =>
          \/ LastSent(Tail(q), kinds, d)
          \/ Decode(Head(q)) = d /\ NoneSent(Tail(q), kinds)
    BY <1>3 DEF LastSent
  <1> QED BY <1>2, <1>4

-----------------------------------------------------------------------------
(* The keys held.                                                           *)

Distinct(q) == \A i, j \in DOMAIN q : i # j => q[i] # q[j]

(* What is left of n of them when the m-th is taken out.                    *)
Without(q, n, m, r) == \A i \in 1 .. n - 1 : r[i] = IF i < m THEN q[i] ELSE q[i + 1]

LEMMA RemovesOne ==
    ASSUME NEW S, NEW q \in Seq(S), NEW m \in 1 .. Len(q)
    PROVE  LET r == RemoveAt(q, m)
           IN  r \in Seq(S) /\ Len(r) = Len(q) - 1 /\ Without(q, Len(q), m, r)
  <1> DEFINE n == Len(q)
             a == SubSeq(q, 1, m - 1)
             b == SubSeq(q, m + 1, n)
             r == a \o b
  <1>0. n \in Nat /\ m \in 1 .. n /\ m \in Int /\ n \in Int /\ \A i \in 1 .. n : q[i] \in S
    OBVIOUS
  <1> HIDE DEF n
  <1>1. (\A i \in 1 .. m - 1 : q[i] \in S) /\ (\A i \in m + 1 .. n : q[i] \in S)
    BY <1>0
  <1>2. /\ a \in Seq(S) /\ Len(a) = IF 1 <= m - 1 THEN m - 1 - 1 + 1 ELSE 0
        /\ \A i \in 1 .. m - 1 - 1 + 1 : a[i] = q[1 + i - 1]
    BY <1>0, <1>1, SubSeqProperties
  <1>3. /\ b \in Seq(S) /\ Len(b) = IF m + 1 <= n THEN n - (m + 1) + 1 ELSE 0
        /\ \A i \in 1 .. n - (m + 1) + 1 : b[i] = q[m + 1 + i - 1]
    BY <1>0, <1>1, SubSeqProperties
  <1>4. /\ r \in Seq(S) /\ Len(r) = Len(a) + Len(b)
        /\ \A i \in 1 .. Len(a) + Len(b) : r[i] = IF i <= Len(a) THEN a[i] ELSE b[i - Len(a)]
    BY <1>2, <1>3, ConcatProperties
  <1>5. RemoveAt(q, m) = r
    BY DEF RemoveAt, n
  <1> DEFINE la == Len(a)
             lb == Len(b)
             lr == Len(r)
  <1> HIDE DEF a, b, r, la, lb, lr
  <1>6. /\ la = (IF 1 <= m - 1 THEN m - 1 - 1 + 1 ELSE 0) /\ lb = (IF m + 1 <= n THEN n - (m + 1) + 1 ELSE 0)
        /\ lr = la + lb
        /\ \A i \in 1 .. la + lb : r[i] = IF i <= la THEN a[i] ELSE b[i - la]
    BY <1>2, <1>3, <1>4 DEF la, lb, lr
  <1>7. la = m - 1 /\ lb = n - m /\ la + lb = n - 1
    BY ONLY <1>0, <1>6
  <1>8. m - 1 - 1 + 1 = m - 1 /\ n - (m + 1) + 1 = n - m
    BY ONLY <1>0
  <1>9. \A i \in 1 .. m - 1 : a[i] = q[i]
    <2>1. \A i \in 1 .. m - 1 : 1 + i - 1 = i
      BY ONLY <1>0
    <2>2. \A i \in 1 .. m - 1 : a[i] = q[1 + i - 1]
      BY <1>2, <1>8
    <2> QED BY ONLY <2>1, <2>2
  <1>10. \A i \in 1 .. n - m : b[i] = q[m + i]
    <2>1. \A i \in 1 .. n - m : m + 1 + i - 1 = m + i
      BY ONLY <1>0
    <2>2. \A i \in 1 .. n - m : b[i] = q[m + 1 + i - 1]
      BY <1>3, <1>8
    <2> QED BY ONLY <2>1, <2>2
  <1>11. \A i \in 1 .. n - 1 : r[i] = IF i <= m - 1 THEN a[i] ELSE b[i - (m - 1)]
    BY ONLY <1>6, <1>7
  <1>12. ASSUME NEW i \in 1 .. n - 1 PROVE r[i] = IF i < m THEN q[i] ELSE q[i + 1]
    <2>1. CASE i < m
      BY ONLY <1>0, <1>9, <1>11, <2>1
    <2>2. CASE ~(i < m)
      <3>1. i - (m - 1) \in 1 .. n - m /\ m + (i - (m - 1)) = i + 1 /\ ~(i <= m - 1)
        BY ONLY <1>0, <2>2
      <3>2. b[i - (m - 1)] = q[m + (i - (m - 1))]
        BY ONLY <1>10, <3>1
      <3> QED BY ONLY <1>11, <2>2, <3>1, <3>2
    <2> QED BY ONLY <2>1, <2>2
  <1>13. r \in Seq(S) /\ Len(r) = n - 1
    BY <1>4, <1>6, <1>7 DEF lr
  <1> QED BY <1>5, <1>12, <1>13 DEF n, Without

(* A key let go of is gone, and the others stay as they were.               *)
LEMMA LetGo ==
    ASSUME NEW S, NEW q \in Seq(S), NEW k, Distinct(q)
    PROVE  LET r == RemoveFirst(q, k)
           IN  /\ r \in Seq(S) /\ Len(r) <= Len(q) /\ Distinct(r)
               /\ \A i \in DOMAIN r : r[i] # k /\ \E j \in DOMAIN q : q[j] = r[i]
  <1> DEFINE n == Len(q)
             I == {i \in 1 .. n : q[i] = k}
             m == SelectInSeq(q, LAMBDA v : v = k)
             r == RemoveAt(q, m)
  <1>0. n \in Nat /\ DOMAIN q = 1 .. n
    OBVIOUS
  <1>1. CASE I = {}
    <2>1. RemoveFirst(q, k) = q
      BY <1>1 DEF RemoveFirst
    <2> QED BY <1>0, <1>1, <2>1
  <1>2. CASE I # {}
    <2>1. m \in I
      <3>1. PICK i \in 1 .. n : q[i] = k
        BY <1>2
      <3>2. I = {i}
        BY <1>0, <3>1 DEF Distinct
      <3>3. m = CHOOSE x \in I : \A y \in I : x <= y
        BY <1>2 DEF SelectInSeq, Min
      <3>4. i \in I /\ \A y \in I : i <= y
        BY <3>2
      <3> HIDE DEF I, m
      <3> QED BY <3>3, <3>4
    <2>2. RemoveFirst(q, k) = r
      BY <1>2 DEF RemoveFirst
    <2> HIDE DEF m
    <2>3. m \in 1 .. n /\ q[m] = k
      BY <2>1
    <2>4. r \in Seq(S) /\ Len(r) = n - 1 /\ Without(q, n, m, r)
      BY <2>3, RemovesOne
    <2> HIDE DEF r
    <2>5. DOMAIN r = 1 .. n - 1 /\ n - 1 <= n
      BY <1>0, <2>4
    <2> HIDE DEF n
    <2> DEFINE from(i) == IF i < m THEN i ELSE i + 1
    <2>6. ASSUME NEW i \in DOMAIN r
          PROVE  r[i] = q[from(i)] /\ from(i) \in DOMAIN q /\ from(i) # m
      <3>1. i \in 1 .. n - 1 /\ r[i] = IF i < m THEN q[i] ELSE q[i + 1]
        BY <2>4, <2>5 DEF Without
      <3> QED BY ONLY <1>0, <2>3, <3>1
    <2>7. ASSUME NEW i \in DOMAIN r, NEW j \in DOMAIN r, i # j PROVE from(i) # from(j)
      <3>1. i \in 1 .. n - 1 /\ j \in 1 .. n - 1
        BY <2>5
      <3> QED BY ONLY <1>0, <2>3, <2>7, <3>1
    <2> HIDE DEF from
    <2>8. Distinct(r)
      BY ONLY <2>6, <2>7, Distinct(q) DEF Distinct
    <2>9. m \in DOMAIN q /\ q[m] = k
      BY <1>0, <2>3
    <2>10. \A i \in DOMAIN r : r[i] # k /\ \E j \in DOMAIN q : q[j] = r[i]
      BY ONLY <2>6, <2>9, Distinct(q) DEF Distinct
    <2> QED BY <2>2, <2>4, <2>5, <2>8, <2>10 DEF n
  <1> QED BY <1>1, <1>2

(* A key pressed is among those held, with no more than there is room for.  *)
LEMMA PressedHolds ==
    ASSUME held \in Seq(HostKeys), Distinct(held), Len(held) <= MaxHeld, NEW k \in HostKeys
    PROVE  /\ Pressed(k) \in Seq(HostKeys) /\ Len(Pressed(k)) <= MaxHeld /\ Distinct(Pressed(k))
           /\ \A i \in DOMAIN Pressed(k) : Pressed(k)[i] = k \/ \E j \in DOMAIN held : held[j] = Pressed(k)[i]
  <1>0. Len(held) \in Nat /\ DOMAIN held = 1 .. Len(held) /\ MaxHeld \in Nat \ {0}
    BY SessionAssumption
  <1>1. CASE IsHeld(k)
    BY <1>0, <1>1 DEF Pressed
  <1>2. CASE ~IsHeld(k)
    <2> DEFINE q == IF Len(held) = MaxHeld THEN Tail(held) ELSE held
               r == Append(q, k)
    <2>1. /\ q \in Seq(HostKeys) /\ Len(q) + 1 <= MaxHeld /\ Len(q) \in Nat /\ DOMAIN q = 1 .. Len(q)
          /\ \A i \in 1 .. Len(q) : \E j \in DOMAIN held : held[j] = q[i]
          /\ Distinct(q)
      <3>1. CASE Len(held) = MaxHeld
        <4>1. /\ held # <<>> /\ Tail(held) \in Seq(HostKeys) /\ Len(Tail(held)) = Len(held) - 1
              /\ \A i \in 1 .. Len(held) - 1 : Tail(held)[i] = held[i + 1]
          BY <1>0, <3>1
        <4>2. q = Tail(held) /\ DOMAIN q = 1 .. Len(held) - 1
          BY <1>0, <3>1, <4>1
        <4> HIDE DEF q
        <4> QED BY <1>0, <3>1, <4>1, <4>2 DEF Distinct
      <3>2. CASE Len(held) # MaxHeld
        <4>1. q = held
          BY <3>2
        <4> DEFINE n == Len(held)
        <4>2. n \in Nat /\ MaxHeld \in Nat /\ n <= MaxHeld /\ n # MaxHeld
          BY <1>0, <3>2
        <4> HIDE DEF n
        <4>3. n + 1 <= MaxHeld
          BY ONLY <4>2
        <4> QED BY <1>0, <4>1, <4>3 DEF n
      <3> QED BY <3>1, <3>2
    <2> HIDE DEF q
    <2>2. /\ r \in Seq(HostKeys) /\ Len(r) = Len(q) + 1 /\ DOMAIN r = 1 .. Len(q) + 1
          /\ \A i \in 1 .. Len(q) : r[i] = q[i]
          /\ r[Len(q) + 1] = k
      BY <2>1
    <2>3. Pressed(k) = r
      BY <1>2 DEF Pressed, q
    <2> HIDE DEF r
    <2>4. \A i \in DOMAIN r : i \in 1 .. Len(q) \/ r[i] = k
      BY <2>1, <2>2
    <2>5. \A i \in 1 .. Len(q) : r[i] # k
      BY <1>2, <2>1, <2>2 DEF IsHeld
    <2>6. Distinct(r)
      BY <2>1, <2>2, <2>4, <2>5 DEF Distinct
    <2> QED BY <2>1, <2>2, <2>3, <2>4, <2>6
  <1> QED BY <1>1, <1>2

-----------------------------------------------------------------------------
(* What the machine has been told, or is about to be.                       *)

LEMMA MatrixOfType == \A h : MatrixOf(h) \in Word(40)
  BY KeysOfWired, HoldingType, MatrixWord DEF MatrixOf

LEMMA KeysCommand == \A m \in Word(40) : [is |-> "Keys", matrix |-> m] \in Command
  BY DEF Command

Told ==
    /\ ring \in Seq(Words)
    /\ latched \in Keyboards /\ keys \in Keyboards
    /\ HeadedFor(matrix)
    /\ "keys" \notin refused => matrix = MatrixOf(held)

LEMMA ToldInit == Init => Told
  <1> SUFFICES ASSUME Init PROVE Told
    OBVIOUS
  <1>1. ring = <<Encode(Resume)>> /\ Resume \in Command /\ Resume.is = "Resume"
    BY DEF Init, Resume, Command, Plain
  <1>2. ring \in Seq(Words) /\ DOMAIN ring = {1} /\ Decode(ring[1]) = Resume
    BY <1>1, Opens
  <1>3. NoKeys \in Keyboards /\ Matrix(NoKeys) = {}
    BY DEF NoKeys, Keyboards, Matrix
  <1>4. MatrixOf(<<>>) = {}
    <2>1. KeysOf(<<>>) = {}
      BY DEF KeysOf
    <2>2. Holding({}) = NoKeys
      BY DEF Holding, NoKeys
    <2> QED BY <1>3, <2>1, <2>2 DEF MatrixOf
  <1>5. HeadedFor(matrix)
    BY <1>1, <1>2, <1>3 DEF Init, HeadedFor, NoneSent
  <1> QED BY <1>2, <1>3, <1>4, <1>5 DEF Init, Told

(* A matrix sent is what the machine is headed for; one that is not sent    *)
(* changes nothing.                                                         *)
LEMMA SendMatrixTells ==
    ASSUME Told, NEW h, SendMatrix(h), UNCHANGED <<latched, keys>>
    PROVE  Told'
  <1> DEFINE m == MatrixOf(h)
             c == [is |-> "Keys", matrix |-> m]
  <1>1. c \in Command /\ c.is = "Keys"
    BY MatrixOfType, KeysCommand
  <1>2. CASE m = matrix \/ ~HasRoom
    <2>1. ring' = ring /\ matrix' = matrix /\ held' = h /\ ("keys" \notin refused' => matrix' = m)
      BY <1>2 DEF SendMatrix, Send
    <2>2. HeadedFor(matrix)'
      BY <2>1 DEF Told, HeadedFor
    <2> QED BY <2>1, <2>2 DEF Told
  <1>3. CASE m # matrix /\ HasRoom
    <2>1. ring' = Append(ring, Encode(c)) /\ matrix' = m /\ held' = h
      BY <1>3 DEF SendMatrix, Send
    <2>2. ring' \in Seq(Words) /\ LastSent(ring', {"Keys"}, c)
      <3>1. ring \in Seq(Words)
        BY DEF Told
      <3> HIDE DEF c
      <3> QED BY <1>1, <2>1, <3>1, Opens, SendsLast
    <2> HIDE DEF m
    <2>3. HeadedFor(matrix)'
      BY <2>1, <2>2 DEF HeadedFor
    <2> QED BY <2>1, <2>2, <2>3 DEF Told, m
  <1> QED BY <1>2, <1>3

(* No other command touches what it is headed for.                          *)
SendsOnly(kinds) ==
    \/ ring' = ring
    \/ \E c \in Command : c.is \in kinds /\ ring' = Append(ring, Encode(c))

LEMMA StillTold ==
    ASSUME Told, NEW kinds, "Keys" \notin kinds, SendsOnly(kinds),
           UNCHANGED <<held, matrix, latched>>, keys' = keys \/ keys' = latched,
           "keys" \in refused => "keys" \in refused'
    PROVE  Told'
  <1>1. ring' \in Seq(Words) /\ HeadedFor(matrix)'
    <2>1. CASE ring' = ring
      BY <2>1 DEF Told, HeadedFor
    <2>2. ASSUME NEW c \in Command, c.is \in kinds, ring' = Append(ring, Encode(c))
          PROVE  ring' \in Seq(Words) /\ HeadedFor(matrix)'
      <3>1. ring \in Seq(Words) /\ c.is \notin {"Keys"}
        BY <2>2 DEF Told
      <3>2. ring' \in Seq(Words)
        BY <2>2, <3>1, Opens
      <3>3. \A d : LastSent(ring, {"Keys"}, d) => LastSent(ring', {"Keys"}, d)
        BY <2>2, <3>1, SendsOther
      <3>4. NoneSent(ring, {"Keys"}) => NoneSent(ring', {"Keys"})
        BY <2>2, <3>1, SendsOther
      <3> QED BY <3>2, <3>3, <3>4 DEF Told, HeadedFor
    <2> QED BY <2>1, <2>2 DEF SendsOnly
  <1> QED BY <1>1 DEF Told

LEMMA ApplyTells ==
    ASSUME Told, Apply
    PROVE  Told'
  <1> DEFINE c == Decode(Head(ring))
  <1>1. /\ ring \in Seq(Words) /\ ring # <<>> /\ ring' = Tail(ring)
        /\ ring' \in Seq(Words) /\ c \in Command
    BY Opens DEF Told, Apply
  <1>2. latched' = IF c.is = "Keys" THEN FromMatrix(c.matrix) ELSE latched
    BY DEF Apply
  <1>3. UNCHANGED <<held, matrix, keys, refused>>
    BY DEF Apply, NotWindow, windowVars
  <1> HIDE DEF c
  <1>4. latched' \in Keyboards
    BY <1>2, FromMatrixType DEF Told
  <1>5. HeadedFor(matrix)'
    <2> DEFINE d == [is |-> "Keys", matrix |-> matrix]
    <2>1. CASE LastSent(ring, {"Keys"}, d)
      <3>1. LastSent(ring', {"Keys"}, d) \/ (c = d /\ NoneSent(ring', {"Keys"}))
        BY <1>1, <2>1, TakesHead DEF c
      <3>2. CASE LastSent(ring', {"Keys"}, d)
        BY <1>3, <3>2 DEF HeadedFor
      <3>3. CASE c = d /\ NoneSent(ring', {"Keys"})
        <4>1. matrix \in Word(40)
          BY <1>1, <3>3, CommandShape DEF Plain, Addressed
        <4>2. latched' = FromMatrix(matrix)
          BY <1>2, <3>3
        <4> QED BY <1>3, <3>3, <4>1, <4>2, MatrixBack DEF HeadedFor
      <3> QED BY <3>1, <3>2, <3>3
    <2>2. CASE NoneSent(ring, {"Keys"}) /\ Matrix(latched) = matrix
      <3>1. NoneSent(ring', {"Keys"}) /\ c.is # "Keys"
        BY <1>1, <2>2, TakesHead DEF c
      <3> QED BY <1>2, <1>3, <2>2, <3>1 DEF HeadedFor
    <2> QED BY <2>1, <2>2 DEF Told, HeadedFor
  <1> QED BY <1>1, <1>3, <1>4, <1>5 DEF Told

-----------------------------------------------------------------------------
(* The keys under the fingers.                                              *)

Fingers(h, d, f) ==
    /\ h \in Seq(HostKeys) /\ Len(h) <= MaxHeld /\ Distinct(h)
    /\ \A i \in DOMAIN h : f /\ h[i] \in d

KeyInv == Told /\ Fingers(held, down, focus)

ButtonCommands == {"Resume", "Pause", "Tape", "Reset", "Quit"}

LEMMA Buttons ==
    /\ \A is \in Plain : [is |-> is] \in Command
    /\ \A button \in {"Play", "Stop", "Rewind"} : Tape(button) \in Command
  BY DEF Command, Tape

LEMMA SendButtonSends ==
    ASSUME NEW c \in Command, c.is \in ButtonCommands, Send(c)
    PROVE  SendsOnly(ButtonCommands)
  BY DEF Send, SendsOnly

(* Only the keys and the focus touch what is held and what was sent of it,  *)
(* and only a command taken from the ring what the machine was told.        *)
LEMMA KeysLeftAlone ==
    ASSUME \/ PressPause \/ PressTape \/ PressRewind \/ PressReset \/ PressSpeed \/ PressQuit
           \/ ToggleMute \/ Handler \/ Slice \/ GoToSleep \/ Woken \/ TimeUp \/ Tick \/ UNCHANGED vars
    PROVE  /\ SendsOnly(ButtonCommands)
           /\ UNCHANGED <<down, focus, held, matrix, latched>>
           /\ keys' = keys \/ keys' = latched
           /\ "keys" \in refused => "keys" \in refused'
  <1> DEFINE Goal == /\ SendsOnly(ButtonCommands)
                     /\ UNCHANGED <<down, focus, held, matrix, latched>>
                     /\ keys' = keys \/ keys' = latched
                     /\ "keys" \in refused => "keys" \in refused'
  <1>1. ASSUME NEW at_step, NEW read, Begin(at_step, read) PROVE Goal
    BY <1>1 DEF Begin, Fixed, machineVars, SendsOnly
  <1>2. PressPause \/ PressTape \/ PressRewind \/ PressReset \/ PressSpeed \/ PressQuit => Goal
    BY <1>1 DEF PressPause, PressTape, PressRewind, PressReset, PressSpeed, PressQuit
  <1>3. ToggleMute \/ ApplyMutePolicy \/ WakeLooks => Goal
    BY DEF ToggleMute, ApplyMutePolicy, WakeLooks, Fixed, machineVars, SendsOnly
  <1>4. ASSUME NEW c \in Command, c.is \in ButtonCommands, NEW here, NEW next, Handle(here, next),
               SendButton(c) \/ (Send(c) /\ refused' = refused)
        PROVE  Goal
    BY <1>4, SendButtonSends DEF Handle, Fixed, machineVars, SendButton
  <1> HIDE DEF Goal
  <1>5. TogglePause => Goal
    <2> SUFFICES ASSUME TogglePause PROVE Goal
      OBVIOUS
    <2> DEFINE c == [is |-> IF seen = "Running" THEN "Pause" ELSE "Resume"]
    <2>1. c \in Command /\ c.is \in ButtonCommands
      BY Buttons DEF Plain, ButtonCommands
    <2>2. Handle("pause", "policy") /\ SendButton(c)
      BY DEF TogglePause
    <2> HIDE DEF c
    <2> QED BY <1>4, <2>1, <2>2
  <1>6. ToggleTape => Goal
    <2> SUFFICES ASSUME ToggleTape PROVE Goal
      OBVIOUS
    <2> DEFINE c == Tape(IF seen = "lit" THEN "Stop" ELSE "Play")
    <2>1. c \in Command /\ c.is \in ButtonCommands
      BY Buttons DEF Tape, ButtonCommands
    <2>2. Handle("tape", "wake") /\ SendButton(c)
      BY DEF ToggleTape
    <2> HIDE DEF c
    <2> QED BY <1>4, <2>1, <2>2
  <1>7. Rewind => Goal
    <2>1. Tape("Rewind") \in Command /\ Tape("Rewind").is \in ButtonCommands
      BY Buttons DEF Tape, ButtonCommands
    <2> QED BY <1>4, <2>1 DEF Rewind
  <1>8. Reset \/ ResumeAfterReset \/ Quit \/ WakeSends => Goal
    <2>1. /\ [is |-> "Reset"] \in Command /\ [is |-> "Reset"].is \in ButtonCommands
          /\ Resume \in Command /\ Resume.is \in ButtonCommands
          /\ [is |-> "Quit"] \in Command /\ [is |-> "Quit"].is \in ButtonCommands
      BY Buttons DEF Plain, ButtonCommands, Resume
    <2> QED BY <1>4, <2>1 DEF Reset, ResumeAfterReset, Quit, WakeSends
  <1>9. Slice \/ GoToSleep \/ Woken \/ TimeUp \/ Tick \/ UNCHANGED vars => Goal
    BY DEF Slice, GoToSleep, Woken, TimeUp, Tick, NotWindow, windowVars, machineVars, vars, SendsOnly, Goal
  <1> QED BY <1>2, <1>3, <1>5, <1>6, <1>7, <1>8, <1>9 DEF Handler, Goal

LEMMA KeyStep == KeyInv /\ [Next]_vars => KeyInv'
  <1> SUFFICES ASSUME KeyInv, [Next]_vars PROVE KeyInv'
    OBVIOUS
  <1>0. Told /\ Fingers(held, down, focus)
    BY DEF KeyInv
  <1>1. ASSUME NEW k \in HostKeys, KeyDown(k) PROVE KeyInv'
    <2>1. SendMatrix(Pressed(k)) /\ UNCHANGED <<latched, keys, focus>> /\ down' = down \cup {k} /\ focus
      BY <1>1 DEF KeyDown, NoOther, machineVars, Typing
    <2>2. Told'
      BY <1>0, <2>1, SendMatrixTells
    <2>3. held' = Pressed(k)
      BY <2>1 DEF SendMatrix
    <2>4. Fingers(Pressed(k), down \cup {k}, focus)
      BY <1>0, <2>1, PressedHolds DEF Fingers
    <2> QED BY <2>1, <2>2, <2>3, <2>4 DEF KeyInv
  <1>2. ASSUME NEW k \in HostKeys, KeyUp(k) PROVE KeyInv'
    <2>1. SendMatrix(Released(k)) /\ UNCHANGED <<latched, keys, focus>> /\ down' = down \ {k} /\ focus
      BY <1>2 DEF KeyUp, NoOther, machineVars, Typing
    <2>2. Told'
      BY <1>0, <2>1, SendMatrixTells
    <2>3. held' = Released(k)
      BY <2>1 DEF SendMatrix
    <2>4. Fingers(Released(k), down \ {k}, focus)
      <3> DEFINE r == Released(k)
      <3>1. /\ r \in Seq(HostKeys) /\ Len(r) <= Len(held) /\ Distinct(r)
            /\ \A i \in DOMAIN r : r[i] # k /\ \E j \in DOMAIN held : held[j] = r[i]
        BY <1>0, LetGo DEF Fingers, Released
      <3> HIDE DEF r
      <3>2. Len(r) <= MaxHeld
        <4>1. Len(r) \in Nat /\ Len(held) \in Nat /\ Len(held) <= MaxHeld /\ MaxHeld \in Nat
          BY <1>0, <3>1, SessionAssumption DEF Fingers
        <4> QED BY <3>1, <4>1
      <3>3. \A i \in DOMAIN r : focus /\ r[i] \in down \ {k}
        BY <1>0, <2>1, <3>1 DEF Fingers
      <3>4. Fingers(r, down \ {k}, focus)
        BY <3>1, <3>2, <3>3 DEF Fingers
      <3> QED BY <3>4 DEF r
    <2> QED BY <2>1, <2>2, <2>3, <2>4 DEF KeyInv
  <1>3. ASSUME LoseFocus PROVE KeyInv'
    <2>1. SendMatrix(<<>>) /\ UNCHANGED <<latched, keys>>
      BY <1>3 DEF LoseFocus, NoOther, machineVars
    <2>2. Told'
      BY <1>0, <2>1, SendMatrixTells
    <2>3. held' = <<>>
      BY <2>1 DEF SendMatrix
    <2>4. Fingers(held, down, focus)'
      BY <2>3, SessionAssumption DEF Fingers, Distinct
    <2> QED BY <2>2, <2>4 DEF KeyInv
  <1>4. ASSUME Elsewhere \/ GainFocus PROVE KeyInv'
    <2>1. ~focus /\ UNCHANGED <<held, matrix, ring, refused, latched, keys>>
      BY <1>4 DEF Elsewhere, GainFocus, Typing, NoOther, machineVars
    <2>2. Told'
      <3>1. SendsOnly({}) /\ "Keys" \notin {}
        BY <2>1 DEF SendsOnly
      <3> QED BY <1>0, <2>1, <3>1, StillTold
    <2>3. Fingers(held, down, focus)'
      BY <1>0, <2>1 DEF Fingers
    <2> QED BY <2>2, <2>3 DEF KeyInv
  <1>5. ASSUME Apply PROVE KeyInv'
    <2>1. UNCHANGED <<held, down, focus>>
      BY <1>5 DEF Apply, NotWindow, windowVars
    <2> QED BY <1>0, <1>5, <2>1, ApplyTells DEF KeyInv
  <1>6. ASSUME \/ PressPause \/ PressTape \/ PressRewind \/ PressReset \/ PressSpeed \/ PressQuit
               \/ ToggleMute \/ Handler \/ Slice \/ GoToSleep \/ Woken \/ TimeUp \/ Tick \/ UNCHANGED vars
        PROVE  KeyInv'
    <2>1. "Keys" \notin ButtonCommands
      BY DEF ButtonCommands
    <2>2. Told' /\ UNCHANGED <<down, focus, held>>
      BY <1>0, <1>6, <2>1, KeysLeftAlone, StillTold
    <2> QED BY <1>0, <2>2 DEF KeyInv
  <1> QED BY <1>1, <1>2, <1>3, <1>4, <1>5, <1>6 DEF Next, Window, Thread

(* The machine, once it has been told everything, reads the keys held.      *)
LEMMA KeysRead == KeyInv => KeysArrive
  <1> SUFFICES ASSUME KeyInv PROVE KeysArrive
    OBVIOUS
  <1>1. /\ HeadedFor(matrix) /\ latched \in Keyboards
        /\ "keys" \notin refused => matrix = MatrixOf(held)
    BY DEF KeyInv, Told
  <1>2. /\ \A i \in DOMAIN held : focus /\ held[i] \in down
        /\ \A i, j \in DOMAIN held : i # j => held[i] # held[j]
        /\ Len(held) <= MaxHeld
    BY DEF KeyInv, Fingers, Distinct
  <1>3. ASSUME ring = <<>>, latched = keys, "keys" \notin refused, NEW low \in Scans
        PROVE  Read(keys, low) = Reading(held, low)
    <2>1. Matrix(latched) = MatrixOf(held)
      BY <1>1, <1>3 DEF HeadedFor, LastSent
    <2>2. latched = Holding(KeysOf(held))
      BY <1>1, <2>1, KeysOfWired, HoldingType, MatrixThere DEF MatrixOf
    <2>3. low \in SUBSET HalfRows
      BY <1>3 DEF Scans, HalfRows
    <2> QED BY <1>3, <2>2, <2>3, ReadsHeld
  <1> QED BY <1>1, <1>2, <1>3 DEF KeysArrive

(* Whatever host keys there are, however many the session keeps and however *)
(* much the ring holds, no key sticks, none is let go of early and none is  *)
(* taken for another (session.rs key, release_all, send_matrix;             *)
(* keyboard.rs matrix, set_matrix, read).                                   *)
THEOREM HeldKeysArrive == Spec => []KeysArrive
  <1>1. Init => KeyInv
    BY ToldInit, SessionAssumption DEF Init, KeyInv, Fingers, Distinct
  <1>2. KeyInv /\ [Next]_vars => KeyInv'
    BY KeyStep
  <1>3. KeyInv => KeysArrive
    BY KeysRead
  <1> QED BY <1>1, <1>2, <1>3, PTL DEF Spec

-----------------------------------------------------------------------------
(* What the user was promised.                                              *)

Setters == {"Resume", "Pause", "Quit"}
StateOf == [Resume |-> "Running", Pause |-> "Paused", Quit |-> "Exited"]

(* The state the machine will be in once the ring is empty.                 *)
Heading(s) ==
    \/ \E is \in Setters : LastSent(ring, Setters, [is |-> is]) /\ StateOf[is] = s
    \/ NoneSent(ring, Setters) /\ state = s

Promised ==
    /\ "button" \notin refused =>
         \/ Heading(told)
         \/ told = "Paused" /\ nudged /\ Heading("Running")
    /\ told \in {"Running", "Paused", "Exited"}
    /\ told = "Exited" => window = "gone"

LEMMA HeadingKept ==
    ASSUME ring \in Seq(Words), NEW kinds, kinds \cap Setters = {}, SendsOnly(kinds), state' = state,
           NEW s, Heading(s)
    PROVE  ring' \in Seq(Words) /\ Heading(s)'
  <1>1. CASE ring' = ring
    BY <1>1 DEF Heading
  <1>2. ASSUME NEW c \in Command, c.is \in kinds, ring' = Append(ring, Encode(c))
        PROVE  ring' \in Seq(Words) /\ Heading(s)'
    <2>1. c.is \notin Setters /\ ring' \in Seq(Words)
      BY <1>2, Opens
    <2>2. \A d : LastSent(ring, Setters, d) => LastSent(ring', Setters, d)
      BY <1>2, <2>1, SendsOther
    <2>3. NoneSent(ring, Setters) => NoneSent(ring', Setters)
      BY <1>2, <2>1, SendsOther
    <2> QED BY <2>1, <2>2, <2>3 DEF Heading
  <1> QED BY <1>1, <1>2 DEF SendsOnly

LEMMA HeadingSet ==
    ASSUME ring \in Seq(Words), NEW is \in Setters, ring' = Append(ring, Encode([is |-> is]))
    PROVE  ring' \in Seq(Words) /\ Heading(StateOf[is])'
  <1> DEFINE c == [is |-> is]
  <1>1. c \in Command /\ c.is = is
    BY Buttons DEF Plain, Setters
  <1> HIDE DEF c
  <1>2. ring' \in Seq(Words) /\ LastSent(ring', Setters, c)
    BY <1>1, Opens, SendsLast DEF c
  <1> QED BY <1>2 DEF Heading, c

(* A command applied moves the machine the way it was heading.              *)
LEMMA HeadingReached ==
    ASSUME ring \in Seq(Words), Apply, NEW s, Heading(s)
    PROVE  ring' \in Seq(Words) /\ Heading(s)'
  <1> DEFINE c == Decode(Head(ring))
  <1>1. /\ ring # <<>> /\ ring' = Tail(ring) /\ ring' \in Seq(Words) /\ c \in Command
        /\ state' = CASE c.is = "Resume" -> "Running"
                      [] c.is = "Pause" -> "Paused"
                      [] c.is = "Quit" -> "Exited"
                      [] OTHER -> state
    BY Opens DEF Apply
  <1>2. /\ c.is \in Setters => state' = StateOf[c.is]
        /\ c.is \notin Setters => state' = state
    BY <1>1 DEF Setters, StateOf
  <1> HIDE DEF c
  <1>3. ASSUME NEW is \in Setters, LastSent(ring, Setters, [is |-> is]), StateOf[is] = s
        PROVE  Heading(s)'
    <2> DEFINE d == [is |-> is]
    <2>1. LastSent(ring', Setters, d) \/ (c = d /\ NoneSent(ring', Setters))
      BY <1>1, <1>3, TakesHead DEF c
    <2>2. CASE LastSent(ring', Setters, d)
      BY <1>3, <2>2 DEF Heading
    <2>3. CASE c = d /\ NoneSent(ring', Setters)
      BY <1>2, <1>3, <2>3 DEF Heading
    <2> QED BY <2>1, <2>2, <2>3
  <1>4. ASSUME NoneSent(ring, Setters), state = s PROVE Heading(s)'
    <2>1. NoneSent(ring', Setters) /\ c.is \notin Setters
      BY <1>1, <1>4, TakesHead DEF c
    <2> QED BY <1>2, <1>4, <2>1 DEF Heading
  <1> QED BY <1>1, <1>3, <1>4 DEF Heading

LEMMA PromisedInit == Init => Promised
  <1> SUFFICES ASSUME Init PROVE Promised
    OBVIOUS
  <1>1. /\ ring = <<Encode([is |-> "Resume"])>> /\ [is |-> "Resume"] \in Command
        /\ told = "Running" /\ "Resume" \in Setters
    BY Buttons DEF Init, Resume, Plain, Setters
  <1>2. LastSent(ring, Setters, [is |-> "Resume"])
    BY <1>1, Opens DEF LastSent
  <1>3. Heading("Running")
    BY <1>1, <1>2 DEF Heading, StateOf
  <1> QED BY <1>1, <1>3 DEF Promised

(* What the matrix and the other buttons send is no promise.                *)
NotSetters == {"Keys", "Tape", "Reset"}

LEMMA NoPromise ==
    ASSUME Told, Promised, SendsOnly(NotSetters), UNCHANGED <<state, told, nudged>>,
           "button" \in refused => "button" \in refused', window = "gone" => window' = "gone"
    PROVE  Promised'
  <1>1. ring \in Seq(Words) /\ NotSetters \cap Setters = {}
    BY DEF Told, NotSetters, Setters
  <1>2. \A s : Heading(s) => Heading(s)'
    BY <1>1, HeadingKept
  <1> QED BY <1>2 DEF Promised

LEMMA NoPromiseMade ==
    ASSUME \/ \E k \in HostKeys : KeyDown(k) \/ KeyUp(k)
           \/ Elsewhere \/ LoseFocus \/ GainFocus
           \/ PressPause \/ PressTape \/ PressRewind \/ PressReset \/ PressSpeed \/ PressQuit
           \/ ToggleMute \/ ToggleTape \/ Rewind \/ Reset \/ WakeLooks \/ ApplyMutePolicy
           \/ Slice \/ GoToSleep \/ Woken \/ TimeUp \/ Tick \/ UNCHANGED vars
    PROVE  /\ SendsOnly(NotSetters) /\ UNCHANGED <<state, told, nudged>>
           /\ "button" \in refused => "button" \in refused'
           /\ window = "gone" => window' = "gone"
  <1> DEFINE Goal == /\ SendsOnly(NotSetters) /\ UNCHANGED <<state, told, nudged>>
                     /\ "button" \in refused => "button" \in refused'
                     /\ window = "gone" => window' = "gone"
  <1>1. ASSUME NEW h, SendMatrix(h), NoOther PROVE Goal
    <2> DEFINE c == [is |-> "Keys", matrix |-> MatrixOf(h)]
    <2>1. c \in Command /\ c.is \in NotSetters
      BY MatrixOfType, KeysCommand DEF NotSetters
    <2>2. ring' = ring \/ ring' = Append(ring, Encode(c))
      BY <1>1 DEF SendMatrix, Send
    <2> HIDE DEF c
    <2>3. SendsOnly(NotSetters)
      BY <2>1, <2>2 DEF SendsOnly
    <2>4. "button" \in refused => "button" \in refused'
      BY <1>1 DEF SendMatrix
    <2> QED BY <1>1, <2>3, <2>4 DEF NoOther, machineVars
  <1>2. ASSUME NEW k \in HostKeys, KeyDown(k) \/ KeyUp(k) PROVE Goal
    BY <1>1, <1>2 DEF KeyDown, KeyUp
  <1>3. LoseFocus => Goal
    BY <1>1 DEF LoseFocus
  <1>4. Elsewhere \/ GainFocus => Goal
    BY DEF Elsewhere, GainFocus, NoOther, machineVars, SendsOnly
  <1>5. ASSUME NEW at_step, NEW read, Begin(at_step, read), UNCHANGED <<told, nudged>> PROVE Goal
    BY <1>5 DEF Begin, machineVars, SendsOnly
  <1>6. PressPause \/ PressTape \/ PressRewind \/ PressReset \/ PressSpeed \/ PressQuit => Goal
    BY <1>5 DEF PressPause, PressTape, PressRewind, PressReset, PressSpeed, PressQuit
  <1>7. ToggleMute \/ ApplyMutePolicy \/ WakeLooks => Goal
    BY DEF ToggleMute, ApplyMutePolicy, WakeLooks, machineVars, SendsOnly
  <1>8. ASSUME NEW c \in Command, c.is \in NotSetters, NEW here, NEW next, here # "gone",
               Handle(here, next), SendButton(c), UNCHANGED <<told, nudged>>
        PROVE  Goal
    BY <1>8 DEF Handle, machineVars, SendButton, Send, SendsOnly
  <1> HIDE DEF Goal
  <1>9. ToggleTape => Goal
    <2> SUFFICES ASSUME ToggleTape PROVE Goal
      OBVIOUS
    <2> DEFINE c == Tape(IF seen = "lit" THEN "Stop" ELSE "Play")
    <2>1. c \in Command /\ c.is \in NotSetters
      BY Buttons DEF Tape, NotSetters
    <2>2. Handle("tape", "wake") /\ SendButton(c) /\ UNCHANGED <<told, nudged>>
      BY DEF ToggleTape
    <2> HIDE DEF c
    <2> QED BY <1>8, <2>1, <2>2
  <1>10. Rewind \/ Reset => Goal
    <2>1. /\ Tape("Rewind") \in Command /\ Tape("Rewind").is \in NotSetters
          /\ [is |-> "Reset"] \in Command /\ [is |-> "Reset"].is \in NotSetters
      BY Buttons DEF Tape, Plain, NotSetters
    <2> QED BY <1>8, <2>1 DEF Rewind, Reset
  <1>11. Slice \/ GoToSleep \/ Woken \/ TimeUp \/ Tick \/ UNCHANGED vars => Goal
    BY DEF Slice, GoToSleep, Woken, TimeUp, Tick, NotWindow, windowVars, machineVars, vars, SendsOnly, Goal
  <1> QED BY <1>2, <1>3, <1>4, <1>6, <1>7, <1>9, <1>10, <1>11 DEF Goal

(* A command that promises a state, if it finds room, heads for it.         *)
LEMMA PromiseMade ==
    ASSUME Told, NEW is \in Setters, SendButton([is |-> is]), told' = StateOf[is],
           is = "Quit" => window' = "gone"
    PROVE  Promised'
  <1>1. told' \in {"Running", "Paused", "Exited"} /\ (told' = "Exited" => window' = "gone")
    BY DEF Setters, StateOf
  <1>2. CASE HasRoom
    <2>1. ring \in Seq(Words) /\ ring' = Append(ring, Encode([is |-> is]))
      BY <1>2 DEF SendButton, Send, Told
    <2>2. Heading(StateOf[is])'
      BY <2>1, HeadingSet
    <2> QED BY <1>1, <2>2 DEF Promised
  <1>3. CASE ~HasRoom
    <2>1. "button" \in refused'
      BY <1>3 DEF SendButton
    <2> QED BY <1>1, <2>1 DEF Promised
  <1> QED BY <1>2, <1>3

LEMMA PromiseStep == KeyInv /\ Promised /\ [Next]_vars => Promised'
  <1> SUFFICES ASSUME KeyInv, Promised, [Next]_vars PROVE Promised'
    OBVIOUS
  <1>0. Told /\ ring \in Seq(Words)
    BY DEF KeyInv, Told
  <1>1. ASSUME TogglePause PROVE Promised'
    <2> DEFINE is == IF seen = "Running" THEN "Pause" ELSE "Resume"
    <2>1. /\ is \in Setters /\ is # "Quit" /\ SendButton([is |-> is])
          /\ told' = StateOf[is]
      BY <1>1 DEF TogglePause, Promise, Setters, StateOf
    <2> HIDE DEF is
    <2> QED BY <1>0, <2>1, PromiseMade
  <1>2. ASSUME ResumeAfterReset PROVE Promised'
    <2>1. SendButton([is |-> "Resume"]) /\ told' = StateOf["Resume"] /\ "Resume" \in Setters
      BY <1>2 DEF ResumeAfterReset, Resume, Promise, Setters, StateOf
    <2> QED BY <1>0, <2>1, PromiseMade
  <1>3. ASSUME Quit PROVE Promised'
    <2>1. /\ SendButton([is |-> "Quit"]) /\ told' = StateOf["Quit"] /\ "Quit" \in Setters
          /\ window' = "gone"
      BY <1>3 DEF Quit, Handle, Promise, Setters, StateOf
    <2> QED BY <1>0, <2>1, PromiseMade
  <1>4. ASSUME WakeSends PROVE Promised'
    <2>1. /\ window # "gone" /\ told' = told /\ refused' = refused /\ state' = state
          /\ told # "Exited"
      BY <1>4 DEF WakeSends, Handle, machineVars, Promised
    <2>2. CASE HasRoom
      <3>1. ring' = Append(ring, Encode([is |-> "Resume"])) /\ nudged' = TRUE /\ "Resume" \in Setters
        BY <1>4, <2>2 DEF WakeSends, Send, Resume, Setters
      <3>2. Heading("Running")'
        BY <1>0, <3>1, HeadingSet DEF StateOf
      <3>3. told \in {"Running", "Paused"}
        BY <2>1 DEF Promised
      <3> QED BY <2>1, <3>1, <3>2, <3>3 DEF Promised
    <2>3. CASE ~HasRoom
      <3>1. ring' = ring /\ (nudged' <=> nudged)
        BY <1>4, <2>3 DEF WakeSends, Send
      <3>2. \A s : Heading(s) => Heading(s)'
        BY <2>1, <3>1 DEF Heading
      <3> QED BY <2>1, <3>1, <3>2 DEF Promised
    <2> QED BY <2>2, <2>3
  <1>5. ASSUME Apply PROVE Promised'
    <2>1. UNCHANGED <<told, nudged, refused, window>>
      BY <1>5 DEF Apply, NotWindow, windowVars
    <2>2. \A s : Heading(s) => Heading(s)'
      BY <1>0, <1>5, HeadingReached
    <2> QED BY <2>1, <2>2 DEF Promised
  <1>6. ASSUME \/ \E k \in HostKeys : KeyDown(k) \/ KeyUp(k)
               \/ Elsewhere \/ LoseFocus \/ GainFocus
               \/ PressPause \/ PressTape \/ PressRewind \/ PressReset \/ PressSpeed \/ PressQuit
               \/ ToggleMute \/ ToggleTape \/ Rewind \/ Reset \/ WakeLooks \/ ApplyMutePolicy
               \/ Slice \/ GoToSleep \/ Woken \/ TimeUp \/ Tick \/ UNCHANGED vars
        PROVE  Promised'
    BY <1>0, <1>6, NoPromiseMade, NoPromise
  <1> QED BY <1>1, <1>2, <1>3, <1>4, <1>5, <1>6 DEF Next, Window, Handler, Thread

(* However the presses fall against the thread, a button that found room    *)
(* has the machine, once the ring is empty, in the state its handler        *)
(* returned (session.rs toggle_pause, reset, quit) or, if a wake took it    *)
(* for running with the Pause still on its way, running.                    *)
THEOREM ButtonsKeepPromises == Spec => []PromisesKept
  <1>1. Init => KeyInv /\ Promised
    BY ToldInit, PromisedInit, SessionAssumption DEF Init, KeyInv, Fingers, Distinct
  <1>2. KeyInv /\ Promised /\ [Next]_vars => (KeyInv /\ Promised)'
    BY KeyStep, PromiseStep
  <1>3. KeyInv /\ Promised => PromisesKept
    BY DEF Promised, PromisesKept, Heading, LastSent
  <1> QED BY <1>1, <1>2, <1>3, PTL DEF Spec

-----------------------------------------------------------------------------
(* The pace.                                                                *)

(* Nothing but a slice, a tick, a wait that ends and a turn of the knob is  *)
(* the pacer's business.                                                    *)
LEMMA PaceLeftAlone ==
    ASSUME \/ \E k \in HostKeys : KeyDown(k) \/ KeyUp(k)
           \/ Elsewhere \/ LoseFocus \/ GainFocus
           \/ PressPause \/ PressTape \/ PressRewind \/ PressReset \/ PressQuit
           \/ ToggleMute \/ Handler \/ UNCHANGED vars
    PROVE  UNCHANGED <<pacing, hands, state, thread>>
  <1> DEFINE Goal == UNCHANGED <<pacing, hands, state, thread>>
  <1>1. (\E k \in HostKeys : KeyDown(k) \/ KeyUp(k)) \/ Elsewhere \/ LoseFocus \/ GainFocus => Goal
    BY DEF KeyDown, KeyUp, Elsewhere, LoseFocus, GainFocus, NoOther, machineVars
  <1>2. PressPause \/ PressTape \/ PressRewind \/ PressReset \/ PressQuit => Goal
    BY DEF PressPause, PressTape, PressRewind, PressReset, PressQuit, Begin, Fixed, machineVars
  <1>3. ToggleMute => Goal
    BY DEF ToggleMute, Fixed, machineVars
  <1>4. TogglePause \/ ToggleTape \/ Rewind \/ Reset \/ ResumeAfterReset \/ Quit \/ WakeSends => Goal
    BY DEF TogglePause, ToggleTape, Rewind, Reset, ResumeAfterReset, Quit, WakeSends, Handle, Fixed, machineVars
  <1>5. WakeLooks \/ ApplyMutePolicy => Goal
    BY DEF WakeLooks, ApplyMutePolicy, Fixed, machineVars
  <1>6. UNCHANGED vars => Goal
    BY DEF vars, windowVars, machineVars
  <1> QED BY <1>1, <1>2, <1>3, <1>4, <1>5, <1>6 DEF Handler

LEMMA Knobs ==
    /\ \A s \in Speeds : SpeedAfter(s) \in Speeds
    /\ \A s \in Speeds : SliceAt(s) \in Nat
    /\ SliceAt("Normal") = SliceTicks
    /\ \A s \in Speeds : ByTheClock(s) => s # "Max"
    /\ NoAnchor \in [speed : Speeds, ahead : Int]
  BY PacingAssumption DEF Speeds, SpeedAfter, SliceAt, ByTheClock, NoAnchor

LEMMA WaitType ==
    ASSUME PacingTypeOK, NEW sound \in Nat, NEW ahead \in Int, Wait(sound, ahead)
    PROVE  anchor' \in [speed : Speeds, ahead : Int] /\ left' \in Nat
  <1>1. CASE ByTheSpeaker
    <2>1. AudioWait(sound) \in Nat
      BY PacingAssumption DEF AudioWait
    <2> QED BY <1>1, <2>1, Knobs DEF Wait
  <1>2. CASE ~ByTheSpeaker /\ ByTheClock(speed)
    <2>1. anchor' = Reanchored(ahead) /\ left' = ClockWait(anchor'.ahead)
      BY <1>2 DEF Wait
    <2>2. Reanchored(ahead) \in [speed : Speeds, ahead : Int]
      BY DEF Reanchored, PacingTypeOK
    <2>3. anchor'.ahead \in Int
      BY <2>1, <2>2
    <2> QED BY <2>1, <2>2, <2>3 DEF ClockWait
  <1>3. CASE ~ByTheSpeaker /\ ~ByTheClock(speed)
    BY <1>3, Knobs DEF Wait
  <1> QED BY <1>1, <1>2, <1>3

LEMMA SoundType ==
    ASSUME PacingTypeOK
    PROVE  SoundAfterSlice \in Nat /\ Least(SoundAfterSlice, RingTicks) \in 0 .. RingTicks
  <1>1. FrameSlices * SliceTicks \in Nat
    BY PacingAssumption
  <1> QED BY <1>1, PacingAssumption DEF SoundAfterSlice, Least, PacingTypeOK

LEMMA RunSliceType ==
    ASSUME PacingTypeOK, RunSlice
    PROVE  PacingTypeOK'
  <1>1. at' \in 0 .. FrameSlices - 1
    BY PacingAssumption DEF RunSlice, PacingTypeOK
  <1>2. fill' \in 0 .. RingTicks /\ fill' \in Nat
    BY SoundType, PacingAssumption DEF RunSlice
  <1>3. anchor.ahead + SliceAt(anchor.speed) \in Int
    BY Knobs DEF PacingTypeOK
  <1>4. anchor' \in [speed : Speeds, ahead : Int] /\ left' \in Nat
    BY <1>2, <1>3, WaitType DEF RunSlice
  <1>5. lead' \in Int
    BY Knobs DEF RunSlice, PacingTypeOK
  <1>6. cuts' \in Nat /\ by' \in Speeds /\ restarted' \in BOOLEAN /\ spilt' \in BOOLEAN
    BY DEF RunSlice, PacingTypeOK
  <1>7. UNCHANGED <<speed, audio, phase>>
    BY DEF RunSlice
  <1> QED BY <1>1, <1>2, <1>4, <1>5, <1>6, <1>7 DEF PacingTypeOK

LEMMA TickType ==
    ASSUME PacingTypeOK, NEW running \in BOOLEAN, TickOn(running)
    PROVE  PacingTypeOK'
  <1>1. phase' \in 0 .. CallbackTicks - 1
    BY PacingAssumption DEF TickOn, PacingTypeOK
  <1>2. fill' \in 0 .. RingTicks
    BY PacingAssumption DEF TickOn, PacingTypeOK, Most
  <1>3. \A n \in Int : Later(n) \in Int
    BY PacingAssumption DEF Later, Most
  <1>4. anchor' \in [speed : Speeds, ahead : Int]
    BY <1>3 DEF TickOn, PacingTypeOK
  <1>5. left' \in Nat /\ cuts' \in Nat /\ lead' \in Int
    BY <1>3 DEF TickOn, PacingTypeOK, Most
  <1>6. UNCHANGED <<speed, audio, at, by, restarted, spilt>>
    BY DEF TickOn
  <1> QED BY <1>1, <1>2, <1>4, <1>5, <1>6 DEF PacingTypeOK

(* What of a step is the pacer's business.                                  *)
PaceStep ==
    \/ PressSpeed \/ Apply \/ Slice \/ GoToSleep \/ Woken \/ TimeUp \/ Tick
    \/ UNCHANGED <<pacing, hands, state, thread>>

LEMMA NextPaces == [Next]_vars => PaceStep
  BY PaceLeftAlone DEF Next, Window, Thread, PaceStep

LEMMA PaceTypeStep == PacingTypeOK /\ PaceStep => PacingTypeOK'
  <1> SUFFICES ASSUME PacingTypeOK, PaceStep PROVE PacingTypeOK'
    OBVIOUS
  <1>1. CASE PressSpeed
    <2>1. Turn
      BY <1>1 DEF PressSpeed
    <2> QED BY <2>1, Knobs DEF Turn, PacingTypeOK
  <1>2. ASSUME UNCHANGED pacing PROVE PacingTypeOK'
    BY <1>2 DEF pacing, PacingTypeOK
  <1>3. CASE Apply
    <2>1. Start \/ UNCHANGED pacing
      BY <1>3 DEF Apply
    <2>2. Start => PacingTypeOK'
      BY DEF Start, PacingTypeOK
    <2> QED BY <1>2, <2>1, <2>2
  <1>4. CASE Slice
    <2>1. RunSlice \/ RunUntimed
      BY <1>4 DEF Slice
    <2>2. RunUntimed => PacingTypeOK'
      BY PacingAssumption DEF RunUntimed, PacingTypeOK
    <2> QED BY <2>1, <2>2, RunSliceType
  <1>5. CASE Woken
    <2>1. CutShort
      BY <1>5 DEF Woken
    <2> QED BY <2>1 DEF CutShort, PacingTypeOK
  <1>6. CASE Tick
    <2>1. TickOn(state = "Running") /\ (state = "Running") \in BOOLEAN
      BY <1>6 DEF Tick
    <2> QED BY <2>1, TickType
  <1>7. CASE GoToSleep \/ TimeUp \/ UNCHANGED <<pacing, hands, state, thread>>
    BY <1>2, <1>7 DEF GoToSleep, TimeUp
  <1> QED BY <1>1, <1>3, <1>4, <1>5, <1>6, <1>7 DEF PaceStep

(* Where the pacer is: whose speed the anchor has, what the thread waits    *)
(* for, and how far the machine can be ahead of the clock.                  *)
Anchored == anchor # NoAnchor => anchor.speed = by /\ ByTheClock(by)
Waits ==
    /\ state \in {"Running", "Paused", "Exited"}
    /\ thread # "wait" => left = 0
    /\ state # "Running" => thread # "wait"
Agreed ==
    \/ anchor # NoAnchor /\ (state = "Running" => anchor.ahead = lead)
    \/ state # "Running" /\ lead = 0
Ahead ==
    /\ lead <= left + SliceAt(by) * cuts
    /\ lead <= SliceAt(by) * (1 + cuts)
    /\ left <= Most(lead, 0)
ClockTold == Anchored /\ Waits /\ (ByTheClock(by) /\ ~restarted => Agreed /\ Ahead)

LEMMA OneMore ==
    ASSUME NEW s \in Nat, NEW c \in Nat
    PROVE  /\ s * (1 + c) = s + s * c /\ s * (1 + (c + 1)) = s + s * (c + 1)
           /\ s * (c + 1) = s + s * c /\ s * c \in Nat /\ s * 0 = 0 /\ s * (1 + 0) = s
  OBVIOUS

LEMMA SliceTold ==
    ASSUME PacingTypeOK, ClockTold, Slice, RunSlice
    PROVE  ClockTold'
  <1>0. /\ left = 0 /\ state' = state /\ state = "Running"
        /\ by' = speed /\ speed' = speed /\ audio' = audio
        /\ thread' = IF left' > 0 THEN "wait" ELSE "drain"
    BY DEF Slice, RunSlice, ClockTold, Waits
  <1>1. anchor.ahead \in Int /\ lead \in Int /\ cuts \in Nat /\ speed \in Speeds /\ by \in Speeds
    BY DEF PacingTypeOK
  <1>2. left' \in Nat
    BY RunSliceType DEF PacingTypeOK
  <1>3. Waits'
    BY <1>0, <1>2 DEF Waits
  <1>4. CASE ByTheClock(speed)
    <2> DEFINE ahead == anchor.ahead + SliceAt(anchor.speed)
    <2>1. ~ByTheSpeaker /\ speed # "Max"
      BY <1>1, <1>4, Knobs DEF ByTheSpeaker, ByTheClock
    <2>2. anchor' = Reanchored(ahead) /\ left' = ClockWait(anchor'.ahead)
      BY <1>4, <2>1 DEF RunSlice, Wait
    <2>3. anchor'.speed = speed /\ anchor' # NoAnchor
      BY <2>1, <2>2 DEF Reanchored, NoAnchor
    <2>4. Anchored'
      BY <1>0, <1>4, <2>3 DEF Anchored, ByTheClock
    <2>5. CASE by # speed
      <3>1. lead' = 0 /\ cuts' = 0
        BY <2>1, <2>5 DEF RunSlice
      <3>2. anchor'.ahead = 0
        <4>1. anchor = NoAnchor \/ anchor.speed # speed
          BY <2>5 DEF ClockTold, Anchored
        <4> QED BY <2>2, <4>1 DEF Reanchored
      <3>3. left' = 0
        BY <2>2, <3>2 DEF ClockWait
      <3>4. Ahead'
        <4>1. SliceAt(by)' \in Nat
          BY <1>0, <1>1, Knobs DEF SliceAt
        <4> QED BY <3>1, <3>3, <4>1, OneMore DEF Ahead, Most
      <3> QED BY <1>3, <2>3, <2>4, <3>1, <3>2, <3>4 DEF ClockTold, Agreed
    <2>6. CASE by = speed
      <3>1. lead' = lead + SliceAt(by) /\ cuts' = cuts /\ restarted' = restarted
        BY <1>4, <2>6 DEF RunSlice, PacingTypeOK
      <3>2. CASE restarted
        BY <1>3, <2>4, <3>1, <3>2 DEF ClockTold
      <3>3. CASE ~restarted
        <4>1. Agreed /\ Ahead
          BY <1>4, <2>6, <3>3 DEF ClockTold
        <4>2. anchor # NoAnchor /\ anchor.ahead = lead /\ anchor.speed = by
          BY <1>0, <4>1 DEF Agreed, ClockTold, Anchored
        <4>3. anchor'.ahead = lead'
          BY <2>2, <2>6, <3>1, <4>2 DEF Reanchored
        <4>4. left' = ClockWait(lead')
          BY <2>2, <4>3
        <4>5. Ahead'
          <5> DEFINE slice == SliceAt(by)
                     p == slice * cuts
          <5>1. slice \in Nat /\ SliceAt(by)' = slice
            BY <1>0, <1>1, <2>6, Knobs DEF SliceAt
          <5>2. lead <= p /\ lead' = lead + slice /\ p \in Nat /\ slice * (1 + cuts) = slice + p
            BY <1>0, <1>1, <3>1, <4>1, <5>1, OneMore DEF Ahead
          <5>3. lead' <= left' + p /\ lead' <= slice + p /\ left' <= Most(lead', 0)
            <6> HIDE DEF slice, p
            <6> QED BY <1>1, <4>4, <5>1, <5>2 DEF ClockWait, Most
          <5> QED BY <3>1, <5>1, <5>2, <5>3 DEF Ahead
        <4> QED BY <1>3, <2>3, <2>4, <4>3, <4>5 DEF ClockTold, Agreed
      <3> QED BY <3>2, <3>3
    <2> QED BY <2>5, <2>6
  <1>5. CASE ~ByTheClock(speed)
    <2>1. anchor' = NoAnchor
      BY <1>5 DEF RunSlice, Wait
    <2>2. ~ByTheClock(by)'
      BY <1>0, <1>5 DEF ByTheClock
    <2> QED BY <1>3, <2>1, <2>2 DEF ClockTold, Anchored, NoAnchor
  <1> QED BY <1>4, <1>5

LEMMA TickTold ==
    ASSUME PacingTypeOK, ClockTold, Tick
    PROVE  ClockTold'
  <1> DEFINE running == state = "Running"
             slice == SliceAt(by)
             p == slice * cuts
  <1>0. /\ TickOn(running) /\ UNCHANGED <<state, thread>>
        /\ UNCHANGED <<speed, audio, by, restarted>>
    BY DEF Tick, TickOn, machineVars
  <1>1. /\ anchor.ahead \in Int /\ anchor \in [speed : Speeds, ahead : Int] /\ lead \in Int
        /\ left \in Nat /\ cuts \in Nat /\ slice \in Nat /\ p \in Nat
    BY Knobs, OneMore DEF PacingTypeOK
  <1>2. /\ left' = Most(left - 1, 0)
        /\ lead' = IF running /\ ByTheClock(by) THEN Later(lead) ELSE lead
        /\ anchor' = IF anchor = NoAnchor THEN anchor ELSE [anchor EXCEPT !.ahead = Later(anchor.ahead)]
    BY <1>0 DEF TickOn
  <1>3. Waits'
    BY <1>0, <1>1, <1>2 DEF ClockTold, Waits, Most
  <1>4. Anchored'
    <2>1. anchor = NoAnchor => anchor' = NoAnchor
      BY <1>2
    <2>2. anchor # NoAnchor => anchor'.speed = anchor.speed
      BY <1>1, <1>2
    <2> QED BY <1>0, <2>1, <2>2 DEF ClockTold, Anchored, ByTheClock
  <1>5. ASSUME ByTheClock(by), ~restarted PROVE (Agreed /\ Ahead)'
    <2>1. Agreed /\ Ahead
      BY <1>5 DEF ClockTold
    <2>2. Agreed'
      <3>1. CASE anchor # NoAnchor
        <4>1. /\ anchor' # NoAnchor /\ anchor'.ahead = Later(anchor.ahead)
          <5>1. anchor.speed # "Max"
            BY <1>5, <3>1, Knobs DEF ClockTold, Anchored, PacingTypeOK
          <5> QED BY <1>1, <1>2, <3>1, <5>1 DEF NoAnchor
        <4> QED BY <1>0, <1>2, <1>5, <2>1, <3>1, <4>1 DEF Agreed
      <3>2. CASE anchor = NoAnchor
        BY <1>0, <1>2, <2>1, <3>2 DEF Agreed
      <3> QED BY <3>1, <3>2
    <2>3. cuts' = IF lead' <= 0 THEN 0 ELSE cuts
      BY <1>0, <1>5 DEF TickOn
    <2>4. SliceAt(by)' = slice
      BY <1>0 DEF SliceAt
    <2>5. lead <= left + p /\ lead <= slice + p /\ left <= Most(lead, 0) /\ (~running => left = 0)
      BY <1>1, <2>1, OneMore DEF Ahead, ClockTold, Waits
    <2> DEFINE l == IF running THEN Later(lead) ELSE lead
               w == Most(left - 1, 0)
               c == IF l <= 0 THEN 0 ELSE cuts
    <2>6. lead' = l /\ left' = w /\ cuts' = c
      BY <1>2, <1>5, <2>3
    <2>7. l \in Int /\ w \in Nat /\ w <= Most(l, 0) /\ l <= w + p /\ l <= slice + p
      <3> HIDE DEF running, slice, p
      <3>1. CASE l <= 0
        BY <1>1, <2>5, <3>1, PacingAssumption DEF Later, Most
      <3>2. CASE l > 0
        BY <1>1, <2>5, <3>2, PacingAssumption DEF Later, Most
      <3>3. l \in Int
        BY <1>1, PacingAssumption DEF Later, Most
      <3> QED BY <3>1, <3>2, <3>3
    <2>8. l <= w + slice * c /\ l <= slice * (1 + c)
      <3>1. CASE l <= 0
        <4>1. slice * c = 0 /\ slice * (1 + c) = slice
          BY <1>1, <3>1, OneMore
        <4>2. l <= w + 0 /\ l <= slice
          <5> HIDE DEF l, w, slice
          <5> QED BY <1>1, <2>7, <3>1
        <4> QED BY <4>1, <4>2
      <3>2. CASE ~(l <= 0)
        <4>1. slice * c = p /\ slice * (1 + c) = slice + p
          BY <1>1, <3>2, OneMore
        <4> QED BY <2>7, <4>1
      <3> QED BY <3>1, <3>2
    <2>9. Ahead'
      <3> HIDE DEF l, w, c, slice
      <3> QED BY <2>4, <2>6, <2>7, <2>8 DEF Ahead
    <2> QED BY <2>2, <2>9
  <1> QED BY <1>0, <1>3, <1>4, <1>5 DEF ClockTold, ByTheClock

LEMMA ClockStep == PacingTypeOK /\ ClockTold /\ PaceStep => ClockTold'
  <1> SUFFICES ASSUME PacingTypeOK, ClockTold, PaceStep PROVE ClockTold'
    OBVIOUS
  <1>1. CASE PressSpeed
    <2>1. /\ UNCHANGED <<audio, anchor, left, lead, by, restarted, cuts, state, thread>>
      BY <1>1 DEF PressSpeed, Begin, Turn, machineVars
    <2> QED BY <2>1 DEF ClockTold, Anchored, Waits, Agreed, Ahead, ByTheClock, SliceAt
  <1>2. CASE Apply
    <2>1. thread = "drain" /\ thread' = thread
      BY <1>2 DEF Apply
    <2>2. CASE state = "Paused" /\ state' = "Running"
      <3>1. restarted' /\ UNCHANGED <<audio, anchor, left, by>>
        BY <1>2, <2>2 DEF Apply, Start
      <3> QED BY <2>1, <2>2, <3>1 DEF ClockTold, Anchored, Waits, ByTheClock
    <2>3. CASE ~(state = "Paused" /\ state' = "Running")
      <3>1. UNCHANGED pacing
        BY <1>2, <2>3 DEF Apply
      <3>2. state' \in {"Running", "Paused", "Exited"} /\ (state' = "Running" => state = "Running")
        BY <1>2, <2>3 DEF Apply, ClockTold, Waits
      <3> QED BY <2>1, <3>1, <3>2 DEF pacing, ClockTold, Anchored, Waits, Agreed, Ahead, ByTheClock, SliceAt
    <2> QED BY <2>2, <2>3
  <1>3. CASE Slice
    <2>1. CASE RunSlice
      BY <1>3, <2>1, SliceTold
    <2>2. CASE RunUntimed
      <3>1. /\ UNCHANGED <<audio, anchor, left, lead, by, restarted, cuts, state>> /\ left = 0
            /\ thread' = IF left' > 0 THEN "wait" ELSE "drain"
        BY <1>3, <2>2 DEF Slice, RunUntimed, ClockTold, Waits
      <3> QED BY <3>1 DEF ClockTold, Anchored, Waits, Agreed, Ahead, ByTheClock, SliceAt
    <2> QED BY <1>3, <2>1, <2>2 DEF Slice
  <1>4. CASE Woken
    <2>1. /\ left' = 0 /\ cuts' = (IF left > 0 THEN cuts + 1 ELSE cuts) /\ thread' = "drain"
          /\ UNCHANGED <<audio, anchor, lead, by, restarted, state>>
      BY <1>4 DEF Woken, CutShort
    <2>2. Anchored' /\ Waits'
      BY <2>1 DEF ClockTold, Anchored, Waits, ByTheClock
    <2>3. ASSUME ByTheClock(by), ~restarted PROVE (Agreed /\ Ahead)'
      <3>1. Agreed /\ Ahead
        BY <2>3 DEF ClockTold
      <3> DEFINE slice == SliceAt(by)
                 p == slice * cuts
      <3>2. lead \in Int /\ left \in Nat /\ cuts \in Nat /\ slice \in Nat /\ SliceAt(by)' = slice
        BY <2>1, Knobs DEF PacingTypeOK, SliceAt
      <3>3. /\ slice * (1 + cuts) = slice + p /\ slice * (1 + (cuts + 1)) = slice + slice * (cuts + 1)
            /\ slice * (cuts + 1) = slice + p /\ p \in Nat
        BY <3>2, OneMore
      <3>4. lead <= left + p /\ lead <= slice + p /\ left <= Most(lead, 0)
        BY <3>1, <3>3 DEF Ahead
      <3>5. CASE left > 0
        <4>1. slice * cuts' = slice + p /\ slice * (1 + cuts') = slice + (slice + p)
          BY <2>1, <3>3, <3>5
        <4> DEFINE p2 == slice * cuts'
                   q2 == slice * (1 + cuts')
        <4> HIDE DEF slice, p, p2, q2
        <4>2. lead <= 0 + p2 /\ lead <= q2 /\ 0 <= Most(lead, 0)
          BY <3>2, <3>3, <3>4, <4>1 DEF Most, p2, q2
        <4> QED BY <2>1, <3>1, <3>2, <4>2 DEF Agreed, Ahead, p2, q2
      <3>6. CASE ~(left > 0)
        <4>1. left = 0 /\ cuts' = cuts
          BY <2>1, <3>2, <3>6
        <4> QED BY <2>1, <3>1, <4>1 DEF Agreed, Ahead, SliceAt
      <3> QED BY <3>5, <3>6
    <2> QED BY <2>1, <2>2, <2>3 DEF ClockTold, ByTheClock
  <1>5. CASE GoToSleep \/ TimeUp
    <2>1. UNCHANGED <<pacing, state>> /\ left = 0 /\ thread' # "wait"
      BY <1>5 DEF GoToSleep, TimeUp, ClockTold, Waits
    <2> QED BY <2>1 DEF pacing, ClockTold, Anchored, Waits, Agreed, Ahead, ByTheClock, SliceAt
  <1>6. CASE Tick
    BY <1>6, TickTold
  <1>7. CASE UNCHANGED <<pacing, hands, state, thread>>
    BY <1>7 DEF pacing, ClockTold, Anchored, Waits, Agreed, Ahead, ByTheClock, SliceAt
  <1> QED BY <1>1, <1>2, <1>3, <1>4, <1>5, <1>6, <1>7 DEF PaceStep

LEMMA PaceInit == Init => PacingTypeOK /\ ClockTold
  <1> SUFFICES ASSUME Init PROVE PacingTypeOK /\ ClockTold
    OBVIOUS
  <1>1. PacingTypeOK
    <2>1. PacingInit
      BY DEF Init
    <2>2. speed \in Speeds /\ by \in Speeds /\ audio \in BOOLEAN /\ restarted \in BOOLEAN /\ spilt \in BOOLEAN
      BY <2>1, PacingAssumption DEF PacingInit, Speeds
    <2>3. fill \in 0 .. RingTicks /\ phase \in 0 .. CallbackTicks - 1 /\ at \in 0 .. FrameSlices - 1
      BY <2>1, PacingAssumption DEF PacingInit
    <2>4. anchor \in [speed : Speeds, ahead : Int] /\ left \in Nat /\ lead \in Int /\ cuts \in Nat
      BY <2>1, Knobs DEF PacingInit
    <2> QED BY <2>2, <2>3, <2>4 DEF PacingTypeOK
  <1>2. /\ anchor = NoAnchor /\ left = 0 /\ lead = 0 /\ cuts = 0 /\ by = "Normal"
        /\ state = "Paused" /\ thread = "drain"
    BY DEF Init, PacingInit
  <1>3. SliceAt("Normal") \in Nat
    BY Knobs DEF Speeds
  <1>4. Ahead
    BY <1>2, <1>3, OneMore DEF Ahead, Most
  <1> QED BY <1>1, <1>2, <1>4 DEF ClockTold, Anchored, Waits, Agreed

(* Whatever the slices, the callbacks and the presses, a machine paced by   *)
(* the clock (pacing.rs Pacer::wait, pace_by_clock) is never ahead of it by *)
(* more than a slice for every wait cut short, and never waits while it is  *)
(* not ahead, until it is paused and started again.                         *)
THEOREM ClockKept == Spec => []PacedByTheClock
  <1>1. Init => PacingTypeOK /\ ClockTold
    BY PaceInit
  <1>2. PacingTypeOK /\ ClockTold /\ [Next]_vars => (PacingTypeOK /\ ClockTold)'
    BY NextPaces, PaceTypeStep, ClockStep
  <1>3. PacingTypeOK /\ ClockTold => PacedByTheClock
    BY DEF ClockTold, Ahead, PacedByTheClock
  <1> QED BY <1>1, <1>2, <1>3, PTL DEF Spec

(* By the speaker: at every slice of a frame the machine has waited for     *)
(* what was over the high water, and the device takes it in callbacks.      *)
Over == fill - HighWater
Owed == at * Over + Over - left
Sound ==
    /\ by = "Normal" /\ audio /\ cuts = 0 /\ fill > HighWater /\ hands = "speed" => Owed <= phase
    /\ ~spilt

LEMMA ManyFit ==
    ASSUME NEW n \in Nat \ {0}, NEW e \in Nat, NEW c \in Nat, n * e <= c
    PROVE  e <= c \div n
  OBVIOUS

LEMMA SliceSounds ==
    ASSUME RoomForAFrame, PacingTypeOK, ClockTold, Sound, Slice, RunSlice, hands = "speed", hands' = "speed"
    PROVE  Sound'
  <1>0. /\ left = 0 /\ phase' = phase /\ by' = speed /\ speed' = speed /\ audio' = audio
        /\ fill' = Least(SoundAfterSlice, RingTicks) /\ at' = (at + 1) % FrameSlices
        /\ Wait(fill', anchor.ahead + SliceAt(anchor.speed))
    BY DEF Slice, RunSlice, ClockTold, Waits
  <1>1. /\ fill \in Nat /\ fill <= RingTicks /\ at \in Nat /\ at <= FrameSlices - 1
        /\ phase \in Nat /\ phase <= CallbackTicks - 1
        /\ HighWater \in Nat /\ RingTicks \in Nat /\ CallbackTicks \in Nat \ {0}
        /\ FrameSlices \in Nat \ {0} /\ SliceTicks \in Nat \ {0}
        /\ FrameSlices * SliceTicks \in Nat
    BY PacingAssumption DEF PacingTypeOK
  <1>2. ASSUME by = "Normal", audio, cuts = 0 PROVE SoundAfterSlice <= RingTicks
    <2>1. CASE at + 1 # FrameSlices
      BY <1>1, <2>1 DEF SoundAfterSlice
    <2>2. CASE at + 1 = FrameSlices
      <3>1. SoundAfterSlice = fill + FrameSlices * SliceTicks
        BY <2>2 DEF SoundAfterSlice
      <3> DEFINE most == (CallbackTicks - 1) \div FrameSlices
                 frame == FrameSlices * SliceTicks
      <3>2. most \in Nat /\ frame \in Nat /\ HighWater + most + frame <= RingTicks
        BY <1>1 DEF RoomForAFrame
      <3>3. CASE fill <= HighWater
        <4> HIDE DEF most, frame
        <4>1. fill + frame <= RingTicks
          BY <1>1, <3>2, <3>3
        <4> QED BY <3>1, <4>1 DEF frame
      <3>4. CASE fill > HighWater
        <4>1. Over \in Nat /\ fill = HighWater + Over
          BY <1>1, <3>4 DEF Over
        <4>2. FrameSlices * Over <= CallbackTicks - 1
          <5>1. at * Over + Over <= phase
            <6>1. at * Over \in Nat
              BY <1>1, <4>1
            <6> QED BY <1>0, <1>1, <1>2, <3>4, <4>1, <6>1 DEF Sound, Owed
          <5>2. FrameSlices * Over = at * Over + Over
            BY <1>1, <2>2, <4>1
          <5>3. at * Over + Over \in Nat
            BY <1>1, <4>1
          <5> QED BY <1>1, <5>1, <5>2, <5>3
        <4>3. Over <= most
          BY <1>1, <4>1, <4>2, ManyFit
        <4> HIDE DEF most, frame
        <4>4. fill + frame <= RingTicks
          BY <1>1, <3>2, <4>1, <4>3
        <4> QED BY <3>1, <4>4 DEF frame
      <3> QED BY <1>1, <3>3, <3>4
    <2> QED BY <2>1, <2>2
  <1>3. ~spilt'
    <2>1. SoundAfterSlice \in Nat
      BY SoundType
    <2>2. spilt' = (spilt \/ (SoundAfterSlice > RingTicks /\ by = "Normal" /\ audio /\ cuts = 0))
      BY DEF RunSlice
    <2>3. ~(SoundAfterSlice > RingTicks /\ by = "Normal" /\ audio /\ cuts = 0)
      <3> HIDE DEF SoundAfterSlice
      <3> QED BY <1>1, <1>2, <2>1
    <2> QED BY <2>2, <2>3 DEF Sound
  <1>4. ASSUME by' = "Normal", audio', cuts' = 0, fill' > HighWater PROVE Owed' <= phase'
    <2>1. by = "Normal" /\ cuts = 0 /\ audio /\ ByTheSpeaker
      BY <1>0, <1>4 DEF RunSlice, ByTheSpeaker
    <2>2. SoundAfterSlice <= RingTicks /\ SoundAfterSlice \in Nat
      BY <1>2, <2>1, SoundType
    <2>3. fill' = SoundAfterSlice /\ left' = fill' - HighWater
      BY <1>0, <1>1, <1>4, <2>1, <2>2 DEF Least, Wait, AudioWait
    <2>4. CASE at + 1 = FrameSlices
      <3>1. at' = 0
        BY <1>0, <1>1, <2>4
      <3> QED BY <1>0, <1>1, <2>2, <2>3, <3>1 DEF Owed, Over
    <2>5. CASE at + 1 # FrameSlices
      <3>1. at' = at + 1
        BY <1>0, <1>1, <2>5
      <3>2. fill' = fill
        BY <2>3, <2>5 DEF SoundAfterSlice
      <3>3. Owed <= phase
        BY <1>4, <2>1, <3>2 DEF Sound
      <3> DEFINE e == fill - HighWater
      <3>4. e \in Nat /\ at * e \in Nat /\ (at + 1) * e = at * e + e
        BY <1>1, <1>4, <3>2
      <3>5. Owed = at * e + e - 0
        BY <1>0 DEF Owed, Over
      <3>6. Owed' = (at + 1) * e + e - e
        BY <2>3, <3>1, <3>2 DEF Owed, Over
      <3> DEFINE p == at * e
      <3>7. p \in Nat /\ e \in Nat /\ Owed = p + e - 0 /\ Owed' = p + e + e - e
        BY <3>4, <3>5, <3>6
      <3> HIDE DEF e, p
      <3> QED BY <1>0, <1>1, <3>3, <3>7
    <2> QED BY <2>4, <2>5
  <1> QED BY <1>3, <1>4 DEF Sound

LEMMA TickSounds ==
    ASSUME PacingTypeOK, Sound, Tick
    PROVE  Sound'
  <1>0. /\ phase' = (phase + 1) % CallbackTicks /\ left' = Most(left - 1, 0)
        /\ fill' = (IF audio /\ phase' = 0 THEN Most(fill - CallbackTicks, 0) ELSE fill)
        /\ UNCHANGED <<audio, at, by, spilt, hands>>
        /\ cuts' = IF (IF ByTheClock(by) THEN lead' <= 0 ELSE fill' <= HighWater) THEN 0 ELSE cuts
    BY DEF Tick, TickOn, NotWindow, windowVars
  <1>1. /\ fill \in Nat /\ at \in Nat /\ left \in Nat
        /\ phase \in Nat /\ phase <= CallbackTicks - 1
        /\ HighWater \in Nat /\ CallbackTicks \in Nat \ {0}
    BY PacingAssumption DEF PacingTypeOK
  <1>2. ASSUME by' = "Normal", audio', cuts' = 0, fill' > HighWater, hands' = "speed" PROVE Owed' <= phase'
    <2>1. by = "Normal" /\ audio /\ hands = "speed" /\ ~ByTheClock(by)
      BY <1>0, <1>2 DEF ByTheClock
    <2>2. fill' <= fill /\ fill' \in Nat
      BY <1>0, <1>1 DEF Most
    <2>3. cuts = 0
      BY <1>0, <1>1, <1>2, <2>1, <2>2
    <2>4. Owed <= phase
      BY <1>1, <1>2, <2>1, <2>2, <2>3 DEF Sound
    <2> DEFINE e == fill - HighWater
               p == at * e
    <2>5. e \in Nat /\ p \in Nat /\ Owed = p + e - left
      BY <1>1, <1>2, <2>2 DEF Owed, Over
    <2> DEFINE w == Most(left - 1, 0)
    <2>6. left' = w /\ w \in Nat /\ w >= left - 1
      BY <1>0, <1>1 DEF Most
    <2>7. CASE phase' # 0
      <3>1. phase' = phase + 1
        BY <1>0, <1>1, <2>7
      <3>2. Owed' = p + e - w
        BY <1>0, <2>6, <2>7 DEF Owed, Over
      <3> HIDE DEF e, p, w
      <3>3. p + e - left <= phase
        BY <2>4, <2>5
      <3>4. p + e - w <= phase + 1
        BY <1>1, <2>5, <2>6, <3>3
      <3> QED BY <3>1, <3>2, <3>4
    <2>8. CASE phase' = 0
      <3>1. phase = CallbackTicks - 1
        BY <1>0, <1>1, <2>8
      <3> DEFINE f == e - CallbackTicks
                 q == at * f
      <3>2. fill' = fill - CallbackTicks
        BY <1>0, <1>1, <1>2, <2>1, <2>8 DEF Most
      <3>3. f \in Nat
        BY <1>1, <1>2, <3>2
      <3>4. q \in Nat /\ q <= p
        <4>1. f \in Nat /\ e \in Nat /\ f <= e
          BY <1>1, <2>5, <3>3
        <4> HIDE DEF f, e
        <4> QED BY <1>1, <4>1
      <3>5. Owed' = q + f - w
        <4>1. fill' - HighWater = f
          BY <1>1, <3>2
        <4> HIDE DEF f
        <4> QED BY <1>0, <2>6, <4>1 DEF Owed, Over
      <3>6. p + e - left <= phase
        BY <2>4, <2>5
      <3>7. q + f - w <= 0
        <4>1. f = e - CallbackTicks
          OBVIOUS
        <4> HIDE DEF e, p, f, q, w
        <4> QED BY <1>1, <2>5, <2>6, <3>1, <3>3, <3>4, <3>6, <4>1
      <3> HIDE DEF q, f, w
      <3> QED BY <2>8, <3>5, <3>7
    <2> QED BY <2>7, <2>8
  <1> QED BY <1>0, <1>2 DEF Sound

LEMMA SoundStep ==
    ASSUME RoomForAFrame, PacingTypeOK, ClockTold, Sound, PaceStep
    PROVE  Sound'
  <1>1. CASE PressSpeed
    <2>1. UNCHANGED <<audio, left, fill, phase, at, by, cuts, spilt, hands>>
      BY <1>1 DEF PressSpeed, Begin, Fixed, Turn
    <2> QED BY <2>1 DEF Sound, Owed, Over
  <1>2. CASE Apply
    <2>1. UNCHANGED <<audio, left, fill, phase, at, by, spilt, hands>>
      BY <1>2 DEF Apply, Start, pacing, NotWindow, windowVars
    <2>2. by = "Normal" /\ audio => cuts' = cuts
      BY <1>2 DEF Apply, Start, pacing, ByTheClock
    <2> QED BY <2>1, <2>2 DEF Sound, Owed, Over
  <1>3. CASE Slice
    <2>1. hands' = hands
      BY <1>3 DEF Slice, NotWindow, windowVars
    <2>2. CASE hands = "speed"
      BY <1>3, <2>1, <2>2, SliceSounds DEF Slice
    <2>3. CASE hands # "speed"
      BY <1>3, <2>1, <2>3 DEF Slice, RunUntimed, Sound
    <2> QED BY <2>2, <2>3
  <1>4. CASE Woken
    <2>1. /\ left' = 0 /\ cuts' = (IF left > 0 THEN cuts + 1 ELSE cuts)
          /\ UNCHANGED <<audio, fill, phase, at, by, spilt, hands>>
      BY <1>4 DEF Woken, CutShort, NotWindow, windowVars
    <2>2. left \in Nat /\ cuts \in Nat
      BY DEF PacingTypeOK
    <2>3. cuts' = 0 => left' = left /\ cuts = 0
      BY <2>1, <2>2
    <2> QED BY <2>1, <2>3 DEF Sound, Owed, Over
  <1>5. CASE GoToSleep \/ TimeUp
    <2>1. UNCHANGED <<pacing, hands>>
      BY <1>5 DEF GoToSleep, TimeUp, NotWindow, windowVars
    <2> QED BY <2>1 DEF pacing, Sound, Owed, Over
  <1>6. CASE Tick
    BY <1>6, TickSounds
  <1>7. CASE UNCHANGED <<pacing, hands, state, thread>>
    BY <1>7 DEF pacing, Sound, Owed, Over
  <1> QED BY <1>1, <1>2, <1>3, <1>4, <1>5, <1>6, <1>7 DEF PaceStep

(* However fast the machine is and whatever the device takes at a time, if  *)
(* the ring has room above the high water for a frame and for what the      *)
(* device can still owe at the end of one, a machine paced by the speaker   *)
(* loses no sound while none of its waits is cut short (pacing.rs           *)
(* HIGH_WATER, wait_for_the_speaker).                                       *)
THEOREM PaceKept == ASSUME RoomForAFrame PROVE Spec => []PacedAsAsked
  <1>1. Init => PacingTypeOK /\ ClockTold /\ Sound
    BY PaceInit, PacingAssumption DEF Init, PacingInit, Sound
  <1>2. PacingTypeOK /\ ClockTold /\ Sound /\ [Next]_vars => (PacingTypeOK /\ ClockTold /\ Sound)'
    BY NextPaces, PaceTypeStep, ClockStep, SoundStep
  <1>3. PacingTypeOK /\ ClockTold /\ Sound => PacedAsAsked
    BY DEF ClockTold, Ahead, PacedByTheClock, Sound, PacedAsAsked
  <1> QED BY <1>1, <1>2, <1>3, PTL DEF Spec
=============================================================================
