-------------------------------- MODULE Tzx --------------------------------
(***************************************************************************)
(* The TZX file: a signature, a version and blocks, each an id byte, the   *)
(* fields of its header (little-endian, FieldsOf) and a body whose length  *)
(* the header counts (BodyLength).  A block read is                        *)
(*   [id, field |-> [name -> value], body]                                 *)
(* and PlanOf is what the player makes of it.                              *)
(***************************************************************************)
EXTENDS Tap

Magic == <<90, 88, 84, 97, 112, 101, 33, 26>>
Version == <<1, 20>>

(***************************************************************************)
(* What the header of a block holds: the names of its fields in the order  *)
(* they are read, with their widths in bytes.  A field called "_" is       *)
(* stepped over.                                                           *)
(***************************************************************************)
F(name, width) == [name |-> name, width |-> width]

FieldsOf(id) ==
    CASE id = 16 -> <<F("pause_ms", 2), F("len", 2)>>
      [] id = 17 -> <<F("pilot", 2), F("sync_first", 2), F("sync_second", 2), F("zero", 2),
                      F("one", 2), F("pilot_pulses", 2), F("last_bits", 1), F("pause_ms", 2),
                      F("len", 3)>>
      [] id = 18 -> <<F("length", 2), F("pulses", 2)>>
      [] id = 19 -> <<F("len", 1)>>
      [] id = 20 -> <<F("zero", 2), F("one", 2), F("last_bits", 1), F("pause_ms", 2), F("len", 3)>>
      [] id = 21 -> <<F("each", 2), F("pause_ms", 2), F("last_bits", 1), F("len", 3)>>
      [] id = 32 -> <<F("ms", 2)>>
      [] id \in {33, 48, 51} -> <<F("len", 1)>>
      [] id = 35 -> <<F("offset", 2)>>
      [] id = 36 -> <<F("count", 2)>>
      [] id \in {34, 37, 39} -> <<>>
      [] id = 42 -> <<F("_", 4)>>
      [] id = 43 -> <<F("_", 4), F("level", 1)>>
      [] id = 49 -> <<F("seconds", 1), F("len", 1)>>
      [] id \in {38, 40, 50} -> <<F("len", 2)>>
      [] id = 53 -> <<F("_", 10), F("len", 4)>>
      [] id = 90 -> <<F("_", 9)>>
      [] OTHER -> <<F("len", 4)>>         \* the extension rule: a length, and the rest of it

BodyLength(id, field) ==
    LET len == IF "len" \in DOMAIN field THEN field["len"] ELSE 0
    IN  CASE id \in {19, 38} -> 2 * len
          [] id = 51 -> 3 * len
          [] OTHER -> len

LittleEndian(payload) == FoldRight(LAMBDA octet, n : octet + 256 * n, payload, 0)

\* A count of bits the format does not allow is a whole byte; a jump is signed.
Read(name, n) ==
    CASE name = "last_bits" -> IF n \in 1 .. 8 THEN n ELSE 8
      [] name = "offset" -> IF n >= 32768 THEN n - 65536 ELSE n
      [] name = "_" -> 0
      [] OTHER -> n

(***************************************************************************)
(* The cursor.  Every read is a take, and a take of more than there is     *)
(* left refuses the file, saying where, for which block, and how much.     *)
(***************************************************************************)
Short(id, at, want, have) == [ok |-> FALSE, id |-> id, at |-> at, want |-> want, have |-> have]
NotATzx == [ok |-> FALSE, id |-> 0, at |-> 0, want |-> 0, have |-> 0]

\* Mutant: a read that reaches the end of the file is one too many.
TakeShort(file, id, at, len) ==
    LET have == Len(file) - at
    IN  IF len >= have THEN Short(id, at, len, have)
        ELSE [ok |-> TRUE, at |-> at + len, bytes |-> SubSeq(file, at + 1, at + len)]

Take(file, id, at, len) ==
    LET have == Len(file) - at
    IN  IF len > have THEN Short(id, at, len, have)
        ELSE [ok |-> TRUE, at |-> at + len, bytes |-> SubSeq(file, at + 1, at + len)]

RECURSIVE ReadFields(_, _, _, _, _)
ReadFields(file, id, at, fields, got) ==
    IF fields = <<>> THEN [ok |-> TRUE, at |-> at, field |-> got]
    ELSE LET f == Head(fields)
             value(bytes) == Read(f.name, IF f.name = "_" THEN 0 ELSE LittleEndian(bytes))
             rest(took) ==
                 IF ~took.ok THEN took
                 ELSE ReadFields(file, id, took.at, Tail(fields), (f.name :> value(took.bytes)) @@ got)
         IN  rest(Take(file, id, at, f.width))

ReadBlock(file, at) ==
    LET id == file[at + 1]
        read(field, body) ==
            IF ~body.ok THEN body
            ELSE [ok |-> TRUE, at |-> body.at,
                  block |-> [id |-> id, field |-> field, body |-> body.bytes]]
        rest(head) ==
            IF ~head.ok THEN head
            ELSE read(head.field, Take(file, id, head.at, BodyLength(id, head.field)))
    IN  rest(ReadFields(file, id, at + 1, FieldsOf(id), <<>>))

RECURSIVE TzxFrom(_, _, _)
TzxFrom(file, at, found) ==
    IF at >= Len(file) THEN [ok |-> TRUE, blocks |-> found]
    ELSE LET rest(next) == IF next.ok THEN TzxFrom(file, next.at, Append(found, next.block)) ELSE next
         IN  rest(ReadBlock(file, at))

TzxParse(file) ==
    IF Len(file) < 10 \/ SubSeq(file, 1, 8) # Magic THEN NotATzx ELSE TzxFrom(file, 10, <<>>)

(***************************************************************************)
(* The builder: each block as its caller spells it out.                    *)
(***************************************************************************)
LeTriple(n) == LeWord(n) \o <<(n \div 65536) % 256>>
LeDword(n) == LeTriple(n) \o <<0>>
Raw(id, parts) == <<id>> \o FlattenSeq(parts)

TzxStandard(pause_ms, body) == Raw(16, <<LeWord(pause_ms), LeWord(Len(body)), body>>)
TzxBlock(flag, data, pause_ms) == TzxStandard(pause_ms, Checked(flag, data))
TzxTurbo(turbo, body) ==
    Raw(17, <<LeWord(turbo.pilot), LeWord(turbo.sync_first), LeWord(turbo.sync_second),
              LeWord(turbo.zero), LeWord(turbo.one), LeWord(turbo.pilot_pulses),
              <<turbo.last_bits>>, LeWord(turbo.pause_ms), LeTriple(Len(body)), body>>)
TzxTone(length, pulses) == Raw(18, <<LeWord(length), LeWord(pulses)>>)
TzxPulses(lengths) == Raw(19, <<<<Len(lengths)>>>> \o [i \in DOMAIN lengths |-> LeWord(lengths[i])])
TzxPureData(zero, one, last_bits, pause_ms, body) ==
    Raw(20, <<LeWord(zero), LeWord(one), <<last_bits>>, LeWord(pause_ms), LeTriple(Len(body)), body>>)
TzxDirect(each, pause_ms, last_bits, samples) ==
    Raw(21, <<LeWord(each), LeWord(pause_ms), <<last_bits>>, LeTriple(Len(samples)), samples>>)
TzxPause(ms) == Raw(32, <<LeWord(ms)>>)
TzxGroupStart(name) == Raw(33, <<<<Len(name)>>, name>>)
TzxGroupEnd == Raw(34, <<>>)
TzxJump(offset) == Raw(35, <<LeWord(offset % 65536)>>)
TzxLoopStart(count) == Raw(36, <<LeWord(count)>>)
TzxLoopEnd == Raw(37, <<>>)
TzxStopIf48k == Raw(42, <<LeDword(0)>>)
TzxLevel(level) == Raw(43, <<LeDword(1), <<IF level THEN 1 ELSE 0>>>>)
TzxText(text) == Raw(48, <<<<Len(text)>>, text>>)
TzxUnknown(id, body) == Raw(id, <<LeDword(Len(body)), body>>)

HeaderBytes == Magic \o Version

(***************************************************************************)
(* What a block plays.  A pause block is a data block with no data, and a  *)
(* pause of nothing stops the tape.                                        *)
(***************************************************************************)
Coded(f, pilot, pilot_pulses, sync_first, sync_second, body) ==
    Data(pilot, pilot_pulses, sync_first, sync_second, f.zero, f.one, f.last_bits,
         TailFor(f.pause_ms), PauseFor(f.pause_ms), body)

PlanOf(block, index) ==
    LET f == block.field
        body == block.body
    IN  CASE block.id = 16 -> Standard(body # <<>> /\ body[1] < 128, TailFor(f.pause_ms),
                                       PauseFor(f.pause_ms), body)
          [] block.id = 17 -> Coded(f, f.pilot, f.pilot_pulses, f.sync_first, f.sync_second, body)
          [] block.id = 18 -> [is |-> "Tone", length |-> f.length, pulses |-> f.pulses]
          [] block.id = 19 -> [is |-> "Pulses", lengths |-> body]
          [] block.id = 20 -> Coded(f, 0, 0, 0, 0, body)
          [] block.id = 21 -> [is |-> "Direct", each |-> f.each, last_bits |-> f.last_bits,
                               pause |-> TailFor(f.pause_ms) + PauseFor(f.pause_ms), samples |-> body]
          [] block.id = 32 -> IF f.ms = 0 THEN [is |-> "Stop"]
                              ELSE Data(0, 0, 0, 0, 0, 0, 8, TailFor(f.ms), PauseFor(f.ms), <<>>)
          [] block.id = 35 -> [is |-> "Jump", to |-> index + f.offset]
          [] block.id = 36 -> [is |-> "Loop", count |-> f.count]
          [] block.id = 37 -> [is |-> "LoopEnd"]
          [] block.id = 42 -> [is |-> "Stop"]
          [] block.id = 43 -> [is |-> "Level", level |-> f.level # 0]
          [] OTHER -> [is |-> "Nothing"]

TzxPlans(found) == [i \in DOMAIN found |-> PlanOf(found[i], i - 1)]
=============================================================================
