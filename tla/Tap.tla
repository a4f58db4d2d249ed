-------------------------------- MODULE Tap --------------------------------
(***************************************************************************)
(* The TAP file: blocks framed by a two-byte length, each a flag, its data *)
(* and the checksum, played at the ROM's timings.  A file is a sequence of *)
(* bytes; reading one gives the block bodies or the refusal.               *)
(***************************************************************************)
EXTENDS Pulse, SequencesExt, Bitwise

HeaderFlag == 0
DataFlag == 255
HeaderLen == 19

Checksum(payload) == FoldLeft(LAMBDA sum, octet : sum ^^ octet, 0, payload)

Word(payload, at) == payload[at + 1] + 256 * payload[at + 2]
LeWord(n) == <<n % 256, (n \div 256) % 256>>

\* The blocks from offset "at" on, or what is wrong with them.
Truncated(at, want, have) == [ok |-> FALSE, at |-> at, want |-> want, have |-> have]
EmptyBlock(at) == [ok |-> FALSE, at |-> at, want |-> 0, have |-> 0]

RECURSIVE TapFrom(_, _, _)
TapFrom(file, at, found) ==
    LET left == Len(file) - at
        len == Word(file, at)
    IN  IF left <= 0 THEN [ok |-> TRUE, blocks |-> found]
        ELSE IF left < 2 THEN Truncated(at, 2, left)
        ELSE IF len = 0 THEN EmptyBlock(at)
        ELSE IF left - 2 < len THEN Truncated(at, len, left - 2)
        ELSE TapFrom(file, at + 2 + len, Append(found, SubSeq(file, at + 3, at + 2 + len)))

TapParse(file) == TapFrom(file, 0, <<>>)

\* Building: a body verbatim, a flag and a checksum around data, the pair SAVE CODE writes.
TapBody(body) == LeWord(Len(body)) \o body
Checked(flag, data) == <<flag>> \o data \o <<Checksum(<<flag>> \o data)>>
TapBlock(flag, data) == TapBody(Checked(flag, data))
CodeHeader(name, address, data) ==
    <<3>> \o name \o LeWord(Len(data)) \o LeWord(address) \o LeWord(32768)
TapCode(name, address, data) ==
    TapBlock(HeaderFlag, CodeHeader(name, address, data)) \o TapBlock(DataFlag, data)

\* Reading a block.
IsHeader(body) == body[1] < 128
BlockData(body) == IF Len(body) < 2 THEN <<>> ELSE SubSeq(body, 2, Len(body) - 1)
ChecksumOk(body) == Len(body) >= 2 /\ Checksum(body) = 0
Header(body) ==
    LET data == BlockData(body)
    IN  IF ~IsHeader(body) \/ Len(body) # HeaderLen THEN [ok |-> FALSE]
        ELSE [ok |-> TRUE, kind |-> data[1], name |-> SubSeq(data, 2, 11), length |-> Word(data, 11),
              param1 |-> Word(data, 13), param2 |-> Word(data, 15)]

TapPlan(body) == Standard(IsHeader(body), Timing.tail, Timing.pause, body)
TapPlans(found) == [i \in DOMAIN found |-> TapPlan(found[i])]
=============================================================================
