------------------------------- MODULE MCTape -------------------------------
(***************************************************************************)
(* The shelf of tapes TLC plays.  Every file is given twice: what the      *)
(* builder writes of a block, and what the block is to play.  The pulse    *)
(* lengths are the ROM's; the pilots are shortened and the recorder's      *)
(* demand with them (as its own with_min_pilot does), so the data has no   *)
(* run of ones long enough to pass for a pilot.                            *)
(***************************************************************************)
EXTENDS Cassette

MCTiming ==
    [pilot |-> 2168, header_pilot_pulses |-> 8, data_pilot_pulses |-> 7,
     sync_first |-> 667, sync_second |-> 735, zero |-> 855, one |-> 1710,
     tail |-> 945, pause |-> 9000, ms |-> 3500]

MCLengths == [pilot |-> 2168, sync_first |-> 667, sync_second |-> 735, zero |-> 855, one |-> 1710]

MCFaulty == {100, 1150, 9000}
MCPulses == {}

Rom(flag, tail, pause, bytestream) ==
    [is |-> "Data", pilot |-> 2168, pilot_pulses |-> IF flag < 128 THEN 8 ELSE 7,
     sync_first |-> 667, sync_second |-> 735, zero |-> 855, one |-> 1710, last_bits |-> 8,
     tail |-> tail, pause |-> pause, bytes |-> bytestream]

Part(bytestream, plan) == [bytes |-> bytestream, plan |-> plan]
Mute(bytestream) == Part(bytestream, [is |-> "Nothing"])
Body(bytestream) == Part(TapBody(bytestream), Rom(bytestream[1], 945, 9000, bytestream))
Std(pause_ms, tail, pause, bytestream) ==
    Part(TzxStandard(pause_ms, bytestream), Rom(bytestream[1], tail, pause, bytestream))

Plain ==    \* two blocks of nothing but a flag and its checksum, and a corrupt one
    [kind |-> "tap", steady |-> TRUE,
     parts |-> <<Part(TapBlock(20, <<>>), Rom(20, 945, 9000, <<20, 20>>)),
                 Part(TapBlock(165, <<>>), Rom(165, 945, 9000, <<165, 165>>)),
                 Body(<<164, 18>>)>>]

Code ==     \* what SAVE "abc" CODE writes of two bytes at 32768
    LET name == <<97, 98, 99, 32, 32, 32, 32, 32, 32, 32>>
        header == <<0, 3>> \o name \o <<2, 0, 0, 128, 0, 128>> \o <<65>>
    IN  [kind |-> "tap", steady |-> FALSE,
         parts |-> <<[bytes |-> SubSeq(TapCode(name, 32768, <<7, 8>>), 1, 21),
                      plan |-> Rom(0, 945, 9000, header)],
                     [bytes |-> SubSeq(TapCode(name, 32768, <<7, 8>>), 22, 27),
                      plan |-> Rom(255, 945, 9000, <<255, 7, 8, 240>>)]>>]

Standards ==    \* every way of ending a block in silence
    [kind |-> "tzx", steady |-> TRUE,
     parts |-> <<Mute(TzxGroupStart(<<65>>)),
                 Part(TzxBlock(20, <<129>>, 1), Rom(20, 3500, 0, <<20, 129, 149>>)),
                 Mute(TzxText(<<66, 67>>)),
                 Std(4, 3500, 10500, <<165, 165>>),
                 Mute(TzxGroupEnd),
                 Std(0, 0, 0, <<164, 18>>),
                 Part(TzxPause(3), [is |-> "Data", pilot |-> 0, pilot_pulses |-> 0, sync_first |-> 0,
                                    sync_second |-> 0, zero |-> 0, one |-> 0, last_bits |-> 8,
                                    tail |-> 3500, pause |-> 7000, bytes |-> <<>>])>>]

Loader ==   \* a loader's own waveforms, put together with control blocks
    LET turbo == [pilot |-> 1000, pilot_pulses |-> 3, sync_first |-> 300, sync_second |-> 0,
                  zero |-> 400, one |-> 800, last_bits |-> 3, pause_ms |-> 0]
    IN  [kind |-> "tzx", steady |-> FALSE,
         parts |-> <<Part(TzxLoopStart(3), [is |-> "Loop", count |-> 3]),
                     Part(TzxTone(500, 2), [is |-> "Tone", length |-> 500, pulses |-> 2]),
                     Part(TzxPulses(<<70, 0, 600>>), [is |-> "Pulses", lengths |-> <<70, 0, 0, 0, 88, 2>>]),
                     Part(TzxLoopEnd, [is |-> "LoopEnd"]),
                     Part(TzxJump(2), [is |-> "Jump", to |-> 6]),
                     Part(TzxStopIf48k, [is |-> "Stop"]),
                     Part(TzxTurbo(turbo, <<200, 160>>),
                          [is |-> "Data", pilot |-> 1000, pilot_pulses |-> 3, sync_first |-> 300,
                           sync_second |-> 0, zero |-> 400, one |-> 800, last_bits |-> 3, tail |-> 0,
                           pause |-> 0, bytes |-> <<200, 160>>]),
                     Part(TzxLevel(TRUE), [is |-> "Level", level |-> TRUE]),
                     Part(TzxPureData(300, 600, 9, 1, <<65>>),
                          [is |-> "Data", pilot |-> 0, pilot_pulses |-> 0, sync_first |-> 0,
                           sync_second |-> 0, zero |-> 300, one |-> 600, last_bits |-> 8,
                           tail |-> 3500, pause |-> 0, bytes |-> <<65>>]),
                     Part(TzxPause(0), [is |-> "Stop"]),
                     Part(TzxDirect(79, 2, 5, <<199, 24>>),
                          [is |-> "Direct", each |-> 79, last_bits |-> 5, pause |-> 7000,
                           samples |-> <<199, 24>>]),
                     Mute(TzxUnknown(25, <<1, 2, 3>>)),
                     Part(TzxLoopEnd, [is |-> "LoopEnd"]),
                     Part(TzxJump(-20), [is |-> "Jump", to |-> -7])>>]

Silent ==   \* a tape that jumps to itself, in silence
    [kind |-> "tzx", steady |-> FALSE,
     parts |-> <<Part(TzxTone(500, 3), [is |-> "Tone", length |-> 500, pulses |-> 3]),
                 Part(TzxJump(0), [is |-> "Jump", to |-> 1]),
                 Part(TzxTone(700, 1), [is |-> "Tone", length |-> 700, pulses |-> 1])>>]

Endless ==  \* and one that repeats itself for ever
    [kind |-> "tzx", steady |-> FALSE,
     parts |-> <<Part(TzxTone(500, 30), [is |-> "Tone", length |-> 500, pulses |-> 30]),
                 Part(TzxTone(0, 3), [is |-> "Tone", length |-> 0, pulses |-> 3]),
                 Part(TzxLoopStart(0), [is |-> "Loop", count |-> 0]),
                 Part(TzxJump(-3), [is |-> "Jump", to |-> 0])>>]

MCShelf == <<Plain, Code, Standards, Loader, Silent, Endless>>
=============================================================================
