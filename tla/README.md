# spectrum-workbench in TLA+

A formal model of the Spectrum workbench in this repository: TLA+ modules for its
parts, TLC configurations that check them on small instances, and TLAPS proofs of
the properties that matter most for every size. Paths below are from the
repository's root; `crates/` stands for `src/crates/`.

Run a model with `tlc -config X.cfg MCX`, or `X` where there is no `MCX` (and
`TapeFull.cfg` with `MCTape`), a proof with `tlapm XProofs.tla`. `PROJECT.json` lists every component, run, property, hazard, theorem and, for each
definition, the source lines it is translated from.

## 1. The system

The workbench is a ZX Spectrum 48K emulator with a debugger, an assembler and a
desktop window. One **emulation thread** owns the machine. Everything else talks
to it over lock-free channels: a **command ring** in, an **event ring** and a
**stop channel** out, a **swap chain** of pictures out to the window's thread and a
**sample ring** out to the audio device's thread. Around the Z80 the machine is a
stack of wrappers, `Presenting(Saving(AudioMachine(Spectrum)))`, each of which adds
what it does when a frame ends.

```
 shell / window ── try_push ─► command ring ─► emulation thread ── push ─► event ring ─► shell
        ▲  ▲                    + unpark          │  drain, slice, pace, park
        │  └── state, reason words, stop count ◄──┤
        │                                         ├─ Debugger: breakpoints, steps, bus watches
        └───────── swap chain ◄── end of frame ◄──┤  └ Presenting ▸ Saving ▸ AudioMachine ▸ Spectrum
   audio device ◄── sample ring ◄── resampler ◄───┘      (ULA, keyboard, tape, Z80, memory)
```

### Inventory

| Component | State | Operations | What is hard | What makes it correct |
|---|---|---|---|---|
| **Record ring** `rkw-debug/src/ring.rs` | slots of two words, head, tail, dropped | `push` (overwrites), `try_push` (refuses), `pop` | a reader lapped in the middle of its copy; stores seen out of order | whole records, in order, losses counted once |
| **Breakpoints** `breakpoints.rs`, `bitmap.rs` | maps of breakpoints, watches and ports, the debugger's temporaries; a bitmap and a flag that repeat them | add, enable, ignore, remove, clear, hit | the same fact kept three times over any sequence of edits | bitmap = map, flag = bitmap, ids unique |
| **Stepping** `rkw-debug/src/lib.rs` | run state, temporaries, SP guards, the stop reason | step, over, out, run-to, resume, run-until | recursion, a breakpoint inside the stepped-over call, stack wrap | a step ends in its own frame and leaves nothing armed |
| **Watched bus** `bus.rs` | what fired | reads, writes and ports that ask Breakpoints | — | the hit is the access that was made |
| **Emulation thread** `emu.rs`, `command.rs`, `event.rs` | command ring, run state, two reason words, stop count, park token; command log and its stamps | drain, apply, slice, pace, park; `send`, `wait_for_stop`, `stop_reason`, drop; `replay` | park against push and unpark; three words read without a lock; replay at other slice boundaries | no lost wakeup, each stop told once, whole, replay reaches the same machine |
| **Command language** `cmd/parse.rs`, `cmd/exec.rs`, `cmd/format.rs` | the shell's own breakpoint edits | parse, execute, print | arms past the command ring | a command means the same whichever way it is sent |
| **Frame presentation** `rkw-spectrum/src/present.rs` | slot, mutex, counters, tape light | `publish`, `take` | the count and the frame are read apart | each frame shown or counted |
| **Sample ring** `rkw-audio/src/ring.rs` | samples, head, tail, dropped, starved | `push`, `pop` of slices | cached ends, a slice that wraps or only partly fits | a bounded queue, losses counted |
| **Sound** `edges.rs`, `beeper.rs`, `filter.rs`, `resample.rs`, `output.rs` | edge list and level; band-limited windows; filter and resampler phase | record, roll, render, resample, fade | an instruction that overruns its frame; a full log | the sound is what the port did, T-state for T-state |
| **ULA and frame clock** `ula.rs`, `frame.rs`, `contention.rs`, `screen.rs` | frame start, border lines, keyboard latch, EAR line | port read and write, contention, end of frame, interrupt | late service, a subtraction that wraps, writes past the frame | timing depends on the clock alone |
| **Spectrum and wrappers** `spectrum.rs`, `audio.rs`, `save.rs`, `tape.rs`, `keyboard.rs`, `memory.rs` | nested machines, deck, recorder | `next_event`, `service_event`, deck buttons | order of the wrappers; several events due at once | each event serviced once, at its own time |
| **Tape formats** `rkw-tape/src/*` | block lists, pulse player (one loop, jumps, levels), save recorder | parse, build, next pulse, seek, record an edge | files cut short; a head put down anywhere; blocks told apart by pulse lengths alone, edges missed | what plays is what the blocks spell out; a broken file is refused; a copy holds nothing that was not on the tape |
| **Z80** `z80/src/*` | registers, IFF1/2, EI shadow, HALT, Q | step, interrupt, NMI, disassemble | EI shadow, block repeats against interrupts, half-carry and overflow, prefixes | flags = arithmetic; an interrupted program cannot tell; the disassembler knows where the flow goes |
| **Assembler** `rkw-asm/src/*`, **debug info** `rkw-dbginfo/src/*` | symbol table, passes, expansions; address and line tables | assemble, look up | when passes have converged; forward references; code placed over code | one pass more changes nothing; every statement reads back as written; each address tells its own statement |
| **Desktop window** `rkw-gui/src/*` | session, pacer, keys held, speaker | keys, pause, reset, tape, speed, mute; pace | commands refused by a full ring; pause against wake | the window and the thread agree in the end |
| **Tools** `rkw-cli`, `rkw-shot`, `alloc-check` | — | files and arguments | — | nothing a model would add to |

Who calls whom: the shell and the window own a `Handle` (Emu) and send commands,
which `Stepping` and `Breakpoints` carry out. A slice runs the debugger up to the
machine's `next_event`, then `service_event` (Frames) ends the frame, which draws
from the edge log, feeds the sample ring and publishes to the swap chain.

## 2. What is modelled

Each module is named for its part, and each action for the function it models, with
the names of the source kept. Where one atomic access can be interleaved with another
thread, it is an action of its own; where one thread owns the state, a whole handler
is one action. A comment in the module says what is left out of the data.

Some modules hold definitions named after what they get wrong
(`ClearTemporariesBlindly`, `EndFrameDrifting`, `TakeShort`, ...). No specification uses
them: they are plausible mistakes, one for each property, which `PROJECT.json` pairs with
the property that notices. Substituting one for the definition it varies must give a
counterexample, so no property holds whatever the code does.

**Channels and the debugger**

| Module | Code | How state and actions correspond |
|---|---|---|
| `RecordStream` | the promise of `ring.rs:1-40` | abstract: records written, delivered, skipped and counted |
| `Ring` | `rkw-debug/src/ring.rs` | one action per load or store. Stores wait in `pending` and become visible in an order Release/Relaxed permit (`order = "release"`) or x86's (`"total"`). `Push`, `TryPush` issue a slot's two words and the head; `LoadHead`, `CopyWord`, `Recheck`, `Take` are `pop` |
| `Wire` | `command.rs`, `event.rs`, `emu.rs` of rkw-debug | what a command, an event and a stop reason are as two words: a word is the set of its bits, so `\|` is union and a shift moves the set. Kind bytes, payloads, and what `decode` refuses |
| `Breakpoints` | `breakpoints.rs`, `bitmap.rs` | each table is a function, each bitmap the set of addresses whose bit is set; each method an action that ends with the same rearm the code makes |
| `Stepping` | `lib.rs` of rkw-debug | EXTENDS `Breakpoints`; adds a processor that calls, recurses, returns, repeats and halts, and the debugger's movements over it |
| `Emu` | `emu.rs` | the thread's loop (`Pop`, `ApplyOne`, the four stores of a stop, `Run`, `Pace`, `Park`) and a client's handle, one access per action |
| `Replay` | `emu.rs` slices, log and `replay`; `exec.rs` arming | the whole emulator is one record `emu`; slice, apply and replay are operators on it, so that a replay can be computed from the log in any state |

**Frames, sound, the window**

| Module | Code | How state and actions correspond |
|---|---|---|
| `FrameSwap` | `present.rs` | both threads, one shared access per action |
| `BoundedFifo` | the promise of `rkw-audio/src/ring.rs` | abstract: a queue that refuses rather than loses |
| `SampleRing` | `rkw-audio/src/ring.rs` | `push` and `pop` in their atomic steps. A relaxed or acquire load may answer with an earlier value; a slot read while the producer may be in it may answer with any sample that can be there |
| `EdgeLog` | `edges.rs` | pure operators `Record`, `Inside`, `Roll` on a log record |
| `Frames` | `ula.rs`, `frame.rs`, `spectrum.rs`, `tape.rs`, `audio.rs`, `save.rs`, `beeper.rs`, the slice loop | `CpuStep` is one instruction or an interrupt; `ServiceEvent` is the three wrappers' end of frame in the order they nest; `BeginSlice`, `RunInstruction`, `RunEnds` are the slice loop; `Step` is the debugger's step, which services nothing |
| `Keyboard` | `keyboard.rs`, `keymap.rs` of rkw-spectrum | the forty keys by position, half-rows as sets of columns, the matrix word as a set of bits, a read of the port, the host's key map |
| `Pacing` | `pacing.rs` of rkw-gui, `output.rs` | the pacer's three ways of waiting, its anchor, the sample ring's fill and the device's callbacks, in ticks |
| `Session` | `session.rs`, `app.rs`, `emu.rs` | the window's handlers, those that look and then send in two steps, and the emulation thread: `Apply` decodes a command, `Slice` runs and asks the pacer, `GoToSleep`, `Woken`, `TimeUp` |

**Tape**

| Module | Code | How state and actions correspond |
|---|---|---|
| `Pulse` | `rkw-tape/src/pulse.rs` | a player is a record of its phase; `NextPulse` is one call of `next_pulse`, with pilot, sync, bits, tail, pause, loops, jumps, levels and the limit on control blocks; recursion through control blocks as a function |
| `Tap` | `tap.rs` | bytes to block bodies or a refusal, and back; the checksum; how a block plays |
| `Tzx` | `tzx.rs` | the same for TZX: a table of the fields of every block kind, one `Take` that reads them, the body's length, and the plan each block makes |
| `Recorder` | `save.rs` of rkw-tape | an action per edge or idle end of frame; idle, pilot, sync and data, the buffer, the blocks and the counts of what was lost |
| `Cassette` | `tape.rs` of rkw-spectrum, `image.rs` | the deck: mount (whole or cut short), wind, seek, play; the line; a recorder that hears each change of level, as `save.rs`'s own tests have it, with one pulse damaged or missed |

**Processor and tools**

| Module | Code | How state and actions correspond |
|---|---|---|
| `Alu` | `z80/src/alu.rs` | each operation from a machine to a machine, F as a set of flags |
| `Cpu` | `cpu.rs`, `exec_cb.rs`, `exec_ed.rs`, `registers.rs` | `Step`: interrupts, prefixes and every opcode, as the decoder's x, y, z, p, q tables of the source |
| `Disasm` | `disasm.rs` | mnemonic, operands, length and flow of the bytes at an address |
| `Encode` | `encode.rs`, `operand.rs` of rkw-asm | the plan of an instruction by the shape of its operands, then its bytes |
| `Isa` | — | the processor with a twin that nothing interrupts, beside the disassembler and the encoder |
| `Symbols` | `symbols.rs`, `eval.rs` | the table with its modules, local and temporary scopes, its memory of the last pass; expressions over it |
| `Asm` | `assemble.rs` | one pass over the statements (a fold), with conditionals, macros, repetitions, includes; passes until the table stays put |
| `DebugInfo` | `info.rs`, `source.rs` of rkw-dbginfo, `debug.rs` of rkw-asm | the records, the expansions, and the lookups by address and by line |
| `Toolchain` | `load.rs` of rkw-cli | source to passes to image and debug information to a loaded machine that runs |

`MC*` modules give the constants that a configuration cannot write; the other models are
checked as they are.

### Compositions and refinements

- `Stepping` composes `Breakpoints` with a processor; `Frames` composes the edge log,
  ULA, deck, recorder, painter and slice loop.
- `Session` composes the keyboard, the command words, the pacer and the sample ring's
  fill with both threads. `Cassette` composes file, player, deck, line and recorder.
  `Toolchain` composes assembler, debug information, loader, processor and disassembler.
- `Ring` implements `RecordStream` (`ImplementsStream`), `SampleRing` implements
  `BoundedFifo` (`ImplementsFifo`), both also proved. `Emu` and `Session` use a plain queue for
  their command ring, which is what the refusing `Ring` implements; `Session` leaves the
  lost wake-up to `Emu`.
- Two programs are checked against each other three times: the encoder against the
  disassembler (`RoundTrip`), the disassembler against the processor (`FlowTrue`), the
  assembler against the disassembler over its finished symbols (`AssembledAsWritten`).

## 3. What the runs show

| Run | Properties | Instance, and why it is enough |
|---|---|---|
| `ring` | `ImplementsStream`: whole records in order, a skip only when lapped, each counted once; `ConsumerCatchesUp` | 4 slots, 7 pushes: the lossy reader is lapped in the middle of a copy and again on its retry; the refusing ring fills. Two pushes' stores can be in flight at once |
| `breakpoints` | `TiersAgree`: maps, flags and bitmaps of executions, watches and ports | two addresses and two ports with port sets that overlap, two ids: every operation meets one on the same and on another address, which is all rearming distinguishes (the proof has no bound) |
| `stepping` | `StepOverStaysInFrame`, `StepOutLeavesFrame`, `NoStaleLanding`, `BreakpointsStop` | a loop calling a routine that calls itself, with a repeat and a halt; a stack of four, so that SP wraps and recursion passes a landing site three deep |
| `emu` | `NoLostWakeup`, `ToldOfEachStop`, `EveryCommandApplied`, `DropEndsThread` | a queue of two and three commands: it fills, and a command arrives at each point of drain, pace and park; a fourth stop overtakes a reader of the first |
| `frame_swap` | `EveryFrameCounted`, `NewestUnlessOvertaken`, `ShowsLastFrame` | five frames: three buffers come round, a `take` is overtaken twice, and a frame that another was swapped over meanwhile is drawn by nobody and counted by nobody, which `EveryFrameCounted` says of `missed`: short by one for every `take` made while overtaken |
| `sample_ring` | `SlotsNotShared`, `EverySampleCounted`, `ImplementsFifo` | two slots and slices of 0, 1 and 3: each end is refused in part, and the ring goes round more than three times |
| `replay` | `ReplaysUnlessOverdue` | a program of five instructions, one a repeat, with uneven times; intervals 9 and 22 either side of the frame of 17, so that a slice ends before, on and after an event; four commands and a log of three, so that it overflows |
| `frames` | `SoundIsTrue`, `MicHeardOnce`, `BorderOnItsLine`, `RunsInterruptByTheClock` | two lines of three T-states, 13 T-states run: two whole frames; a write overruns the end of each, and two edges fill the log; a tape of two pulses, a stop and a third |
| `toolchain` | `Transparent`, `HandlersDoNotNest`: interrupts; `DecimalAdjusts`, `ArithmeticTrue`, `BlockMoves`: data; `FlowTrue`, `RoundTrip`: the disassembler and the encoder; `SettledIsFixpoint`, `AssembledAsWritten`: the passes; `SourceTold`, `BreakpointsLand`: the debug information | every opcode of each of ten prefix pages, with small and negative operand bytes, at 32768 and at the top of memory; sums at the ends of their ranges; 625 pairs of decimal numbers for each of four operations; LDIR and LDDR onto themselves and round the top of memory; eight programs with two interrupts and an NMI at any boundary, in two modes. Seven sources: forward references and temporary labels, macros and repetitions, modules, conditionals and includes, code patched over by ORG under names that are conditions elsewhere, one that never settles, one with every error. `PassLimit` 8, `MaxExpansionDepth` 3 and `MaxRepetitions` 65 are the source's limits made small; the last two are reached |
| `tape` | `PlaysAsWritten`, `ReadsBackOrRefuses`, `CopyIsHonest`, `BlocksTile` | six tapes between them with every block the player treats differently, each file also cut short after any byte, the head put down on any block; copied into room for six bytes and two blocks, so that both run out, with one pulse (`MaxFaults`) damaged or missed. Pilots are shortened and the recorder's `MinPilot` with them (6), as `with_min_pilot` is there for. `MaxPlayed` pulses cover each tape; `MaxWound` bounds the winding, `MaxVisits` the reference's own walk; `ControlLimit` 14 is reached by a tape that loops on nothing |
| `session` | `KeysArrive`, `PromisesKept`, `PacedAsAsked` | three host keys that share CAPS SHIFT, two held at once so that the oldest is forgotten, a command ring of two so that each kind of command is refused; three function keys in any order (`MaxPress`), their reads any time before their sends. The user does one thing at a time (`Hands`): types, works the function keys, or changes speeds while time passes. Two ticks a slice and two slices a frame, a callback of three ticks; a ring of 17 with the high water at 12 is the smallest with room for a frame (`RoomForAFrame`), and a ring of 16 loses sound; `MaxBehind` 2 caps how late is told apart; `Free` has a handler return before time goes on |

Type invariants are stated in each module (`TypeOK`, `TypeOK2`, `PacingTypeOK`) and are
proved for `Breakpoints`, `Stepping`, `Ring`, `SampleRing`, `Emu`, `FrameSwap`, `Replay`, `Frames`
and, within the proofs of other things, `Recorder` and `Pacing`. The runs spend their time
on the rest.

One run ends in a counterexample:

| Run | Says | Does |
|---|---|---|
| `tape_full` | a byte that found no room means a block counted lost (`save.rs:190-192`) | `abandon` gives up a block of which everything was spilled without counting it: `dropped` is not zero and `lost_blocks` is |

### Stated but not in a run

Put the name in the configuration instead of what is there. These are **violated**, each
by something the repository says of itself:

| Property | With | Says | Does |
|---|---|---|---|
| `RecordsWhole` (`Ring`) | `Uses <- MCUsesWeak` | a record `pop` returns is whole (`ring.rs`'s two-threaded test) | on a memory only as strong as the orderings written, the slot's relaxed stores may be seen before the head store that preceded them in the program, so a lapped reader's recheck passes. x86 does not reorder so, and there the property is proved (`WholeRecords`) |
| `ReplaysExactly` (`Replay`) | — | a breakpoint armed by the shell loses nothing from the log (`exec.rs`) | one that stops the machine as a frame falls due leaves the event unserviced; the replay, which lacks the breakpoint, services it before the next command |
| `MissedNeverDrawn` (`FrameSwap`) | — | `missed` counts "Frames the machine painted that will never be drawn: published while an unread one was waiting, or published while the consumer was swapping", and "A frontend that is keeping up reports zero" (`present.rs:175-177`) | `take` loads a count of 1, the sink swaps frame 2 over frame 1, and `take` swaps frame 2 out; frame 2 is counted and the next `take` swaps back an old buffer. Frame 1 is never drawn, `missed` is 0 and `taken` 2 (`present.rs:152-165`). `EveryFrameCounted` says by how much `missed` falls short |
| `PlayRestartsNothing` (`Frames`) | — | play on a running tape is harmless: the next pulse stays due when it was (`spectrum.rs`) | the next edge becomes due at once, cutting the pulse short |
| `StepsInterruptByTheClock` (`Frames`) | — | a machine stepped through a frame boundary sees the same interrupt (`ula.rs`) | stepping services nothing, so the interrupt is measured from the old frame's start and is missed |
| `LevelSurvives` (`Frames`) | `MaxWrites = 4` | a log that is full does not lose the level, and a truncated frame still hands the next one the right one (`edges.rs:34-37`) | a frame stepped past its end with a full log drops an edge that overran; `roll` (`edges.rs:238-244`) has then no record of the level it left, and if the next edge overruns too, the frame after, which lost nothing, opens at the level before both. What the log goes on from is always right (`LevelFollowed`, proved) |
| `StepOverStaysInFrame` (`Stepping`) | `Prog <- MCCallsOn` | a step over a call runs until it returns (`lib.rs:142-155`) | a call to the very next instruction is taken for one that was not taken (`lib.rs:197-201`), and the step ends inside the routine. `CallsLeadAway` is the hypothesis that leaves such programs out |
| `TwiceAsFast` (`Session`) | — | twice the clock's pace (`pacing.rs:29`) | the anchor survives a pause, so that the machine then runs flat out until it has made up the time it stood still |

These hold and are in no run: `IdsUnique`, `LevelFollowed`, `KeysSteady`, `PacedByTheClock`,
`EdgesOnSchedule` (proved), `LightFollowsDeck`. In `MCToolchain`, `LaggingSource` and
`HereaboutsSource` are two more programs, for the observations on `EQU` and `$` below:
with `Scenarios <- Unscheduled` and `Sources <- LaggingSource` the run violates
`SettledIsFixpoint`, with `Sources <- HereaboutsSource` `AssembledAsWritten`. Both properties
are therefore claims about the sources of the run, none of which is of either kind, and
their comments say so.

### Fairness

Only what the code guarantees. `Ring`: issued stores become visible, and the
consumer polls, as the window does each frame and the thread each slice.
`Emu`: the emulation thread runs (its loop waits only in `park`), and a client
that has pushed goes on to unpark; a park may also wake for no reason, without
fairness. `FrameSwap`: the machine runs and the window redraws. Nothing is assumed of
the shell, of a breakpoint being reached, or of the user. The other models are checked
for safety only. In `Session` that includes the promise to the user: it says what is so
whenever the ring is empty and no handler is under way, and `Emu` shows that the ring is
emptied. In `Cassette`, that a tape ends is part of `PlaysAsWritten`: the player is over
exactly when the reference is.

Deadlock is an error in `breakpoints` and `stepping`, which can always go on. The other
configurations stop at their bounds, at the end of a tape or a program or, in `emu`, when
the thread has exited, and say `CHECK_DEADLOCK FALSE`.

## 4. What is proved

`SteppingProofs`, of `Breakpoints`, for every set of addresses, ports, stack pointers and ids:

- **TiersAlwaysAgree** (`TiersAgree`). Inductive with no help from types: `RearmExec` and
  `RearmWatch` recompute the bit of the address just edited and leave the others, whose
  table entries did not change (`RearmExecAgrees`, `WithElsewhere`); `RearmPorts` rebuilds
  the whole bitmap. Temporaries need an argument of their own, as clearing them must
  leave the bits that a user's breakpoint still wants (`TemporaryTiers`).
- **TypeCorrect**: the tables keep their types, ignore counts never below zero included.
- **IdsAlwaysUnique**: no id names two things. It rests on the type invariant, and on every
  id in use being below `next_id`, which is part of `IdsUnique`.

`SteppingProofs`, of `Stepping`, for every program, machine size and set of breakpoints:

- **TiersAgreeWhileMoving** (`TiersAgree`): every movement edits the tables only through
  operations that have a lemma by now, so each has one step here.
- **RunsStopAtBreakpoints** (`BreakpointsStop`). An instruction at which the run goes on
  asked the cheap tiers; since they agree with the maps, where they found nothing there
  was nothing (`NothingMissed`).
- **NoLandingOutlives** (`NoStaleLanding`). Not inductive: it speaks of where a movement
  ended. `Landings` adds which landing sites each movement can have armed (`Sites`), that
  a machine at rest has none unless it was paused, and that only the movement that armed
  one may end at it.
- **StepOverKeepsFrame** (`StepOverStaysInFrame`) and **StepOutKeepsFrame**
  (`StepOutLeavesFrame`). Both say where a movement ended, so the invariant `Frames` ties
  SP to the depth of calls (`Depths`) and each landing site's guard to the depth the
  movement began at (`FloorOver`, `FloorOut`): whoever passes the guard is no deeper. Two
  hypotheses. `Unwrapped`, that SP has not come round since the program began: the guard
  is a comparison of two 16-bit numbers, which says nothing of depth once it has. The
  theorem asks it of the whole behaviour, and the run, whose stack does wrap, shows the
  properties hold there for its own program. And, for step over, `CallsLeadAway`: without
  it the property is false (see the table in section 3).
- **MovesTypeCorrect**: the types of the processor, its stack and the movement.

`SessionProofs`, of `Wire`, for every address, byte, matrix, T-state and id:

- **CommandsRoundTrip**, **EventsRoundTrip**, **ReasonsRoundTrip**: decoding what was
  encoded gives it back. The fields of a word do not overlap (`OneField`, `AddressField`,
  `ByteField`, `AccessFields`), so each is read back as it was put in (`FieldIs`), and
  no two kinds share a kind byte (`KindsDiffer`). The source's own tests try one of each.

`RingProofs`, for every number of slots, of records and of stores on their way:

- **Refines** (`ImplementsStream`), **WholeRecords** (`RecordsWhole`), **TypeCorrect**, all from one
  inductive invariant `IInv`. `Waiting` is what the stores nobody sees yet can be: those of
  the records past the head, no head among them missing. `Halves` is what the words seen
  so far can be: of some record of their slot, older than any on its way there. `Room`
  bounds the refusing ring by the tail its producer reads. `Reading` is the consumer in the middle of a
  pop: each word it has copied is its record's, or it has been overtaken, in which case the
  recheck finds that (`CopiedRight`: another record in the slot is a lap away,
  `LapsApart`, and no word seen is more than one record past the head seen). A store
  seen removes one from anywhere in the queue, so `RemovesOne` and `Was` say where the
  others were. One hypothesis, `OrderEnough`: an overwriting ring's stores are seen in the
  order they were issued. Without it the theorem is false (`RecordsWhole` in section 3); a
  refusing ring does not need it, since its producer never enters a slot not given back.

`HandoffProofs`, of `SampleRing`, for every capacity and slice length:

- **TypeCorrect**, **NoSlotShared**, **SamplesCounted**, **Refines** (the ring implements
  `BoundedFifo`, every step a step of it or a stutter), all from one inductive invariant
  `IInv`. `SlotsNotShared` is not inductive: what keeps the producer out of a slot is
  what it believed of the tail when it began. `Within` adds that: each end's view of the
  other is behind the truth, and each acts inside its own view. `InOrder` adds that what
  has been read so far is the stream itself without a gap, which holds only because each
  slot answers with its own sample (`OwnSample`, from two positions in a slot being a
  lap apart).

`EmuProofs`, for every ring size and number of commands:

- **NeverParkedOnACommand** (`NoLostWakeup`). Not inductive: the thread last looked at
  the ring several steps before it parks. `Woken` extends the claim back over them, to
  `PastDrain`: the slice, its pace, and the publishing of a stop that ended it. `OwnStop`
  tells that stop from one a command asked for, after which the ring is looked at again.
- **EachStopTold** (`ToldOfEachStop`). `Phase` is the life of a movement of a client that
  waits to be told: asked, taken from the ring, running, its words being written, over.
  While the client reads, the machine is `Settled` and the words are those of the stop it
  was told of; `Reads` counts the stops it has been told against the answers it has had.
- **TypeCorrect**.

`HandoffProofs`, of `FrameSwap`, for any number of frames:

- **FramesCounted** (`EveryFrameCounted`): of the frames never handed out, `missed` has all but
  those not yet looked at and one for each take made while overtaken; and what is still to
  be drawn is in the slot. Two sums meet in it. `Counted` balances the counters over every
  step: `Underway` on the machine's side, and `Ahead` on the window's, where frames are
  counted as missed one step before they are counted as seen. `Handed` balances the takes
  against the pictures (`drawn`) they got. The second holds because of `Fresh`, below: a take
  gets a picture nobody had seen exactly when it is not overtaken, so that the two kinds of
  take, and nothing else, make up `taken`.
- **NewestTaken** (`NewestUnlessOvertaken`): `Fresh`, that the slot holds the last frame
  put there, which nobody has seen, while more have been put there than the source has swapped
  out for, and one already handed out otherwise. With `Ordered` (a frame is put there before
  it is counted) a take that is not overtaken always finds the first; `InPen` keeps the frame
  being painted new until it is put there.
- **SwapTypeCorrect**: that no count passes the number of frames follows from `Counted`.

`SessionProofs`, of `Session`, for every ring, number of host keys and presses, frame, slice and device:

- **HeldKeysArrive** (`KeysArrive`). `Told`: the matrix the session thinks it sent is the
  last one in the ring or, with none there, the one the machine has; `Fingers`: only keys
  under a finger are held, none twice. That a scan then finds their columns is arithmetic
  of the forty keys' places in the word (`MatrixThere`, `MatrixBack`, `ReadsHeld`), and that
  the matrix survives the ring is `CommandsRoundTrip`.
- **ButtonsKeepPromises** (`PromisesKept`). Stated of an empty ring, so `Promised` says the
  same of any: `Heading` is the state that the commands still in the ring lead to. Each
  handler's send makes it the one just promised, and applying the oldest command leaves
  it (`HeadingReached`).
- **ClockKept** (`PacedByTheClock`): `ClockTold` relates the anchor to the time truly gained,
  through changes of speed, pauses and waits cut short.
- **PaceKept** (`PacedAsAsked`): `Sound` adds how full the sample ring can be at each slice of a
  frame. It assumes `RoomForAFrame`: above the high water there is room for a frame and
  for what the device still owes a machine that waited at every slice. The code has it:
  its ring is four frames' samples rounded up to a power of two, the high water three
  quarters, and a slice one line of 312. At 48 kHz that is 3072 + 960 + (c - 1) / 312 of 4096,
  so any callback c up to 20000 samples has room. At a rate where four frames are a
  power of two already (51.2 kHz) a callback may be 312 samples at most.

`FramesProofs`, of `Frames`, for every timing, set of instructions, tape and size of log. `Kinds` sorts the steps by
what they do to the picture and the sound: nothing, one write, or the end of a frame.

- **InterruptKeepsTime** (`RunsInterruptByTheClock`). `Clock`: a frame starts a whole number of
  frames after the machine did. So the line derived from the start of the frame is that
  of the clock, whether or not the end of the frame before has been serviced.
- **BorderAlwaysOnItsLine** (`BorderOnItsLine`). `Stripes` is the frame half drawn: lines behind the
  beam have the colour in force when it left them, those ahead will have the one in force
  now. It needs that no write comes after the first line of the next frame, that is, an
  instruction is shorter than a line (`FramesAssumption`; 23 T-states against 224).
- **SoundAlwaysTrue** (`SoundIsTrue`). `Sounds` is the log half written: what it says of each
  T-state of the frame is what was written. `RecordedLevels` and `RolledLevels` are what an edge
  and the end of a frame do to it, an edge that overran the frame included.
- **LevelAlwaysFollowed** (`LevelFollowed`), **KeysLatched** (`KeysSteady`): that a full log keeps the
  level of now, and that the matrix changes only as a frame begins. What the attempt to
  prove more of the level showed is `LevelSurvives`, in section 3.

- **MicAlwaysHeardOnce** (`MicHeardOnce`). The moves of MIC in a sequence of levels are a fold that
  remembers the level it left off at (`Listen`), so the moves of two sequences one after
  the other are those of the first, then those of the second from there (`ListenBoth`). The
  end of a frame hands the recorder the edges inside it and keeps the rest, counted from
  the next frame: the same moments and, since the rest starts from the level the first
  part ended at, the same moves (`HearsEnded`). A write appends one level to the history
  and at most one to the log (`HearsWritten`).
- **TapeKeepsTime** (`EdgesOnSchedule`). However many pulses a late service finds due, `AdvanceTo`
  is that many single ones, so what each keeps is kept (`Advances`); each adds its length
  to the edge that was due and not to the clock (`PulseKeepsTime`), and the lengths add up
  (`TotalOn`). `Timed` is what a deck is that was started at this moment from this pulse.
- **FramesTypeCorrect** (`TypeOK`). That an edge left over by the end of a frame is in the next
  one, and not before it, rests on the log being in order (`InOrder`): the first edge past
  the frame is then before all that are left.

`FramesProofs`, of `Recorder`, for pulses of any length, any pulse lengths and tolerance,
buffers of any size:

- **RecorderTiles** (`BlocksTile`): the blocks kept lie end to end and what follows is the
  block in progress. With `RecorderTypeOK` it is inductive; each way out of a block either
  publishes it (`FinishKeeps`) or cuts the buffer back to where the block began
  (`AbandonKeeps`), and each way on within it only appends (`Reading`).

`ReplayProofs`, for every program, control interval, size of log and sequence of commands:

- **Replays** (`ReplaysUnlessOverdue`): a log of which nothing was left out replays to the machine
  it was recorded from, unless a shell's breakpoint stopped it with an event due. Running
  to a moment is single steps, each an instruction or an event's service (`Go`), so it can
  be cut anywhere: running on from where an earlier target ended is running to the later
  one (`Split`), though every slice has a deadline of its own, which is why the replay,
  with the whole run for its slice, ends where the thread with its many did (`Reach`). A
  breakpoint that only the shell knows of changes no step but where the run stops
  (`Alike`, `Lockstep`). The invariant says that the log's stamps are where its commands
  were applied (`LogIs`) and that the replay of it, run on to now, is the machine as it is
  but for those breakpoints (`Keeps`). It assumes that every instruction takes time and
  none leads out of the program (`ProgAssumption`).
- **TypeCorrect**: the machine, its run state and the log keep their types.

`Induction` is what `ReplayProofs` and `FramesProofs` need of recursion. The provers cannot instantiate an induction theorem
whose parameter is an operator, so its lemmas speak of sets instead: a set of naturals that
has 0 and every successor is all of them (`Induct`, by the least number missing). From it
come a recursion that gets smaller having one solution (`Recursion`) and, for the library's
`FoldLeft`, which is a recursion over subsets of the domain, that it is the left fold it
says (`FoldSettles`), one step at a time (`FoldedEmpty`, `FoldedAppend`).

The assumptions are the `ASSUME`s of the modules, and the hypotheses named above: capacities
and bounds are naturals, a capacity at least two (the proof needs no power of two), a
command ring at least one.

Only model-checked:

- liveness (`ConsumerCatchesUp`, `EveryCommandApplied`, `DropEndsThread`, `ShowsLastFrame`), which is
  beyond the prover;
- `Pulse`, `Tzx`, `Asm`, `Symbols`, the processor and so `Isa`, `Toolchain` and `Cassette`: they are
  recursive or use `Bitwise`, which the prover has no backend for, and what they are checked
  on is a list of programs, sources and tapes;
- what is violated (section 3) has no theorem; where a weaker statement does, its
  hypothesis (`OrderEnough`, `CallsLeadAway`) or its exception (`UnlessOverdue`) says which
  behaviours are left out.

## 5. What is not modelled, and how far the models go

- **Text.** The lexers and parsers of the assembler and of the debugger's commands, and
  everything that formats: listings, hex and other output formats, diagnostics, a
  block's description. Their hazards are of spelling, not of state; models start from the
  statement or command that was parsed. Of the command language only what it does past the
  ring is modelled (`Replay!ArmDirectly`).
- **Time inside an instruction.** T-states, contention and the floating bus. `Frames` and
  `Replay` give instructions times of their own; `Cpu` gives none. The `ld_bytes` trap,
  which copies a block instead of playing it, and memory with its ROM are left out.
- **Floating point.** The beeper is one level a T-state; its band-limited windows, the
  decimator, the filters and the fade of an underrun stay out. So does `duration`.
- **Memory model.** `Ring` and `SampleRing` model what the orderings allow. `Emu`,
  `Session` and `FrameSwap` interleave sequentially consistent accesses: their shared
  words are Release/Acquire pairs or a mutex, but a proof that nothing weaker is seen is
  not made.
- **Counters** (`u64` positions, T-states, stops) are naturals: none wraps in the life
  of a machine. `EdgeLog` leaves out the saturation of ticks at five minutes, and `Tzx`
  the overflow checks of the lengths of samples.
- **The processor** of `Stepping`, `Frames` and `Replay` is the part each needs (calls and
  the stack, interrupt acceptance, a program with a timer); the whole of it is `Cpu`.
- `Recorder!Clear` (the shell taking what was saved) is an action of the recorder's own
  specification and proof; `Cassette` does not take blocks out.
- Devices and tools: windows, files, the audio device beyond its callbacks, argument
  parsing, pictures, the counting allocator. `edit_exec_all`, `on_change_only` (nothing
  sets it), the assembler's INCBIN, the sidecar file and its staleness.

### Observations without a run

Met while modelling; each is a place to look, and none is shown by a run of its own.

*Debugger and threads*

- `stop_reason` (`emu.rs:131`) can read the parts of two stops if the machine is moved
  on meanwhile, and `wait_for_stop` (`emu.rs:558`) returns `None` for a stop already left
  behind; the docs at `emu.rs:80-82` and `:539` promise otherwise. `ToldOfEachStop` states
  the client for which both promises hold: one that moves the machine only when told.
- `take` (`present.rs:145-152`) may swap out a frame not yet in the count it read, and
  then hand back an old one, and the frame it swapped over is missing from `missed`
  (`MissedNeverDrawn`, section 3). `NewestUnlessOvertaken` states the exception.
- `add_exec` on a disabled breakpoint gives its id and does not arm it
  (`breakpoints.rs:208-209`), and the shell reports it set.
- The step-over guard is SP at the call; at SP = 0 it is no guard (`lib.rs:152-155`).
  `Unwrapped` is where the guard means what it is meant to.
- Dropping a handle when the ring is full sends no `Quit` (`emu.rs:568-578`), and the
  thread may stay parked; `DropEndsThread` is stated for a drop that had room.

*Window*

- `wake` after a queued `Pause` sends a `Resume` that undoes it (`session.rs:325-331`);
  `PromisesKept` makes the exception. `toggle_pause` ignores a refused send, and so
  does `reset`, whose `Reset` may fit and its `Resume` not.
- A machine turned back to normal speed at the last slice of a frame, with the sample ring
  over its high water, can lose up to a callback of that frame's sound: it has had no
  slice yet at which to wait. `PacedAsAsked` counts it as a wait cut short.
- `quit` with a full ring joins a thread nobody has told to end (`session.rs:334-337`).

*Frames*

- `ula.rs:363-365` says an overrunning write lands on the last line of its frame;
  `line_of` puts it past the last line, on none.
- After a stop, play carries on with the next pulse, not the one cut short
  (`tape.rs:134-143`); the line stays as it was until then.

*Tape*

- A pulse damaged or an edge missed exactly where a byte begins is taken for the tail of
  the block, and a block cut short is kept with nothing counted lost, against
  `save.rs:34-36` and `:195-198`. One spoilt in its first byte, or before its data, is
  not counted lost either. A run of ones in what follows an abandoned block can pass
  for a pilot, and a block with no pause behind it runs into the next pilot.
- A turbo or pure-data block of TZX with a bit of length 0 makes pulses of length 0,
  which `Tape::advance_to` debug-asserts there are none of.
- `ld_bytes` indexes the first byte of a body that TZX allows to be empty; the TAP
  builder writes an empty body that `parse` refuses.

*Processor and assembler*

- `EI` after `EI`: the second's shadow is cleared with the first's (`cpu.rs`'s `step`, against
  the doc at `cpu.rs:52-55` and `tests/interrupts.rs:154-156`).
- A run of prefixes is a recursion as deep as it is long (`cpu.rs:654`), and the
  disassembler's length of one wraps at 256.
- `LD H,IXL` and `LD IXH,L` are assembled as `LD IXH,IXL` (`operand.rs:52-59`), and
  `RLC IXH` or `BIT n,IXL` as three bytes the processor reads with a displacement.
- A relative jump across the top of memory disassembles to a target the assembler says
  is out of reach; `RoundTrip` leaves it out.
- In the later arguments of DB and DW, `$` is not the address of the statement, as
  elsewhere (`eval.rs:24`), but of the place reached. `AssembledAsWritten` does not cover them.
- An `EQU` of `$` read before it is defined may lag a pass behind when the table has
  settled, against `converged`'s doc in `symbols.rs` (`symbols.rs:118-119`); `SettledIsFixpoint` is not about such a source. `IFNDEF x` / `x DEFL 0` / `ENDIF` carries
  a variable over passes, and the body of an `IFNDEF` guard that defines its own name is
  dropped on the second pass (`assemble.rs:19-21` and `tests/directives.rs:206` count on
  guards). A label that only an earlier pass defined still has a value.
- A REPT counter, or a DEFL in a block, starts a new scope of local labels.
- `ORG` with no operand indexes an empty list; a macro that calls itself twice expands
  2^32 times before the depth limit ends it.
- Where ORG goes back over code, an address may be told the statement that was
  overwritten (`info.rs:149-157`) when its record begins earlier; a record that runs past the
  top of memory does not cover address 0, and DS 65536 has length 0.

## 6. Plan

Done: the channels between threads, the debugger, the frame clock and what hangs on it,
the tape formats with their player and recorder, the window's session with its pacer and
keyboard, the processor, the assembler with its passes, the debug information; the proofs
above.

What is left, in order of what it would add:

1. Contention and the T-states of `Cpu`, then `Frames` over the whole processor.
2. `Stepping` with a stack at the top of memory.
3. The command language's execution against `Breakpoints`, and the fade of the output.
