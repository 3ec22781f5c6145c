# Verification of lazyusf

lazyusf plays USF files: it emulates enough of a Nintendo 64 (its CPU, its
signal processor and the devices around them) to run the sound driver of a game
and writes the samples that the driver queues to a file or a sound device.
This directory holds TLA+ models of the parts of it where control is subtle, TLC
configurations that check them on small instances, and proofs, checked by TLAPS,
for every instance.

Every definition is translated from the C source at the lines that
`PROJECT.json` names under `map`. Read a module beside those lines.

## 1. The system

One process, one thread and one signal handler.

| Part | Source | State | Operations |
|---|---|---|---|
| Session | `main.c`, `usf.c`, `memory.c` | the globals of the player (`track_time`, `fade_time`, `enablecompare`, `enableFIFOfull`, `RdramSize`), the loaded ROM pages and save state, the mapped memory | work through the command line: load a file and its libraries, apply options, play, release |
| Playback | `audio.c`, `usf.c`, `main.c` | `play_time`, `cpu_running`, `AI_STATUS_REG`, the samples in RDRAM | open the output, add a buffer, fade, end the track; the handler of SIGINT and SIGUSR1 skips to the end |
| CPU loop | `interpreter_cpu.c`, `interpreter_ops.c` | `PROGRAM_COUNTER`, `NextInstruction`, `JumpToLocation`, registers | fetch, execute, branch with a delay slot, poll after a jump |
| Exceptions, interrupts | `exception.c`, `cpu.c` | `STATUS_REGISTER`, `EPC_REGISTER`, `FAKE_CAUSE_REGISTER`, `MI_INTR_REG`, `CPU_Action` | raise, mask, acknowledge, request, take, return |
| Timers | `cpu.c` | `Timers`, `COUNT_REGISTER`, `COMPARE_REGISTER`, `WaitMode` | arm, disarm, tick, expire for Compare, VI and AI |
| Address translation | `tlb.c` | 32 entries, `TLB_Map` with a translation for each page, `RANDOM`, `WIRED` | write, read, probe, look up, miss |
| Memory bus, DMA, PIF | `interpreter_memory.c`, `dma.c`, `pif.c` | device registers, RDRAM, PIF RAM | loads, stores, transfers |
| Signal processor | `rsp*.c` | its registers, DMEM and IMEM, `SP_STATUS_REG` | run one task to its end when a store starts it |
| Audio HLE | `audio_*` | the sound list | does such a task without the signal processor |
| Register cache | `registers.c`, `recompiler_cpu.c` | for each guest register a state (unknown, a constant, in one or two x86 registers), for each x86 register its use, age and protection | map, load, protect, evict, write back |
| CPU recompiler | `recompiler_ops.c`, `recompiler_memory.c`, `recompiler_cpu.c` | blocks of x86 code, the link locations of open branches, sections | compile each instruction, its branch with its delay slot, end the block |
| RSP recompiler | `rsp_recompiler_*.c` | labels, the jump table, branches to resolve, blocks | reorder a section, analyse what is needed, compile, link, run |
| x86 emitters | `x86*.c`, `rsp_x86.c`, `rsp_mmx.c`, `rsp_sse.c` | the output pointer | append one instruction |
| Tags | `psftag.c` | none | find a variable in a text |

How they interact. `main` loads a file and calls `usf_play`, which starts the CPU
loop. An instruction calls a handler; loads and stores go through `TLB_Map`, and
those that reach a device register change MI bits, start DMA, run the signal
processor or call `AiLenChanged`. Every instruction takes two counts off
`Timers->Timer`; after each jump the loop polls it, `TimerDone` raises an
interrupt and arms the next deadline, and `DoSomething` takes what has been
requested. `AiLenChanged` hands the samples to `AddBuffer`, which counts
`play_time` and clears `cpu_running` at the end of the track; the loop then ends
and `usf_play` releases everything. The signal handler runs between any two
machine instructions of all that.

What is hard:

* **Time as differences.** All deadlines are kept relative to one counter that
  every instruction decrements and every change re-bases, on words that wrap,
  with one value standing for "too far".
* **When interrupts are looked at.** Requests are computed at certain calls
  only, taken after jumps only, and parts of the state that they are computed
  from are changed elsewhere, with and without such a call.
* **A cache of translations** with overlapping entries and pages of many sizes,
  of which the running code must not be removed.
* **A signal handler that writes what `AddBuffer` is using.**
* **Globals that outlive the file they belong to,** and a recursion over files.
* **Two times at once in a recompiler.** What the cache of registers says must be
  true of the code that is being emitted when that code runs, though registers
  are taken away in the middle of an instruction, and though some of the code is
  jumped over.
* **Results that are left out.** The recompiler of the signal processor drops
  writes that a scan finds to be overwritten, and exchanges neighbours, across
  branches, delay slots, calls and a list of labels of limited length.

What makes each part correct is stated as the properties below; `hazards` in
`PROJECT.json` lists where each could go wrong, including what is not covered
yet and why.

## 2. The modules

| Module | Models | Proofs | Runs |
|---|---|---|---|
| `Timers` | the timers and all their callers | `TimersProof` | `timers`, `timers_late` |
| `Deadlines` | what timers promise: the abstract specification of `Timers` | | `timers` |
| `CpuLoop` | CPU loop, delay slots, exceptions, interrupts | `CpuLoopProof` | `cpu_loop` |
| `Tlb` | the entries and `TLB_Map` | `TlbProof` | `tlb` |
| `Playback` | a track, with signals | `PlaybackProof` | `playback`, two with violations |
| `Session` | the command line, with the globals | `SessionProof` | `session`, one with a violation |
| `Words` | words of `Width` bits and double words | | |
| `Opcodes` | what the interpreter does for an integer instruction | | |
| `RegCache` | the register cache of the recompiler | | |
| `Compile` | what is compiled for an integer instruction | | |
| `Branches` | the same for branches and jumps with their slots, and the interpreter's | | |
| `Memory` | the same for loads and stores | | |
| `Recompiled` | composes these: compiled code against the interpreter | `RecompiledProof` | `recompiled`, `recompiled_flow` |
| `RspOpcodes` | what an instruction of the signal processor reads and writes | | |
| `RspAnalysis` | the scans for what is needed, for the carry, for constants | | |
| `RspPairs` | which two instructions may be exchanged, which slot changes its branch | `RspRecompilerProof` | |
| `RspReorder` | labels, the sort of a section | | |
| `RspRecompiler` | composes these: compiling, linking and running a program | `RspRecompilerProof` | `rsp_recompiler` |
| `Recursion` | recursive functions on the naturals, for the proofs | itself | |

The modules whose names begin with `MC` only give values
to constants. Operators whose comment begins with "Mutant" are plausible bugs: each
stands before the definition it changes, and `PROJECT.json` (`mutants`) names
for every property one that breaks it. Type invariants are stated as `TypeOK` and
proved where there is a proof, but for the words of `Recompiled`; the runs check them only
as parts of `StateAgrees` and `LinkedEverywhere`. Scans, sorts and other recursions are recursive functions, so that
they can be proved about.

### Timers

`timers` is `*Timers` as it is in C: `NextTimer`, `Active`, `CurrentTimerType`,
`Timer`. `Rebase` is the three loops of `CheckTimer`, `SetTimer` is `ChangeTimer`
without its call of `CheckTimer`, and `CheckTimer` adds the tail that revives a
Compare deadline stored as `0x7FFFFFFF` (`Never`). An action is an instruction:
two counts go by (`Ticked`, after `WaitMode` has set `Timer` to -1), then the
instruction changes what it changes. `atJump` says that a jump has been resolved;
then the poll (`CompareDone`, `ViDone`, `AiDone`, `NotExpired`) is next. A fetch
that misses the TLB (`FetchMiss`) takes no count, but WaitMode is applied.

C's behaviour in three awkward cases is part of the state: `stopped` (nothing was
armed, `StopEmulation`), `endless` (`CheckTimer` and `ChangeCompareTimer` call
each other for ever) and `overtaken` (WaitMode pushed a deadline more than half
a turn away).

* `EarliestFirst`: `Timer` counts to the earliest armed deadline, VI is always
  armed, and so the emulation is never stopped for want of a timer.
* `FrozenCompareIsFar`: a deadline stored as `Never` is looked at again in time:
  at most a VI period, a late poll and the idling until then after it came within half a turn.
* `AstrayOnlyAtHalfTurn`: the endless recursion happens only while COMPARE is half a
  turn ahead of COUNT, less the lateness of a poll, and WaitMode overtakes the deadline
  of Compare alone, however often it begins late. Both do happen: the code has no
  guard against it.
* `NoDriftOutsideWait`: nothing but WaitMode lets Compare's deadline drift from
  the moment COUNT meets COMPARE. The drift is taken on the circle of words, since
  idling may add up to more than half a turn.
* `ImplementsDeadlines`: seen from outside these are independent countdowns
  (`Deadlines`). The refinement mapping drops the encoding (`armed` is `Active` less the
  frozen Compare, `left` is `NextTimer + Timer`, `polling` is `atJump`). While the program
  runs (`Run`), one time goes by for all timers: an instruction, or what WaitMode or
  `InPermLoop` skips (`Passing`). It may set the AI timer, to one of its delays, or Compare; VI
  and whatever it does not set count on. A poll takes no time. It serves one timer, whose time
  is up and none was due before it (`Fire`), or finds that nothing is due (`Pass`). VI then
  starts again, a period after it was due and not after it was served; AI is disarmed. Compare
  follows its register and is weaker: it may be frozen when it is set. `Far` names one
  exception: a Compare whose distance from a late deadline comes out as
  just `0x7FFFFFFF` is taken for one that was stored as `Never`, and is set anew.
* `TimersRunOut`: VI is served again and again, BREAK's wait ends, and the timer
  of a queued buffer runs out.

Bounds: a word has 48 values (`Half = 24`), which is enough for COUNT to wrap
and for a deadline to become `Never` and come back; a poll is at most 7 late
(`MaxOvershoot`); one VI period (9) and one AI delay (8), both longer than a poll
is late and far from half a turn, as in the program; COMPARE is written with 0 and 23,
one on either side of the sign bit, COUNT with 0. These bounds are for the run `timers`,
with liveness and the refinement. `timers_late` checks the three properties about Compare
where lateness adds up: polls up to 9 late with a VI period of 10, so that a deadline can be
shifted in each of several periods (`Half = 30`). A run of code without a jump
is bounded by `MaxRun`, in WaitMode, where `Timer` stands still, by `idled`.

Fairness: `WF_atJump(Proceeds)`. Every program reaches a jump again and again,
since memory is finite and an instruction always moves on, and the poll follows
in the same call of `ExecuteInterpreterOpCode`.

### CpuLoop

The program is any sequence of instructions; of their data only what reaches the
interrupt logic is kept. `phase` splits `ExecuteInterpreterOpCode` into executing
("op"), the poll of the timers ("poll") and of `CPU_Action` ("act").
`CheckInterrupts` is one operator, called exactly where the code calls it; actions
that the code performs without the call (`SetMask`, `MoveToCompare`, the SP bit
cleared by signal processor code) say so in their comments. The devices are
the members of `MI_INTR_REG`.

History: `open` is the first instruction not complete (a branch is complete
after its delay slot), `resume` and `intact` remember it across an exception,
`stale` says that bits have changed since `CheckInterrupts` looked, `withdrawn`
that the program has withdrawn a cause since the last jump.

* `RequestNotLost`: whenever interrupts are enabled and a line is up, an
  interrupt has been requested.
* `SpuriousOnlyIfWithdrawn`: a request without a cause is the program's doing.
* `CauseIsCurrent`: `IP2` and the AI bit agree with the devices.
* `ResumesWhereInterrupted`: a handler returns to the instruction that was not
  complete, also from delay slots and after nested faults.
* `PendingIsServed`: what stays pending and unmasked is served, thanks to VI.

Bounds: three words of code, so that a branch, its
slot and a target differ; five devices; status values with each of IE, EXL and
ERL and with a masked line; two interrupt masks. Fairness: the loop goes on
(`WF_phase(Proceeds)`), and VI is served infinitely often if it can be
(`SF_vars(ViDone)`), which is the first part of `TimersRunOut` in `Timers`.

Not modelled: the code in `CAUSE_REGISTER` and its BD bit, branches and ERET in
delay slots (undefined on the R4300), and the device timing inside a task of the
signal processor, which runs to its end within one store. `AudioIntrReg` keeps
what the previous track left in it, which `Init` allows for. A store that misses
the TLB raises no exception in the code: it is `Plain`.

### Tlb

`map` is `TLB_Map`, as physical page numbers; `Spread` is what `WriteTLBEntry`
leaves in it, the old entry's pages removed and the new entry's set by
`SetupTLB_Entry`. `FastTlb` is the group of definitions `Start`, `Last`,
`Installed`: it holds nothing else. `Refuses` is the test that spares the
running code. `overlapped` and `straddled` remember that the program has done
something for which the table is not meant to be right.

* `NoStaleTranslation`: no page is mapped but by an entry there is.
* `LooksUpLikeSearch`: without overlaps the table answers as a search would.
* `DirectSegmentsKept`: KSEG0 and KSEG1 stay, unless an entry straddled an edge.
* `RunningCodeStaysMapped`, `WiredKept`: no write takes the page of the program
  counter, and none but TLBWI a wired entry.
* `ProbeFindsMapping`: TLBP finds the entry of every page in it.

Bounds: 16 pages of which 8 to 11 are direct, two entries, pages of one and of
four units, so that halves overlap, straddle, wrap and end with the last page
(`NeverEnds`: the loop in the code then never ends, `endless`).

### Playback

`AddBuffer` is split where a signal makes a difference: the test for fading
(`Fade`), the second read for the volume (`Volume`), writing out (`Output`), and
load and store of `play_time +=` (`Load`, `Store`), the final test (`End`) and
the rest of `AiLenChanged` (`Schedule`). `Skip`, `Interrupt`, `InterruptAgain` and
`Killed` are the signal handler and the default action, at any of these points.
`sa_flags` is never initialised, so a handler may or may not stay installed
(`oneShot`). `since` counts what is really played, for comparison with
`play_time`; `lost` says that a signal's change of `play_time` has been
overwritten.

* `VolumeInRange`: 0 <= played past the end <= `fade_time`, and `fade_time` is not 0
  when it is divided by. The code has no such test: it follows from where
  tracks end and which words signals write.
* `SignalsHeeded`: after a signal at most the fade and one buffer are played,
  unless the signal was overwritten.
* `NotCutShort`: a track that ends has been played with its fade.
* `FullHasTimer`: a full FIFO has a timer that empties it, unless an empty buffer filled it. The
  code has no guard against that one, and no property forbids it: the FIFO then stays full.
* `TrackEnds`: if the game goes on sending, the track ends.

Bounds: words of 16 values with 8 and above "for ever"; lengths 3 and 11 (3 for
ever), fades 0, 2 and 14 (which wraps), buffers of 0, 1 and 2 units, three signals,
`play_time` below 14. Fairness: the main thread is never left waiting; the
game's sending is a premise of `TrackEnds`, not fairness. `TrackEnds` is for the
interpreter: a recompiled block tests `cpu_running` at its end only.

### Session

The loop of `main`; `stack` holds the nested calls of `LoadUSF`. Files are abstract
(`Content`): whether they open, their tags, library and RDRAM. `Set` is how the two
flags are decided once and for all, `Given` how times are, `Options` what the
command line does to `track_time`.

* `FirstFileDecides`: which file decides `enablecompare`, through the recursion.
* `LengthIsTheFiles`: a file with a length is played for that length.
* `NothingLeaks`: everything is released before the next file, except where
  `Allocate_Memory` failed (the code returns without releasing) and except for
  64 KB of registers that `Release_Memory` never unmaps.
* `SessionEnds`: every command line ends. Only a file whose libraries are nested as deep
  as the C stack is (in particular, one that names itself) may end it in a crash, which
  the code does nothing against.

Bounds: all command lines of three out of nine files (plain, with short and long
lengths, a library and its user, a file that is its own library, broken and
missing ones), three nested calls. Fairness: `main` goes on; that a track ends is
`TrackEnds`.

### RegCache, Compile, Branches, Memory, Recompiled

The recompiler and its code, as one machine `m` that holds two times at once. What
the compiler knows: `st`, `lo`, `hi` of each guest register (one union of values
and register numbers, as in the program), `mapped`, `order`, `prot` of each x86
register. What the code emitted so far has done when it runs: `x`, `gpr`, `HI`,
`LO`, `mem`. A function of `registers.c` or `recompiler_ops.c` takes a machine to a
machine: it changes what is known and does at once what its code will do. Code under
a jump is emitted always and runs only while `m.live`; so a write-back that the
allocation emits there is believed by the cache and not done. `Value(m, r)` is the
double word that code reading `r` would find. An operator for each stage of a
function takes the machine that the stage before has left.

`Recompiled` starts from every way of knowing the operands (`Named`: unknown, constants and
mapped registers of either width and sign) with other guest registers mapped before or after
them. Such a cache is not written down but made: `Laid` maps, sets and unprotects one register
after the other with the functions of `RegCache`, so that marks and ages are such as the code
leaves. `Recompiled` then runs instructions twice: compiled in `m`, interpreted (`Opcodes`,
the second half of `Branches` and of `Memory`) in `s`; a step clears register 0 of `s`, as
the interpreter's loop does. Proofs are about any number of instructions (`MaxOpcodes`), the
runs about one.

* `StateAgrees`: all guest registers, HI, LO, memory and LLBit agree, also in a
  block that a missed load leaves.
* `MemoryAgrees`: the write-back at the end of the block puts them in memory.
* `BranchesAgree`: branches and jumps go where the interpreter's go.
* `CacheSound`: no x86 register is shared, what is marked as mapped is, and can be
  evicted.
* `RegistersSuffice`: no instruction runs out of x86 registers or names one that it
  was not given.

Where the C code is known to differ, the machine's `slip` is set by the operator
of that place, with the condition under which the two really differ, and
nothing is compared after it. Section 3 lists these places. The build is the one for
64-bit hosts (`USEX64`).

Bounds: words of 4 bits (bytes of one bit, so that the byte order is still seen);
guest registers 0 to 4, of which 2 is the link register and 3 the register whose
state a wrong index reads (`FramePointer`, 30 in the program); two operands with
five values on both sides of the sign bits; one instruction, or a branch with
one of seven slots. Every case of a `Compile_` function depends on the states
of its operands and on which x86 registers are free, and both are enumerated;
crowds of none, one before and one after (two before for branches) make the allocation
evict others and the operands themselves. Six x86 registers as in the program. A second instruction
starts from a machine in which nothing is protected and the cache is sound (`AlwaysKept`, proved); of such
machines the runs enumerate those with up to four registers laid.

### RspOpcodes, RspPairs, RspAnalysis, RspReorder, RspRecompiler

`RspOpcodes` says what each instruction reads and writes (registers, the parts of the
accumulators, flags, DMEM), from the interpreter: the measure for everything
else. (BGEZAL is compiled, but missing from the interpreter's table; the model uses
`RSP_Opcode_BGEZAL`.) `RspPairs` is what the recompiler asks of two instructions:
`GetInstructionInfo`, `CompareInstructions`, `DelaySlotAffectBranch`. `RspAnalysis` is the scans of `rsp_recompiler_analysis.c`: forward from a
write (`WriteToAccum`, `WriteToVectorDest`), backwards for the carry
(`UseRspFlags`) and through a section for constants (`DetectGPRConstants`).
`RspReorder` is the bubble sort and the labels. `RspRecompiler`
compiles a program block by block (`CompileLabel`, `CompileOpcode`,
`CompileBranch`), links (`LinkBranches`, with the targets of nested
compilations), and runs what it has made over its blocks, keeping of the
run only which registers hold something else than they should (`stale`), whether
the carry may be set, and who wrote a register last. `phase` is "astray" once code has
run on past the code of the top word, and "hung" in an analysis that does not come back
(`Hang`). `RspRecompilerAssumption` says what a program is (`IsProgram`): opcodes that the
tables know, fields of five bits, targets inside of the memory, and no branch in the slot of
another or at the top, for which the processor does not define what happens.

* `NeverReadsStale`: what is left out is not read.
* `CarryKnownClear`: a VADD without carry runs without one.
* `ConstantsHold`: a base taken for a constant has that value.
* `SlotNoticed`: a branch that compares after its slot does not depend on it.
* `OrderKept`, `SectionsKept`: instructions that conflict keep their order; none
  passes a recorded label or a branch, nor gets into or out of a slot.
* `LinkedEverywhere`: every jump leads to code for its target.
* `AnalysisEnds`: no scan goes round for ever.

The exceptions that each property names are what the code gets wrong (section
3). Whether the processor has MMX is open (`mmx`), since the code that finds out
leaves it undefined in some builds.

Bounds: programs of ten words, two labels kept, two pending references; the program
families of `MCRspRecompiler` each put one question (straight code of three
or four free instructions; a branch between a write and its reader; calls and
returns; too many labels; circles of jumps; targets reached only by linking; code at the
top word, and a call from there; sums after one another of which a branch enters the first).

## 3. What the code does that its texts do not say

Each is a run that expects a violation, with the text quoted in `findings`.

| Run | Text | Code |
|---|---|---|
| `playback_fades_out` | "Fading out..." after SIGINT | `play_time = 0` and `play_time +=` may overwrite what the handler wrote |
| `playback_big_endian` | "the au format uses big endian words" | the swap is done in the game's memory, and undone when a buffer is queued again |
| `session_forever` | "Playing forever" | doubling shifts the bit away |

Two more things met while modelling, without a run. Flags and times of one file
stay for the next: a file without tags does not get the defaults of `usf.c`,
but what the last file left (the repository's README lists several files on one
command line as still to be done; `FirstFileDecides` and `LengthIsTheFiles` say what
happens now). And `--play-time` and `--fade-time` are printed by `main` and not stored.

Compiled code that does not do what the interpreter does, met while modelling. No
text says otherwise, so there is no run; the operator named sets `slip` under
the condition for it, and `map` gives its lines.

| Instruction | What happens | Operator |
|---|---|---|
| BEQ, BNE | two registers known as 32 bits with equal low words are taken for equal, also when one is signed and the other not | `HighsIgnored` |
| BGTZ | two jumps are kept in one link location; the first goes nowhere | `BGTZ_Sites` |
| BGTZ, BLEZ, SLT, SLTU, SLTI, SLTIU, OR, XOR, NOR | a register known with zeros above is taken for a signed one | `BGTZ_Compare`, `EitherUnsigned`, ... |
| branch-likely at the end of a page | its slot runs although the branch is not taken | `Slides` |
| branches, JR, JALR | a slot with CFC1 or DMFC1 (or CTC1, for branches on the FPU) is not seen to change what they read | `Unnoticed` |
| JALR | with rd = rs the target is the return address; with rd = 0 register 0 is written | `Compile_JALR` |
| BLTZAL, BGEZAL | of register 31 they compare the return address | `BranchAndLink` |
| DSLLV, DSRAV by a constant; XOR, NOR, SLT, SLTU, BEQ, BNE, BGEZ of constants of 64 bits; DSRL32, DSRA32 of narrow registers; many instructions in a slot of its own block | not compiled: unknown opcode | `UnknownOpcode` |
| DADD, DSUB of constants | C's `?:` binds weaker than `+` | `Misgrouped` |
| DADD, DADDU | the carry into a constant's high word is lost; rd = rt is overwritten before it is added | `LongAdded`, `LongSum` |
| DADD, DSUB, MTHI, MTLO, SD | the temporary for a high word may evict the register it belongs to | `LongWithNarrow`, `MovedThrough`, `StoreHalves` |
| DMULTU | carries and high words of the mixed products are dropped | `LongProductOf` |
| DSLL, DSRL, DSRA, DSRL32, DSRA32 | constants: one of 64 bits is not shifted, a narrow one's high word is read although it has none | `LongShifted`, `HighShifted` |
| DADDIU | from register 0, rt is not forgotten by the cache | `Compile_DADDIU` |
| DIV, DIVU by zero | the moves of registers are jumped over | `Divided` |
| LWU | loads a half | `NarrowRead` |
| LW | its register is mapped before the miss is tested, whose exit writes back what it held | `WordUnless` |
| LD, stores | do not test for a miss | `Wild` |
| loads of a constant address | no exception when the page is not mapped | `LoadConst`, `LongConst` |
| LWL, LWR | leave the block for a miss; the interpreter ignores it | `UnlessMissed` |
| SC | jumps over the write-backs made for its address; leaves the high word | `SkippedChanges`, `Answered` |
| AND, OR, NOR, SLT, ... | into register 0; and narrow cases that cut a high word | `Compile_AND` ff. |
| write-back, and loading 64 bits | a constant with a low word of ones, and a negative constant, get the high word of another | `OnesStored`, `HighLost` |

For the signal processor they are named in the properties:

| What | Where |
|---|---|
| STV stores eight registers, the scan looks for one | `NeverReadsStale` |
| the scans follow the jumps of the program, but the code runs past one that was forgotten, and has other slots where a branch was not recorded | `NeverReadsStale` |
| the scan for the carry goes backwards in memory, past labels and calls | `CarryKnownClear` |
| it takes a VADD that was compiled without the carry for one that clears it | `CarryKnownClear` |
| a link register that a call writes still counts as constant | `ConstantsHold` |
| `CompareInstructions` overlooks CFC2, CTC2, BREAK and the register that MFC2 writes | `OrderKept` |
| labels beyond the last of 175 are forgotten; beyond 150 references every jump is, also one to code that is known | `SectionsKept`, `LinkedEverywhere` |
| a jump to word 0 is taken for none yet met, so that a scan of a circle does not end | `AnalysisEnds` |

And without a place in a model: VXOR tests the CPU's features for a value they never
have; the assembler around `cpuid` (`rsp.c:1088`) leaves whether there is MMX undefined in
some builds; the tables of compiled code are told apart by a checksum of a
few words (`rsp.c:1107-1138`); the comment above `WriteToVectorDest`
(`rsp_recompiler_analysis.c:496-504`) has its two answers the wrong way round.

## 4. What is proved

All theorems hold for every value of the constants that satisfies the module's
named assumption (`TimersAssumption`, `CpuLoopAssumption`, `TlbAssumption`,
`PlaybackAssumption`,
`SessionAssumption`, `WidthAssumption`, `GuestAssumption`, `LinkAssumption`, `MemoryAssumption`,
`RecompiledAssumption`, `RspAssumption`,
`RspRecompilerAssumption`): every width of word, every
set of delays, register values, devices, pages, entries, files and command lines, any number of
signals, any guest registers, values and slots, every program and size of the recompiler's tables. The
assumptions are evaluated by TLC in the runs.

* **TimersProof**, part I (`TypeCorrect`, `EarliestFirstHolds`). `EarliestFirst` is not
  inductive: it does not say that deadlines are close enough for the differences
  not to wrap. `Good` adds that all of them lie in a window of less than half a turn
  above the lateness of a poll. `CheckTimerGood` shows that `CheckTimer` makes
  any `Ready` value `Good`, `SetTimerReady` that arming keeps it `Ready`,
  `DownGood` that ticks keep it `Good` or WaitMode overtakes. `TimersInv` is `TypeOK`
  and, unless overtaken, `Good`; it also bounds `idled`.
* **TimersProof**, part II (`FrozenIsFar`, `AstrayAtHalfTurn`). `Good` bounds every deadline
  by itself; that says nothing of a Compare that is not counted down. `FarInv` adds
  `Spread`: VI is at most a period after every other armed deadline, and AI at most
  `AiSpread`. So nothing that WaitMode can delay reaches half a turn but Compare
  (`DownSpread`), and a Compare stored as `Never` is at least as far as VI from coming
  within half a turn (`FrozenNear`): when VI is served, `CheckTimer` looks again.
  `CheckLeavesFar` is why a `CheckTimer` that returns leaves a `Never` only where it is due
  (`Settled`), and `CheckEnds` on which distances it does not return.
* **TimersProof**, part III (`KeepsDeadlines`, `NoDrift`), from the same `FarInv`.
  `KeptFrom` says that a deadline moved by just the time that went by. `RebaseArmed` and
  `CheckArmed` show it of `CheckTimer`, with the one exception that `Far` in `Deadlines`
  allows; `ChangeSets` of arming another timer; `DownKept` of a tick, whose
  length `TimerBounds` bounds. `SetTo` says that the timer that was armed has what it was
  armed with, also after the `CheckTimer` at the end (`CheckSetTo`). `CurrentEarliest` is why a poll
  may look at `Timer` alone: in `Sound` states it is what the timer that is due first has left. So
  what is served was due and due first, and VI starts again from when it was due (`PollFires`);
  a poll that serves nothing passes over nothing (`PollPasses`). `InstructionRuns` and
  `FetchMissRuns` are the steps between polls. `LoadedSound` is the initial state: nothing is
  due, and the calls return. For `NoDrift`, `DriftMoves` shows on the circle of words that COUNT and a deadline moved
  alike keep their difference, and `DriftSet` that arming Compare makes it 0 or 1.
* **CpuLoopProof** (`CpuTypeCorrect`, `RequestsKept`, `SpuriousWithdrawn`, `CauseCurrent`,
  `ResumesCorrectly`). `ControlInv` relates `open`, `pc` and the delay slot;
  `RequestInv` says that a request is withdrawn or still justified by what is current.
  Lemma `Checked` says what `CheckInterrupts` establishes; there is one lemma for
  each kind of action.
* **TlbProof** (`TlbTypeCorrect`, `NeverStale`, `LooksUpCorrectly`, `DirectKept`,
  `ProbesCorrectly`, `RunningKept`, `WiredStay`). `TlbInv` adds to the invariants that the history
  variables have seen what is there now. The heart is `WriteInv`. `ProbesCorrectly`
  needs no history but the arithmetic of masks: `Aligned` and `NextMultiple` say
  which page numbers share their quotient, `HalvesInside` that both halves of an aligned
  entry stay within one, and `TlbAssumption` that every mask divides the space of addresses.
* **PlaybackProof** (`PlaybackTypeCorrect`, `VolumeStaysInRange`, `SignalsAreHeeded`,
  `NeverCutShort`, `FullQueueHasTimer`). `PlaybackInv` ties `play_time`, or the sum
  in a register while it is being stored, to what has been played since the last
  signal (`Counting`), says where `play_time` can be at each step (`NotOver`,
  `FadingPoint`) and what is true at the end (`PlayedOut`).
* **SessionProof** (`SessionTypeCorrect`, `NothingIsLeaked`, `FirstDecides`, `LengthIsItsOwn`).
  `Clean` adds to `NothingLeaks` that nothing is mapped before a track is played. What a file
  and its libraries say is a recursive function over the depth of nesting (`CompareOf`,
  `LengthOf`), and the stack of `LoadUSF` holds the part of it that is still to be worked
  off: the invariants of the two theorems say, for each frame of the stack, what the globals
  will be once it has returned. `CompareEquation` and `LengthEquation` are the two functions
  by one call.
* **Recursion.** The library's induction theorems take an operator as a parameter, which the
  provers cannot instantiate. `Minimum`, `Induction`, `AllValues` and `Iteration` are stated with
  sets and functions instead: that a recursion on an interval has a value, and that what
  each step keeps holds of every value. `SessionProof` and `RspRecompilerProof` rest on them.
* **RecompiledProof** (`AlwaysKept`, `AlwaysCacheSound`, `AlwaysRegistersSuffice`, `OnlyTheDestination`,
  `AlwaysMemoryAgrees`). What the runs check of one instruction on small caches, for blocks of any length. The
  invariant is `Kept`: unless an instruction slipped, the cache is `Sound` (each mapped guest register
  has x86 registers of its own that are marked and have an age, each marked x86 register has
  one owner), nothing is protected, no request has failed. It is inductive only together with a contract
  of every function on the way: `Does(m, n, R)` says that from `m` a piece of the recompiler makes `n` with a
  sound cache in which all guest registers but those of `R` hold what they held and protected
  registers are where they were, provided that there is `Room`: that at most so
  many of the six x86 registers are protected. `Ends` is the same for a whole instruction. The contracts
  are proved from `registers.c` upwards: freeing a register, by evicting the oldest if need be (`FreeReg`),
  `UnMap_GPR`, `UnMap_X86reg`, the mappings of 32 and 64 bits and of temporaries; then of each `Compile_`
  function (`Compile_ADDI_Ends` and so on), whose count of protected registers is followed
  through every case; of a block's end (`WriteBackEnds`), of the slot before and after the comparison; of `Laid`; and
  of each action.
  `AlwaysCacheSound` and `AlwaysRegistersSuffice` are parts of `Kept`. `OnlyTheDestination` is an action property
  which no run checks: an instruction other than a branch or a jump leaves every guest register but one as it was, in
  compiled code and in the interpreter alike, though what they hold may have been moved, written to memory or
  loaded again.
  `AlwaysMemoryAgrees` has a hypothesis: where `StateAgrees` holds, the write-back leaves
  in memory what the interpreter has. So what the end of a block does is proved for all caches
  (`WriteBackValues`), and what an instruction computes is left to the runs.
* **RspRecompilerProof**, first part (`ExchangedIndependent`, `SlotIndependent`). TLC sorts the blocks
  of a few programs; the theorems are about any two instructions with any registers.
  `ExchangedIndependent`: what `CompareInstructions` accepts has no `Conflict`, but for
  the three cases of `Overlooked`. `SlotIndependent`: a slot that is not noticed
  writes nothing its branch compares. `ComputeEffect`, `ScalarEffects`,
  `MoveEffects` and `MemoryEffects` compare, group of opcodes by group, what the interpreter touches
  with what `GetInstructionInfo` notes.
* **RspRecompilerProof**, second part (`RecompilerInvariant`, `EveryJumpIsLinked`, `EverySlotIsNoticed`,
  `ConstantsAreHeld`, `OrderIsKept`, `SectionsAreKept`, `AnalysesEnd`). None of the properties is
  inductive: they speak of code when it is linked or runs, and it is made over many steps
  while the order of the words changes. `IInv` says of that order (`InOrder`) that it is a
  permutation which leaves branches in place, moves nothing past a label or a branch, and in
  which every inversion was compared; of the code behind the compiler that it was made in that order
  (`CompileInv`, `BlockInv`); that each entry of the jump table leads to code or to what is
  compiled next (`TableInv`); that a target without code waits somewhere on the stack of lists
  (`Resolved`), however deep compilations nest; and of the run who wrote a register last
  (`WriterInv`). `ComparedKeeps`, `PassKeeps`, `PassesKeep` carry any set of
  orders that a single exchange does not leave through the bubble sort; `ExchangeOrdered`,
  `ExchangeStretched` and `ExchangeSlots` show it of the three parts of `InOrder`. There is one lemma
  for each action. `OrderIsKept` then takes `ExchangedIndependent`, which is about any two instructions.
  `AnalysesEnd` counts what is left to a walk (`Ahead`): the words to the top, as many again for the
  jump it may still follow, and both ways of the branch it has not met; each step takes something
  off (`AdvancedOn`, `BothWays`), so that `MaxSteps` is never reached but in a program that jumps to word 0.

What the attempts to prove found. `SectionsKept` could be stated more strongly (no instruction
passes a label or a branch whether or not all branches were recorded). `CarryKnownClear` is not
true of a VADD that was compiled without the carry and is then found by the scan for the next. `NeverReadsStale`
is not true after a forgotten jump, nor where a branch was not recorded and an instruction
has taken the place of its slot; both came to light on programs made at random, beside those of `MCRspRecompiler`.
The properties say so now. And a reference for which there is no room is forgotten also when its target is known.

Only model-checked:

* All liveness: the prover has no rule for fairness here.
* `NeverReadsStale` and `CarryKnownClear`. The scans look at the program as it is sorted at the time
  of the question, and the code runs over sections that have been sorted since, so that a proof
  has to show that later exchanges commute with the answers; what a scan answers follows from an
  induction over all ways that the code can take. Beside the run they held on 400,000 random programs of ten words.
* `StateAgrees` and `BranchesAgree`: that an instruction computes in its destination, in HI and LO and in memory what
  the interpreter computes, and branches where it branches. Words are added, multiplied, divided and shifted by
  powers there, and combined bit by bit with folds, of which the provers know nothing (powers and folds
  are recursive); the runs enumerate the operands on short words. That the other registers
  stay is proved (`OnlyTheDestination`), and `MemoryAgrees` where `StateAgrees` holds.

## 5. Not modelled, and what is left

* The emitters of x86 code: each function appends the bytes of one instruction.
* The results of floating-point and vector instructions, in either processor and either
  recompiler. What they read and write is modelled where it matters.
* The analysis of sections of the CPU recompiler and their joins (which constants
  are known at a label), the floating-point stack, COP0, device registers at
  constant addresses and code that modifies itself.
* Two ends of a block of the RSP recompiler. BREAK in a delay slot ends the block
  (`rsp_recompiler_ops.c:1319`), where the model has an ordinary slot; no run has such a
  program. MTC0 to `SP_RD_LEN` with a destination in IMEM leaves the block (`1961`):
  code that replaces itself is not modelled in either processor.
* The copying and range checks of DMA, the command bytes of PIF RAM, decoding
  of device addresses. Stores to device registers are written three times in the program
  (`interpreter_memory.c:590-1198`, `recompiler_memory.c:821-1327` and `1329-1589`) and the copies
  differ (for example, a store to `MI_MODE` through a register changes the mask; a store
  of zero samples falls through to the AI's interrupt): a model of the three against one another is what
  should come next.
* The audio HLE, the tag parser, libFLAC and libao.

Hazards that no property covers, beside the one that `PROJECT.json` lists
without: `DoTLBMiss` clears the ASID of EntryHi (`exception.c:249`); `sa_flags` is not
initialised, which `Playback` allows for (`main.c:101`); nothing is released when
`Allocate_Memory` fails (`usf.c:402`) and 64 KB are never unmapped (`memory.c:186`), which
`NothingLeaks` excepts; a library shrinks the save state's space before the
file is read into it (`usf.c:313`); a second SIGINT during `Release_Memory` (`main.c:78`);
DMA to the save RAM or outside of a memory leaves BUSY without an interrupt (`dma.c:60`); a store to ROM answers
the next load from any address (`interpreter_memory.c:595`); a new track sets
`cpu_running` after a signal has cleared it (`cpu.c:672`).

Next, beside device registers: `Machine`, which composes `Timers` and `CpuLoop`; sections and
their joins.

## 6. Running it

    tlc -workers 2 -config MCTimers.cfg MCTimers
    tlapm TimersProof.tla

Each run takes at most two and a half minutes. The runs that expect a violation
stop with a counterexample. Deadlock is checked
everywhere but in `recompiled` and `recompiled_flow`, which end after one
instruction: where the program really stops, a stuttering action says so
(`Halted`, `Stopped`, `Ended`).
