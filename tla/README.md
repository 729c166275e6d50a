# my_mips: a TLA+ verification project

`my_mips` is an emulator of little-endian MIPS32 programs: an interpreter, a
basic-block JIT to x86-64, system calls, a memory-mapped screen and keyboard,
and a debugger. This directory holds TLA+ modules translated from its source,
TLC models that check them on small instances, and TLAPS proofs that hold for
every word size, program and input. `PROJECT.json` maps every definition to the
source lines it stands for and lists the runs, mutants, findings, hazards and
theorems.

## The system

| part | source | state | operations |
|---|---|---|---|
| interpreter | `cpu.c` | registers, `hi`, `lo`, memory, `pc`; `branch_pending`, `branch_target` | `step_instruction`: fetch, `exec_inst` (dispatch to `exec_register`, `exec_immediate`, `exec_special2`, `exec_jump`, `exec_cop1`), advance |
| arithmetic, memory | `functions.c` | - | `add`/`sub`/`addi` with a trap flag in `$k0`, `mult`, `div`, byte-addressed loads and stores |
| instruction formats | `decode.h`, `define.h` | - | field accessors, opcodes, register numbers |
| system calls | `syscalls.c` | descriptors and stdio buffers of the host | 12 services selected by `$v0` |
| device | `device.c` | `last_key`, `ready`, SDL handles | a word store to `GPU_FLUSH` presents a frame and pumps events, a word load of `GPU_INPUT` takes the key |
| JIT | `jit.c` | code buffer, emit cursor, block cache | `execute_jit`: look up, `compile_block`, run, fall back to `step_instruction` |
| debugger | `dbg.c` | breakpoint array, `halted` | step, continue, break, delete, and commands that print |
| debugger input | `cstream*.c`, `interruptible_readline.c`, `vec.c` | current line, position, one-character buffer, SIGINT flag | pop a character, read a line, interrupt |
| coprocessor | `fpu.c` | `fpr`, `fp_cond` | moves, loads, stores, arithmetic, compares, `bc1t`/`bc1f` |
| loader | `utils.c`, `map_elf.c` | `glob` | file checks, flat or ELF image into memory, first `pc` |
| trace | `disasm.c`, `logger.c` | - | formatting |
| start-up, errors | `main.c`, `error.c` | - | choose interpreter, JIT or debugger |

Everything runs in one thread and shares `struct global`. The interpreter calls
the system calls, the coprocessor and, on word accesses, the device. The JIT
calls the interpreter for whatever it does not compile, and reads
`branch_pending` to keep out of delay slots. The debugger calls
`step_instruction` itself and keeps its own note that the program has ended.

### What is hard here

The emulator is one thread; the difficulty is in long sequences of legal steps,
in the numeric edges and in the outside world. The delay-slot pipeline is
hidden state between two instructions, which the JIT and the debugger can cut
anywhere. The JIT keeps a copy of the program that may be stale, in a cache
where addresses collide and a buffer that fills up. The host answers system
calls as it likes, with host pointers into the emulated memory. SIGINT may come
between any two statements of the debugger's prompt, SDL's event queue grows
while it is drained, descriptor 0 has three readers, and each of the calls that
load a program may fail with something already open or allocated. The arithmetic
has the usual corners: `INT_MIN / -1`, shifts by the width, carries through
`hi:lo`, merges of unaligned words, register pairs that overlap, wrap-around of
addresses. `PROJECT.json`
lists these at their lines under `hazards`, with the properties that cover each.

### What makes each part correct

- interpreter: a branch takes effect after exactly one instruction; stops are
  precise; `$0` is always 0; values keep their C types; each group computes what
  an independent reconstruction computes;
- system calls: a service writes only `$v0` and the buffer it was given;
- coprocessor: a double is two registers, low word first; `bc1t`/`bc1f` obey the
  same pipeline as the other branches;
- device: the register holds the latest key, a key reaches the program once, and
  frames are presented only with a complete window;
- loader: what runs is the image the file describes, and nothing runs after an error;
- JIT: indistinguishable from the interpreter; never writes outside its buffer;
  always returns to the dispatcher;
- debugger: breakpoints are a set, `continue` stops at the first one, and the
  machine behaves as it does without the debugger;
- debugger input: every character goes to one reader, in order; a command is one
  line; a line that was typed becomes a command, or the session ends.

## Modules

| module | models | notes |
|---|---|---|
| `Words` | C integer types and expressions of `cpu.c`, `functions.c` | width `4 * BITS`; `BITS = 8` in the code. `And`, `Or`, `Xor` are constant operators, so that proofs need no definition of them |
| `Machine` | `struct global`, `init_global`, the end of `step_instruction`, memory accessors, device registers | variables of the machine; `Advance`, `Continue`, `Halt` are the three ways an instruction ends |
| `Syscalls` | `syscalls.c` | one operator per service and outcome |
| `Fpu` | `fpu.c` | registers as bits; the host's arithmetic is two constant operators |
| `Cpu` | `cpu.c`, `functions.c` | extends `Fpu` and `Syscalls`; one action per kind of instruction; `Spec` is `execute()` |
| `Instructions` | what single instructions promise, stated apart from how the code computes it | action properties over `Cpu`: divisions by what rebuilds the dividend, overflow by signs, loads and stores byte by byte |
| `DelaySlot` | abstract: the architecture's pair `pc`, `npc` | implemented by `Cpu` (`DelaySlotSpec`) |
| `Jit` | `jit.c` | extends `Cpu`; refines it (`ImplementsInterpreter`) |
| `Debugger` | `dbg.c` | extends `Cpu`; refines it (`ImplementsCpu`) |
| `Breakpoints` | abstract: a bounded set of addresses, true replies about it, and a program that stops at them | implemented by `Debugger` (`ImplementsBreakpoints`) |
| `Device` | `device.c` with SDL, and the user | the inside of the device: window, event queue, exit handler |
| `KeyRegister` | abstract: the key register as `Machine` has it | implemented by `Device` (`ImplementsRegister`) |
| `Loader` | `main.c`, `utils.c`, `map_elf.c` | from the command line to the exit status; its states at the start of a program are `Init` of `Machine` |
| `Console` | `debug()` and `read_line` of `dbg.c`, `cstream*.c`, `interruptible_readline.c`, `vec.c`, and the readers of `syscalls.c` | how command lines are made; `Debugger` says what a command does |
| `WordLemmas`, `CpuProofs`, `DeviceProofs`, `DebuggerProofs`, `JitProofs`, `JitRefinement`, `LoaderProofs`, `ConsoleProofs` | - | proofs, see below |
| `Assembler` | - | how models write programs |
| `MC*` | - | programs, bounds and the properties that are about one program |

### Correspondence with the code

*An instruction is one step.* `step_instruction()` copies and clears the pending
branch, executes, then advances `pc` if the instruction returned 0. An action of
`Cpu` is the whole call. `Instruction` is the decoded word at `pc` (low bits
dropped, as by `pc / 4`). `status` is not a variable of the program: it tells
what `step_instruction` returned last (0: `run`, 2: `stop`, 1: `error`) or that a
signal killed the process (`crash`).

*Encodings are abstract, words are not.* Which word encodes which instruction is
the constant `Decode`, any function with `Decode[0]` a nop. Instructions still
live in memory as words: programs can load, copy and overwrite them, and the JIT
reads the same memory. The models number the instructions of a listing
(`Assembler`).

*Undefined behaviour.* Signed overflow of `mul` and of the accumulations wraps,
as the build does. `INT_MIN / -1` raises SIGFPE. Host accesses past the last byte
of the emulated memory (`print_string`, `read_string`) either kill the emulator or
go on without effect on the machine; writing past the code buffer likewise. A
`read_string` whose `calloc` failed copies from NULL and dies when `read` returns 0
(`ReadStringNull`).

*JIT.* The emitter is modelled by the effect of each emitted x86-64 instruction on
`eax`, `ecx`, `edx`, the flags and the guest state, and by its length in bytes.
A cached function pointer is represented by the instructions it was compiled
from. A native block executes one guest instruction per step; `machine_pc` is the
refinement mapping for `pc` while `glob->pc` is behind.

*Debugger.* A command is a sequence of steps, so that a command can be compared
with single instructions. `reply` is the message a command printed, reduced to its
kind and address. The commands that only print, and everything about parsing a
command line, are left out: they change no state.

*Floating point.* `fpr[0..31]` and `fp_cond` are one array of 33 cells, because they
are neighbours in `struct global` and `fpr[n + 1]` with `n = 31` reaches the second.
`mov`, `neg` and `abs` are what they do to bits; the other results are
`FpResult`/`FpRelation`, of which only the type is assumed (the guards of
`ComputeSingle` and `ComputeDouble`). The models use a small sign-and-magnitude
arithmetic with a NaN (`Assembler`).

*Device.* Machine has the two registers only: a flush keeps the key or leaves one of
`Keys`. `Device` has what happens inside: one step per turn of `pump_events`, with
the user acting between any two, and every combination of SDL calls that fail in
`gpu_init`. `from`, `before` and `got` are history.

*Loader.* One action per function, or per place where the function can fail; a file is
a record of its size, its bytes, its segments and the set of header fields that
`check_header` would refuse. `elf`, `entry` and `phdrs` start as whatever `malloc` left
in `glob` (`Fills`). When `binary_or_elf` fails it returns -1 and has assigned none of
them, and `init_global` goes on: with `elf` 0 mapping descriptor -1 fails, and with
anything else (`Garbage`) `map_elf` uses a header nobody read. It may crash on the
pointer, refuse a segment, or find nothing to copy (no header, or none of type
`PT_LOAD`), and then a program of zeros runs from the `e_entry` it found. A `pread`
stops at the end of the file and after `MAX_TRANSFER` bytes (0x7ffff000 on Linux).
`failed` is history. Headers are `HEADER` and `PHDR` bytes (52 and 32 in the code).

*Console.* Characters are named by their place in the input, so that losing,
repeating or reordering one shows. The prompt is cut where a signal makes a
difference: before `select`, inside it, before the character is read, before the
flag is checked. `signal()` in a `-std=c99` build with `_POSIX_C_SOURCE` resets the
handler when it runs, so a second SIGINT kills the emulator. The stream of a
terminal is allocated with `malloc` and its `has_buffer` never assigned: both values
are initial states. Readline delivers the edited line at the newline and NULL at `^D`
on an empty line.

## Runs

All models have words of 4 bits (`BITS = 1`, 16 bytes of memory) or 8 bits
(`BITS = 2`, 256 bytes). With four bits a program is four instructions, so all
programs over a listing can be checked; wrap-around of `pc`, of addresses and of
offsets happens in almost all of them. With eight bits the operands are the
boundary values of each operation. No property depends on the width other than
through the constants, and the proofs do not fix it.

| run | bounds | shows |
|---|---|---|
| `control` | all programs of 4 words over 12 instructions, nop and illegal; two entries | `TypeOK`, `ZeroRegister`, refinement of `DelaySlot`: branches (`bc1t` included), calls and stops in delay slots |
| `instructions` | five programs in 8-bit words: all pairs of 15 boundary operands (10 for the coprocessor); 9 source and 9 target addresses, all alignments, across the end of memory and at the device's registers; services 0..18 called twice, two addresses (one at the end of memory), lengths 0, 2, 3, inputs of up to 2 bytes; a program that polls the device for 4 frames with 3 keys | every step keeps the promise of `Instructions`: quotient and remainder rebuild the dividend (`DivisionRebuilds`), `hi:lo` holds exact products and accumulates through all its bits (`ProductInPair`), `clz`/`clo` (`LeadingCounts`), the overflow flag against the rule on signs (`OverflowFlag`), `sra`/`srav` against the logical shift (`ArithmeticShift`), loads and stores move the bytes they name (`BytesInPlace`) and no others (`StoreFootprint`). At the end of the third program doubles have kept their bits through pairs, memory and conversion (`FpuPairs`) and branched as `slt` would (`FpuBranches`). A service writes only its buffer (`ServiceFootprint`), nothing of an earlier read follows a string (`NoStaleTail`), `read` reports what it stored (`ReadReportsLength`); the input register shows a key, never memory (`InputIsKey`) |
| `native` | one program of every instruction the compiler translates, all pairs of 10 boundary operands, with and without a code buffer | emitted code computes what the interpreter computes (`ImplementsInterpreter`) |
| `jit` | all programs of 3 words over 9 instructions and nop; cache of 2, blocks of at most 2, a buffer for about 3 blocks, with and without a buffer | refinement of the interpreter (`ImplementsInterpreter`), `CacheCoherent`, cursor in the buffer when the reserve covers a block (`CursorInside`), `NoBlockInDelaySlot`, `DispatcherReturns` |
| `self_modify` | programs of 4 words that overwrite their code; reserve smaller than a block, as in the code | what still holds: types and block length (`JitTypeOK`), and that only a store makes a block stale (`StaleByStore`) |
| `debugger` | 4 programs, 3 addresses for 2 breakpoint cells, step counts -1, 1, 2 | `DebugTypeOK`, refinement of `Breakpoints` and of `Cpu` (`ImplementsBreakpoints`, `ImplementsCpu`); `step` returns (`StepReturns`) |
| `device` | 3 events of 4 symbols (a letter, `q`, two with more than 8 bits, one of them with low byte 0), 3 attempts to open the window | the key register (`ReadyOnce`, `MostRecentKey`, `ReportedInOrder`), refinement of `KeyRegister` (`ImplementsRegister`), the flush returns (`FlushReturns`) |
| `loader` | memory of 8 bytes, headers of 2 and 1 bytes; flat files of 0..8 bytes, ELF files of 1, 3, 5, 7 bytes with all tables of up to two of 7 segments; at most 3 bytes per `pread`; 6 contents of the memory `glob` is allocated in; option sequences; every call may fail | the program starts on its image, but for segments larger than one `pread` (`StartsOnImage`); no execution after an error, but for an `elf` that nobody assigned (`ErrorsStop`); exit status (`ExitTells`); the loader ends (`LoadEnds`) |
| `console` | 6 characters of input, stdio reading ahead 3, a line buffer that starts with 1 byte; terminal and pipe | every character once and in order (`InputOnce`), a command is one line (`CommandIsLine`), a line that was typed is read, whatever signals come (`LineComes`) |

The bounds of the last three are the least at which their hazards happen: a key
overwritten before and after a poll takes three events; two segments can overlap; a
command that the program's `read` tears apart takes a block that ends in the middle of
a line, which is three characters, and three more.

Each property has a mutant, an operator `X_Something` next to the definition `X` it
replaces, that changes the code's behaviour the way a plausible slip would and that
the property catches.

### Disagreements with the documentation

Three runs state what a document or comment says and find that the code does otherwise:

- `division_exception` (`NoRealException`): `INT_MIN / -1` kills the emulator, where the README says
  that no real exception is raised.
- `code_buffer` (`CursorInside`): `compile_block` wants 8192 bytes for a block of up to
  1024 instructions of up to 21 bytes, and the emitter checks nothing. The run
  divides the block limit and the reserve of the code by 32.
- `short_binary` (`FlatBinariesLoad`): a flat binary shorter than an ELF header, 52 bytes, is refused; the
  README says flat binaries are loaded.

The models also have, without a run of their own: `add $k0, ...` overwrites the
overflow flag with its result (`AddNoOverflow`); an unknown service ends the program
like `exit` (`Exit`); the JIT keeps running code the program has overwritten
(`EnterBlock`); a window whose renderer cannot be created stays open when the next
flush opens another (`gpu_init`); SIGINT just before `select` waits for the next key,
SIGINT during a command is discarded at the next prompt, SIGINT just before Enter is
lost because the line's end is looked at before the flag (`readline_callback`), and
where the flag is noticed the prompt ends the session, while the comment at
`interruptible_readline.c:23-24` says "reset readline, print ^C and redraw the prompt"
(`check_interrupt`); a program of zeros may run after the file was refused, when
`malloc` returned memory in use before (`Garbage`, `map_elf`); a segment of more than
0x7ffff000 bytes is loaded in part, without an error (`copy_segment`).

### Fairness

`JitSpec` has weak fairness of its next-state action: the emulator is one thread in
a loop that never blocks between two instructions other than in a system call.
`DebugSpec` has it of a running command only: the user may stop typing, but a
command, once started, keeps executing. `Device` has it of the loop of `pump_events`,
and the bound on events says that the user pauses. `Loader` has it of loading, which is
straight-line code and a loop over a table; a running program owes nothing. `Console`
has it of the debugger's own steps: they are enabled only when there is something to
read or check, so a user who does not type leaves `select` waiting. `Cpu` needs none.

## Proofs

Every theorem below is checked by TLAPS for all values of the constants: every word
width, program, input, cache, file or key sequence. The inductive invariants were
first checked by TLC on the models above.

### Interpreter and services (`WordLemmas`, `CpuProofs`)

- `TypeCorrect`: `Spec => []TypeOK`
- `ZeroRegisterHolds`: `Spec => []ZeroRegister`
- `PipelineRefinement`: `Spec => DelaySlotSpec`
- `ServicesKeepToTheirBuffer`, `StringsHideTheOld`, `ReadTellsItsLength`:
  `Spec => ServiceFootprint`, `NoStaleTail`, `ReadReportsLength`
- `DivisionIsExact`, `ProductsAreExact`, `CountsAreExact`, `OverflowIsFlagged`,
  `ShiftsKeepTheSign`, `BytesAreInPlace`, `StoresKeepToTheirBytes`: `Spec =>
  DivisionRebuilds`, `ProductInPair`, `LeadingCounts`, `OverflowFlag`, `ArithmeticShift`,
  `BytesInPlace`, `StoreFootprint`

The inductive invariant is `Inv`, types of the integer state and `ZeroRegister`, with
`FpuOK` for the coprocessor. `step_instruction` leaves `$0` alone in jumps, system calls
and `break`, so the zero has to be carried over by those actions, and the values they
write have to be words. `InvParts` splits `Inv` into `PipelineOK` (`pc`, pending branch,
status) and `DataOK` (the rest); each action is one of three ends of an instruction
(`Advance`, `Continue`, `Halt`) and one of few updates (`Write`, `SetHiLo`, `Result`, a
store), so there is one lemma for each of these and the actions follow group by group
(`SyscallInv`, `ArithmeticInv`, `ControlInv`, `MemoryInv`, `StopInv`, `CoprocessorInv`,
`CoprocessorMemoryInv`). Of the floating-point state the invariant says that all 33
cells are words, the condition included: a double in register 31 rules out saying that
it is 0 or 1.

`PipelineRefinement` uses `Inv` for the types of the targets; `AdvanceMaps` and
`HaltMaps` show that the two ends of an instruction are steps of `DelaySlot` under the
mapping `npc`, and `StepMaps` that every action has one of those ends, a transfer
only when the instruction is a branch or a jump.

For the services, `ServiceStep` says that no other action executes a `syscall`
instruction, `ServiceEffects` that only `read_string` and `read` touch memory, and
`StrncpyEffect` what `strncpy` leaves: nothing outside its `n` bytes, and zeros after a
zero. `ReadReportsLength` needs that one `read` delivers fewer than 2^31 bytes, which
Linux guarantees: a longer one could report the length `0xffffffff`, which reads as -1.

For the promises of `Instructions`, `Dispatch` says which action executes each of their
instructions; what is left is a statement about the words it computes, for all of them.

- Division: C's quotient truncates, the model's `\div` rounds down; `DivisionRule` relates
  them in the four combinations of signs, `QuotientFits` finds the one quotient that is
  not a word, and `SignedRoundTrip` says that nothing is lost between registers and
  signed values.
- Products: `CongruentBy` and `SplitProduct` say that two halves of a product modulo
  2^64 rebuild it modulo 2^64; for `mult` and `multu`, `ProductBound` gives that the
  product itself is rebuilt.
- Overflow: `SumOverflow` and `DifferenceOverflow` derive the rule on signs from the
  range check of the code.
- Bit counts: `LeadingZeros` needs no induction over the bits. The positions that the
  count runs over form an initial segment, because a word with a zero quotient by 2^k
  has one by every higher power (`PowerMonotone`), and the number of elements of an
  initial segment is where it ends (`InitialSegment`).
- Bytes: `Lane(w, k)` is byte `k` of a word. `LaneShift` and `LaneSplit` say what shifting
  by bytes and adding disjoint parts do to lanes, `MergeLow` and `MergeHigh` what the
  masks of the unaligned accesses keep, and `Digits` that loads put bytes together;
  `UnalignedPlaces` relates the lanes of the aligned word to addresses. `MemoryKept` says
  that nothing but stores and services writes memory, and `FpuStoreBytes` covers the two
  words of `sdc1`, which may wrap around or meet the device.

The exceptions in the statements are the device's: a word load of `GPU_INPUT` delivers
the key, a word store to `GPU_FLUSH` writes nothing, and `swl`/`swr` at `GPU_INPUT` merge
with the key (which they take) and write all four bytes of that word.

`WordLemmas` has the facts about words: that shifts, signed views, merges, loads,
stores and the operations of the instruction set stay in range, that quotients and
remainders are unique, that conversions inside a sum can be dropped, and the rules above.

### Device (`DeviceProofs`)

- `WindowLife`: `[]ReadyOnce`. `WindowInv` adds that a ready device has a window while
  the program runs, which `ReadyOnce` says only inside a flush.
- `KeyIsMostRecent`: `[]MostRecentKey`, inductive with the types.
- `KeysInOrder`: `[]ReportedInOrder`. `ReportedBefore` adds that what was reported is
  below what waits in the register; without it a key could be reported a second time.
- `RegisterRefinement`: `ImplementsRegister`, with `key` the value from before the flush
  while one is in progress; `FlushInv` says that what such a flush will leave is a step
  of `KeyRegister`.

### Debugger (`DebuggerProofs`)

- `SessionIsRun`: `ImplementsCpu`. `HaltedInv` says that `halted`, the debugger's own note,
  agrees with what `step_instruction` returned; it is what keeps `step` and `continue`
  from executing past the end.
- `SessionTypeCorrect`: `[]DebugTypeOK`.
- `BreakpointsRefinement`: `ImplementsBreakpoints`. `BreakpointsOK` says that the cells in use
  are different. Deleting one by moving the last into its place is the removal of an
  element only because of that.

### JIT (`JitProofs`, `JitRefinement`)

- `JitTypeCorrect`: `[]JitTypeOK`; `DelaySlotInterpreted`: `[]NoBlockInDelaySlot`;
  `StaleOnlyByStore`: `StaleByStore`
- `CoherentUnlessOverwritten`: `JitSpec /\ [][CodeUntouched]_allVars => []CacheCoherent`
- `CursorStaysInside`: `JitSpec /\ []ShortRuns => []CursorInside`
- `JitRefinesInterpreter`: `JitSpec /\ []ShortRuns /\ []CacheCoherent => ImplementsInterpreter`
- `UnmodifiedProgramsRefine`: the same from `[]ShortRuns` and `[][CodeUntouched]_allVars`

`JitInv` adds to the interpreter's invariant that cached blocks consist of instructions
the compiler accepts, at most `MAX_BLOCK` of them (`BlocksOK`), and that `pc` stays on the
block's first instruction with no branch pending until the dispatcher has control again
(`ModeOK`). `CompilingOK` and `RunningOK` say that the block being compiled or run is what
memory holds. `EmitRight` is the lemma about the emitter: for every compiled
instruction the emitted x86-64 sequence leaves the registers, `hi` and `lo` that the
interpreter computes, in at most 21 bytes. In `JitRefinement` the lemmas `Same...` identify
the instance of `Cpu` under `machine_pc` with `Cpu` itself, operator by operator, so that
interpreted steps map to themselves; `JitStepMaps` has the rest: compiling stutters, a
native step is the step of its instruction.

The hypotheses are conditions the code itself does not enforce. `CodeUntouched` excludes
programs that overwrite an instruction of a cached block: nothing invalidates blocks
(`EnterBlock`), and the `self_modify` run has such programs. `ShortRuns` is about
the program that runs, not about the constants: whenever `compile_block` works on a
block, the block with the instruction it is about to add, at 21 bytes each, fits in
the reserve. With the 8192 bytes of `jit.c` these are programs without a run of more
than 388 compilable instructions. Longer runs, up to the 1024 that a block may have, can
need 21535 bytes; that is the finding of `code_buffer`. The weaker hypothesis `[]CursorInside`
would not give the refinement: an emitter that writes outside the buffer may kill the
emulator with its cursor still where it was (`EmitOutside`). In the `jit` run the reserve
covers every block, so `ShortRuns` holds in all of its states.

### Loader (`LoaderProofs`)

- `ExitIsTold`: `[]ExitTells`, from `HeapInv`, which relates the heap to `elf` and `sp` at
  each place of `main` and the loader
- `NothingRunsAfterError`: `[]ErrorsStop`; `StartsOnItsFile`: `[]StartsOnImage`

Both rest on `LoadInv`. After `binary_or_elf` one of three things is the case: it gave up
(`fd = -1`), it read a flat file (`ReadFlat`) or an ELF header (`ReadElf`). In the first
case a load that goes on has an `elf` that nobody assigned, and then memory stays zero
because descriptor -1 delivers nothing. In the loop of `map_elf` the segments before
`seg` are inside the memory (`InBounds`), and each byte is what the last of them that
covers it has put there (`Written`), which becomes `ByteAt` when the loop ends; that
needs a segment to be copied whole (`WholeSegment`), so it is stated for files whose
segments each fit in one `pread` (`OneTransfer`). `NothingRunsAfterError` needs no such
condition. `HeapInv` has the same three cases (`Unread`, `Flat`, `Elf`).

### Debugger input (`ConsoleProofs`)

- `EveryCharacterOnce`: `[]InputOnce`
- `CommandsAreLines`: `[]CommandIsLine`

`SessionOK` has the types and which of the buffers can be in use where. `Apart` speaks of
all five places a character can be (with the debugger, in the current line of a
terminal, in readline's buffer, read ahead by stdio, with the program): each is in the
order of the input, what the debugger has is before what it will get, no two share a
character, and no character of a line is missing. `LineInv` is about the line being read:
at a terminal it comes whole from readline, which drops only `^D` (`TerminalLine`); at a
pipe everything taken after one of its characters is still read ahead or went to the
program (`PipeLine`). `LineInv` is inductive only with `Apart`: that nothing is missing
inside a line depends on nothing being lost on the way to it.

### Assumptions

`WidthAssumption` (at least one bit per byte; powers of two up to the word size, which is
arithmetic the prover does not do for a symbolic exponent), `PowerAssumption` (exponents
add: arithmetic as well), `BitwiseAssumption` (the bitwise operations of two words are
words), `MaskAssumption` (what `&` with a mask of low or of high bits and `|` of words
without a common bit are), `MachineAssumption` (types of the constants;
jump regions divide the memory), `SyscallAssumption` (types of the inputs, and the limit of
one `read`), `JitAssumption`, `DebuggerAssumption`, `DeviceAssumption`, `ConsoleAssumption`
(types of the sizes and bounds; a line starts with at least one byte), `LoaderAssumption`
(the memory has more than one word; types of the sizes, and of what `malloc` leaves) and `FileAssumption` (a file has a size and a table of
program headers, whose fields are unsigned). TLC evaluates them in every run.

### Only model-checked

- Liveness, which is beyond the prover: `DispatcherReturns`, `StepReturns`, `FlushReturns`,
  `LoadEnds`, `LineComes`.
- `FpuPairs` and `FpuBranches`: they follow a double through one program,
  and the values come from the coprocessor's arithmetic, of which the proofs assume only
  the type.
- `InputIsKey`, about the counters of one program. What it rests on,
  that a key is reported once and in order, is proved of the device (`KeysInOrder`,
  `RegisterRefinement`).

## Not modelled

- The encodings of `decode.h` (which bits mean which instruction) and with them
  `disasm.c`: `Decode` is any function. The disassembler formats one word and keeps
  no state. (`exec_immediate` executes every unknown `rt` of REGIMM as `bltz`, which the
  disassembler shows as unknown.)
- IEEE arithmetic: a parameter, see above.
- Output: what is printed or traced is not part of the state, so nothing is said
  about it. `logger.c` and `error.c` only format messages. (`-l` traces in `exec_inst`,
  so under `-j` the trace leaves out compiled instructions.)
- The pixels: the framebuffer is ordinary memory.
- Parsing of the debugger's numbers (`strtou32`) and commands; functions that nobody
  calls (`cstream_peek`, stream resets, `vec_reset`, `vec_cstring`).
- ELF files whose `e_phentsize` is not 32 or that end inside a program header.
- Readline's editing keys: a character is appended, or ends the line.

## Plan

Done: all components but the disassembler, trace and error messages; the runs above;
the proofs above. Of the 39 properties that the passing runs check, 31 are theorems. What
could come next: the field encodings of `decode.h` as a definition of `Decode`, which
`disasm.c` could then be compared with; the promises of `Instructions` for the coprocessor's
moves, loads and stores; and, for the JIT, a cache that notices overwritten code, should
the emulator get one.
