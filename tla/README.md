# A verification of the cm2 emulator

The emulator (`src/src`, C, about 2500 lines) runs a program on one of two
machines, the *taurus* (an RV32I processor with two ttys, a disk, a tile GPU) and
an *Intel 8080* with a tty, and shows the machine in an ncurses debugger with
breakpoints, a logger of cpu cycles and snapshots. This directory holds TLA+
models of it, the TLC runs that check them and the proofs TLAPS checks.

    tlc -config MCDebugger.cfg MCDebugger        # one run
    tlapm DebuggerProofs.tla                     # one module of proofs

PROJECT.json lists components, runs, mutants (small bugs, defined in the modules
as `Mutant:` operators; each makes its property fail), the source lines of every
definition, the hazards and the theorems.

## 1. The system

Everything runs in the one thread of `main()` (`main.c:64-78`). A turn of the main
loop is

    console_tick -> debug_console_tick -> sys_tick -> a batch of cpu_speed cpu_step()s

and a batch is left early when `cpu_running` becomes false. Nothing is preempted:
what interleaves are the key presses (which come at any `console_tick`), the guest
program (any program, in any state, at the batches), the commands of the user
(any, in any order, one a turn) and the end of the process (a crash, `exit`, a
signal; at any time). The stages share static variables, which is where
the hard behaviour is.

| component | state | operations | interacts with |
|---|---|---|---|
| console input, `console/console/console.c` | `iskbhit`, `ch`, `current_focused_window` | `console_tick` (a key, no key, ctrl-w), `console_window_kbhit`, `console_window_getch` | the debug console and the ttys take keys from it |
| windows, `console/console/window.c` | contents, cursors, dirty flags | `window_putc`, `window_puts`, `update_windows`, `update_window` | written by every component, copied to the screen by `console_tick` |
| debug console, `console/debug.c` | `buf`, `i`; strtok's position | the line editor, `handle_command`, the register window | calls all commands; reads the register iterator |
| breakpoints, `console/breakpoint.c` | `breakpoints`, `breakpoints_size` | `breakpoint_tick`; `break` pc/mem, rm, pop, step, continue, ls | stops and steps the CPU through `cpu_running` |
| cpu commands, `console/cpu.c` | `cpu_speed` | speed, jmp, rw | pc and registers of the CPU |
| cpu logger, `cpulog.c`, `console/logger.c` | `cpu_log`, the log file, snapshot files | init, toggle, flush, cycle, save, load | the register iterator; memory |
| main loop, `main.c` | `cpu_running`, `image` | the loop, `cpu_step` | everything |
| start-up, `main.c`, `*/arch.c` | the arguments | choice of the architecture, the image and the disk | disk, GPUs |
| register access, `emulator/arch.c`, `*/arch.c` | the static `i` of the iterator | `read_next_arch_register`, `write_named_arch_register` | shared by the register window, `cpu rw`, logger, snapshots |
| tty, `mmio/shared/tty.c` | `user_ascii`, `user_ready`, `tty_loc`, `tty_char` | tick; loads and stores of the guest, draw, clear | console input; guest; windows |
| disk, `mmio/taurus/disk.c` | `disk`, two latches, `disk_dump.bin` | loads and stores, the dump after every write | guest; a later run of the emulator |
| tile GPU, `mmio/taurus/tilegpu.c` | latches, `drawcalls`, `pop_index` | stores, tick | guest; raylib |
| sprite GPU, `mmio/taurus/spritegpu.c` | the same | the same; the bus never reaches it | |
| random byte, `mmio/taurus/rng.c` | none of its own | a load | guest |
| bus, `taurus/custom_bus.c` | none | routes loads and stores by address and width | all devices |
| RV32I, `taurus/rv32izicsr.c` | pc, mar, ir, registers | a step | bus, `cpu_running` |
| Intel 8080, `intel8080/*.c` | pc, mar, registers, flags | a step | bus |
| disassemblers, `arch/*.c` | none | an instruction to text: a second decoding of it | debug console |

What is hard about them, and the property that says it is right (PROJECT.json has
every hazard at its line):

* A key press waits in a static variable until the window with the focus asks for
  it, ctrl-w may move the focus first, and the tty's latch is overwritten whether
  or not the guest has read it, also between its two loads. *Keys go where they
  were typed, in order, and only overtaken keys are lost* (`KeysRouted`,
  `LatestKeyKept`, `NoPhantomKeys`, `KeysGetThrough`, `KeyboardPolledForever`).
* Slots of the breakpoint table are freed, reused and dropped, and `break rm` does
  not look whether a slot is occupied. *Commands do exactly what they say and the
  CPU stops only and always at live breakpoints* (`NothingHidden`, `SlotsReused`,
  `RmExact`, `AddExact`, `NoSpuriousStop`, `HitEndsBatch`).
* The register iterator is shared, and one of its readers stops half way. *Only the
  next to read it sees that: the first recorded cycle after a `cpu rw`, or else the
  register window of the next turn; commands and snapshots never do* (`LogExact`,
  `RegistersInPlace`, `SnapshotRoundTrip`).
* Every store rewrites the dump of the disk, and the process may end while it
  does. *Nothing is lost outside a dump, and a torn dump holds no bytes of
  two disks* (`DumpAgrees`, `ImplementsDurableDisk`).
* A DRAW is deferred and a CLEAR is not, the list is emptied in the middle of its
  own traversal and the index is static. *Every frame draws what was asked for,
  once and in order* (`ListBounded`, `ImplementsTileScreen`).
* Immediates are scattered over the word, and the bits of an `addi` may look like
  those of a `sub`; the debugger has its own copy of the decoding, which does not
  tell most immediate forms from those of registers. *Decoding is that of the
  manual, and the other forms are listed with the name and the operands of what is
  executed* (`ImmediatesExact`, `OperationExact`, `ListingExact`), *and step by step the processor is the manual's machine*
  (`ImplementsManual`): x0, signs, wrap-around, the end of the memory.
* A step of the 8080 runs through five switches with a goto into one of them, and
  loads bytes nobody asked for, where a load may take the flag of a key. *pc stays in
  step, the operations compute what numbers say, DAA does at once what the 8080 does
  in two steps, the stack gives back what it got, and a flag goes only to a program that
  sees it* (`PcInStep`, `AluExact`, `DecimalExact`, `PopRestores`, `FlagIsSeen`).
* Everything draws into the same windows: contents, a cursor that goes back and
  forth, and a flag that says whether the screen has to follow. *The command on the
  screen is the one that will be executed, no write is kept from the screen, every tty
  is a terminal of its own, and the views come to show a machine that rests, the
  registers unless a `cpu rw` keeps the iterator half way*
  (`LineOnScreen`, `ScreenUpToDate`, `ImplementsTerminal`, `ViewsCatchUp`).

## 2. The modules

Every module is a state machine of its own over the stages of the main loop that
touch its state; the stages that do not are stutters.

| module | models | proved in |
|---|---|---|
| `ConsoleInput` | console.c, the line editor of debug.c, the latch of tty.c, the main loop and a guest that polls | `ConsoleInputProofs` |
| `Debugger` | breakpoint.c, the commands that step and jump, the main loop, what a step does to pc, mar and `cpu_running` | `DebuggerProofs` |
| `CpuLog` | the register iterator, `cpu rw`, cpulog.c, logger.c and its files, the main loop | `CpuLogProofs` |
| `Disk`, abstract: `DurableDisk` | disk.c, the dump, crashes, restarts | `DiskProofs` |
| `TileGpu`, abstract: `TileScreen` | tilegpu.c and the main loop | `TileGpuProofs` |
| `Words` | C's unsigned arithmetic, and memory as bytes | `Intel8080Proofs` |
| `RV32IDecode` | fields, immediates and choice of the operation in rv32izicsr.c | `RV32IProofs` |
| `RV32IListing` | the decoding in the disassembler, arch/riscv.c | `RV32IProofs` |
| `RV32I`, abstract: `RV32IManual` | the step of rv32izicsr.c with registers and memory | `RV32IProofs` |
| `Intel8080` | the step of intel8080.c with memory, and the input of its tty | `Intel8080Proofs` |
| `Windows`, abstract: `Terminal` | window.c, what debug.c and the line editor show, the output of tty.c, all printed lines | `WindowsProofs` |

`MC*` modules and their cfg files are the instances for TLC.

### ConsoleInput

`phase` is the next stage. A key is `<<w, n>>`, the n-th one typed while window w
had the focus; nothing in the code looks at the character but for ctrl-w, enter and
backspace, which are alternatives of the actions. `console_tick` is `NoKey`
(getch() returns ERR into `ch` and leaves `iskbhit`, which is what makes the
missing TTY2 window of the 8080 interesting), `PressKey` or `CtrlW`.
`EnterCommand` keeps of every command only what it does to this module's state. A
batch is `BatchOther` and `BatchLoad(t)` steps, a load being of USER_READY
(`Poll`) or, once that was seen set, of USER_ASCII (`ReadAscii`).

The guest is one that polls: it loads the character of a tty once each time it saw
the tty ready. Redirecting it in the middle, with `cpu jmp` or `logger load`, is
not part of this module. The character that does not fit into the command
line overruns `buf`; the build has `-fsanitize=address`, so it is the end of the
process.

### Debugger

The program is a constant function from addresses to classes of instructions (all
the debugger can tell apart), drawn from `Programs`; a program does not write
itself, but `logger load` replaces it. An address holds one instruction. pc, `mar`
and the addresses of breakpoints are words (`WORDS`), wider than an address: `cpu
jmp` and `logger load` store what they are given, a step executes the instruction
at the low bits of pc and masks every pc it leaves (`Masked`). So pc is any word
before the first step of a batch and an address after it, and a breakpoint at an
address is not hit by a pc beyond the memory that executes the same instruction.
Only loads and stores change `mar`. `break <word> <address>` with a word that is
neither pc nor mem leaves the type of the breakpoint uninitialized: `Add` of either type.
`AllowDuplicates` says whether the user may place two breakpoints at one address:
what `break rm` does is right only if not, as the violated run shows. `break pop`
drops slots, free or occupied.

### CpuLog

`next` is the static `i` of `read_next_arch_register()`. A turn begins with
`registers_window_tick()`, which reads the iterator to its end, before the command
is handled, so a command starts from 0; `Drawn` is what it draws, from where the turn
before left the iterator, with the pc below the last register. `CpuRw` leaves the
iterator behind the register it finds, and `cpu_logger_cycle()`
stores registers by the order in which it reads them, up to the end. Two strtok()
calls stand among the arguments of one call in `cpu rw`, `logger save` and
`logger load`; C leaves their order open. `right_to_left` is chosen once, as the
compiler does. `OtherCommand` is every command that leaves the iterator alone, with
any effect on the machine: `break step` and `break continue` execute instructions
that are not recorded. Files are a state or a memory, or missing; loading a missing one
ends the process, one of the wrong kind loads anything. The log file and the
snapshot files have different names.

### Disk and DurableDisk

One byte of the dump is written per step, so a crash finds every length of it.
`fopen` truncates, `fwrite` may stop at any byte when the file system is full
(nobody looks), a crash loses the array and the latches and keeps the file, and
the next run starts from the dump, another image (shorter ones are filled up with
zeroes) or nothing. `foreign` and `short` are history: the run did not start from
the dump and has stored nothing yet; the last dump came up short.

`DurableDisk` is the promise: an array of bytes and a durable copy. A `Write`
changes the array at once; then `Copy` may leave the durable copy any mixture of
the array and zeroes until `Sync`, when all bytes are there or `short` is set.
The refinement mapping reads the file as the disk it loads as. It shows how weak
the promise is: a store that is interrupted may lose other bytes than its own.

### TileGpu and TileScreen

Between two ticks the guest makes at most `Budget` stores. `TileScreen` is a screen
and a list of requests that a `Frame` draws all at once. In the mapping, a tick that
has begun has drawn everything: its screen shows at each place what the last draw
call for it in the rest of the list shows, or what is there if none is
(`Finished(screen, Rest)`), and there are no requests. raylib is external:
`Draw` covers a place. The module is that of the builds with raylib; others have
no tile GPU.

### Words, RV32IDecode, RV32IListing, RV32I and RV32IManual

A word is the set of its bits, so that the masks and shifts of C are intersections
and translations, and a sum is that of an adder with carry lookahead: bit b of x + y
is set when an odd number of x's, y's and the carry are. The models compute nothing
with numbers, so all 32 bits are there, and the proofs are about them. `Number` is
the number a word stands for; that the adder adds, `Less` compares and so on is
proved for words of any width (section 4).

`RV32I` has an action for each case of the switch. `Fetch` loads the word at pc,
which may be at the end of the memory: `Overrun` is then what the sanitizer makes of
it. A byte load from a device returns any of `DeviceBytes`, any other load
goes to memory; a store to a device may reach memory (the ttys) or not (disk, GPU).
A misaligned load is zero and a misaligned store writes a word of zeroes first.
`LoadS16` is the unsigned handler (`rv32izicsr.h:25`). A shift by 32 or more is open
in C: it is modelled as what the shift instructions of the processors the emulator
runs on do with the count (`ShiftAmount`).

`RV32IManual` is the machine of the RISC-V manual: which bit of the word is bit b of
each immediate, what each operation is, and a state machine of one step per
instruction. Of words that are no encodings, misaligned accesses, devices, and a pc
outside the memory it says only that nothing but rd and the bytes at the
address may change. `Unsupported` names the operations in which the taurus
differs: SRA and LH. SYSTEM words but for EBREAK are no encodings here: the CSR
instructions are not part of it.

`RV32IListing` gives the name and the operands that `rv32i_instruction_to_str()`
prints, in the order of the text. `Assembled` and `Assembly` of `RV32I` are what the
assembler has for the instruction that is executed. They are the same for every
encoding but FENCE and the SYSTEM words, which the listing shows as a number, and
`OtherForm`: an immediate form other than `addi` and `xori` is listed under the
name of the register form and with rs2 in place of the immediate, and the `xor` of
registers as an `xori` of an immediate. A `sub` has its name, but an immediate for
rs2. A store has the address before the register here.

### Intel8080

An action per group of opcodes, with the groups of the five switches (`Low`, `Low4`).
Every instruction loads three bytes from pc on, whatever its length, and the M
operand whatever uses it; `Peek` returns what a load returns after the loads
`before` it, and `Loads` what all of them do to USER_READY. `PushWord` stores
after sp was moved, `Pop` loads before. The history `saved` remembers the last push
or call with the registers and flags at the time, until a store changes its two bytes.
`SysTick` is a key, latched between two batches; which window it is for is
ConsoleInput's. Unknown opcodes leave pc alone; HLT is executed as
`mov M,M`.

`AluExact` computes with numbers: sums and differences modulo 256, and for ANA, XRA and
ORA each binary digit (`BinaryDigit`, `OnDigits`); z, s, p and cy are those of that
result. `DecimalExact` says of DAA what it does for *every* A and flags: the two steps
of the 8080, six for the ones and then sixty for the tens that leaves. It does not say
that a sum of decimal digits becomes one again, because that is not so: ac is computed
from one operand twice, so after 08h + 01h it is set and DAA makes 0Fh; and of a
carry that was set before, as after 99h + 99h, it keeps nothing.

### Windows and Terminal

`content` is what was drawn into a window and `screen` what the terminal shows of it:
`update_windows()` copies the dirty ones, and draws the frame over their outermost
cells. The line editor is `Type`, `Backspace` and `Enter...`, on the cursor of the
debug window, which `window_puts()` shares with it. `Stop` is the line of a hit or an
EBREAK, during a batch or a command; `Report` one of a command. Commands have no text
here: what a command does to the windows is what matters. A command that ends the
process and does not say `exit` is not in this module. `half_way` is the register
iterator of CpuLog as far as the window sees it: `CpuRw` may leave it half way, a
recorded cycle takes it home again (`MachineChanges` in a batch), and otherwise the
next `DrawViews` draws the registers `Shifted`. `interrupted` and `erased` are
history: a batch printed while a command was being typed, and a tty was cleared
since it was last copied; both are cases in which the screen is rightly or wrongly
not what the properties say.

`Terminal` is what a guest may rely on: each tty a row of characters behind two
latches, shown from time to time as it is. The mapping reads the cells of the grid in
the order of their addresses.

## 3. The runs

| run | instance | result |
|---|---|---|
| `console_taurus` | ttys 0 and 1, 3 keys per window, `break step` up to 2, speeds 0 and 2, a command line of 2 | passes; 869 000 states |
| `console_8080` | tty 0 only, 3 keys per window, safety and, under `FairSpec`, liveness | passes; 95 000 states |
| `debugger` | a memory of 2 instructions, pc and breakpoints at 4 words, 3 programs with every class of instruction, 3 slots, pops and steps up to 3, no duplicates | passes; 353 000 states |
| `debugger_rm` | the same with duplicates, 2 slots | `RmFindsLive` is violated |
| `cpu_log` | 2 registers of 2 values, 3 recorded cycles, batches of 2 steps, no snapshots | passes; 1 830 000 states |
| `cpu_snapshot` | 2 registers, 2 memories, 2 files (symmetric), no log | passes; 478 000 states |
| `disk` | 3 bytes of 2 values, words wider than the latches, a full and a short image | passes; 3 900 states |
| `tile_gpu` | 2 places, 2 tiles, 5 stores a batch | passes; 6 700 states |
| `rv32i` | a memory of 16 bytes; first words of every opcode and funct3 with one other bit, or with all operands of four registers, bit 30 set or not; 0, -1, the smallest number and addresses in the registers; two instructions | passes; 22 200 states |
| `rv32i_sra` | the same | `SraShiftsSign` is violated |
| `intel8080` | a memory of 16 bytes; each of the 256 opcodes in six programs, registers and operands at 0, 1, 127, 128, 255 and at USER_READY; DAA of eleven sums with and without either carry; two keys; three instructions | passes; 19 100 states |
| `windows` | two ttys of 2 by 2, a debug window with two rows of three places inside its frame, a command line of 4, lines of one and of five characters, the cursor down to row 4, two pictures of the machine | passes; 160 000 states |

**Why the bounds are enough.** Every key needs at most one later key to overtake it
and one focus switch to be in the wrong window: three keys show a key that is
read, one that is overtaken between the two loads, and one that comes after. A
command line of one or two characters reaches its end. Three slots are one that is
free, one before and one behind it; three is also more than the 2 breakpoints
that a pop, a hit and a removal speak of. Two words of pc for each
instruction are an address and a pc beyond the memory that executes the same. Two
registers are the one `cpu rw` finds and the one behind it, and batches of two steps have a first and a later
cycle. Two files are the state and the memory, and may be swapped or the same. A
disk of three bytes has a first, a middle and a last one. Five stores make a frame of
several draws with changed latches and a CLEAR in between. A bit of an immediate is
one bit of the word: a word with one other bit shows every bit that is misplaced.
Arithmetic is exercised at the values where carries, borrows and signs change. Every
opcode of the 8080 comes first, last and between a push or a call and what takes it
back, and the loads of three instructions are enough for a flag to be taken and missed.
A debug window of two rows and three columns inside has a row below it (the cursor
goes one further), a line that ends in it, and a command that is longer than a row.

In `windows`, `MCNext` lets one of the two ttys, the text of the debug window and
the views be in use at a time, over and over in any order, and one character be
stored to the ttys: they share the stages and the dirty flags, which all go
on, and nothing else, and all of them at once are too many states. The
theorems about `Windows` have no such restriction.

The theorems remove these bounds from every property but the three of liveness.

Deadlock is checked in every passing run: a process that has ended, and a processor that
has executed its last instruction of the bound, stutter (`Terminated`).

**Fairness.** `ConsoleInput!FairSpec` has `WF_vars(Next)`: the main loop
never waits, as `nodelay(stdscr, TRUE)` makes getch() return at once.
`SF_vars(BatchLoad(t))` for every tty: the guest is a program that polls, with
finitely many other instructions between two loads. It may be in any other state at
the end of a batch, hence strong and not weak fairness. Without it, keys need
never be read, rightly. `KeysGetThrough` speaks of runs in which the CPU keeps
running from some point on. `Windows!Fairness` is weak fairness of the stages of the
main loop: `ConsoleTick`, any way `debug_console_tick()` goes, the end of a command
and the end of a batch, which both execute a number of instructions given before.
Nothing is asked of the guest or the user.

**Disagreements of the code and its documents**, each with a run:

* `break rm` with two breakpoints at one address may free a slot that is already
  free (`breakpoint.c:92`; README.md:27 of the repository).
* SRA and SRAI fill with ones for any operand, and from the wrong bit on
  (`rv32izicsr.c:135`; the comment at `rv32izicsr.c:134`, and README.md:2).

Others that were met and have no run: `break pop n` with n larger than the table wraps
`breakpoints_size` around and ends the process (`breakpoint.c:84`); the first cycle
recorded after a `cpu rw` of the same turn has its registers shifted
(`cpulog.c:36`; `LogExact` excepts it), or, if none is recorded, the register window
of the next turn has (`debug.c:51`; `RegistersInPlace` and `ViewsCatchUp` except it);
`cpu jmp` and `logger load` take a pc beyond the memory, where no breakpoint at the
address that is executed is hit (`taurus/arch.c:100`); the CSR instructions that "RV32IZicsr"
promises are executed as EBREAK (`rv32izicsr.c:144`); `cpu rw` can make x0 another
number than 0 (`taurus/arch.c:137`); the 8080's ac is computed from one operand
twice, so that DAA after 08h + 01h makes 0Fh, an operand of 255 with a carry counts as
0, and the carry DAA finds or sets is overwritten by that of its sum, so that 99h + 99h
loses its hundred (`intel8080.c:89, 143, 189`); a
hit prints into the row of a command that is being typed (`breakpoint.c:29`); a
clear of a tty is not shown before the next draw (`tty.c:73`); `break pop` drops a slot rather than the last
breakpoint (`breakpoint.c:84`); `break continue` does not get past an EBREAK
(`rv32izicsr.c:144`) and steps over a breakpoint at pc (`breakpoint.c:121`); a MEM
breakpoint is hit by instructions that access nothing, because mar stays
(`breakpoint.c:35`); `logger flush` writes what it wrote before
(`cpulog.c:26`); the disassembler prints `sub` with an immediate for rs2, the `xor` of
registers as an `xori` with an immediate, and slli, slti, sltiu, srli, srai, ori and
andi without the i and with a register for the immediate (`arch/riscv.c:112-144`;
`ListingExact` excepts them); LH does not extend the sign (`rv32izicsr.h:25`); the usage text and the count of
the arguments disagree (`main.c:45`, `taurus/arch.c:61-72`).

## 4. What is proved

All theorems hold for every value of the constants that satisfies the module's named
assumption, which says little more than that sizes are positive numbers.

**ConsoleInputProofs** (`TypeCorrect`, `KeysAreRouted`, `LatestKeyIsKept`,
`PhantomKeysNeverRead`). None of the three properties is inductive: that the guest
reads keys in order depends on what is latched, and that on what is pending. The
strengthening says of every place a key may be in (pending, latched, read) which
keys it may hold and in which order they are.

**DebuggerProofs** (`TypeCorrect`, `NothingIsHidden`, `SlotsAreReused`, `RmIsExact`,
`AddIsExact`, `StopsHaveReasons`, `HitsEndBatches`). `NothingHidden` is the invariant
the others need: a free slot before a live one has another address. It is kept by
`Add` because a breakpoint takes the first free slot, and the user adds none where
there is one. `SlotsReused` holds as the table grows only when all its
slots are alive. `RmExact` follows because the first slot with the address is
then the live one. `TypeCorrect` has a part of its own for the width of pc: a word
before a batch, an address within it.

**CpuLogProofs** (`TypeCorrect`, `LogIsExact`, `WindowInPlace`, `SnapshotsLoadBack`). The
invariant of the log and the window is `IteratorHome`: the iterator is half way only
in a turn that ran a `cpu rw`, up to the end of its first recorded cycle; the one of the snapshots is
`FilesHold`: a pair of names that holds a machine holds it in both files, each of
its kind, in the order the build evaluates the words.

**DiskProofs** (`TypeCorrect`, `DumpsAgree`, `DiskIsDurable`).
The invariant is that the file is a prefix of the disk while it is written. A
complete prefix loads as the disk, a shorter one as a torn copy of it; with that each
step of `Disk` is a step of `DurableDisk` or a stutter.

**TileGpuProofs** (`TypeCorrect`, `ListIsBounded`, `GpuIsScreen`). The list is as long as
the batch has made stores, at most, and a tick ends with it empty. For the
refinement, what the mapped screen shows is said of each place by its last draw call:
drawing the next call of the list, or emptying it at the end, leaves that as it is,
so a tick is one `Frame` followed by stutters. The invariant is `IndexHome`: the
static index is 0 outside a tick, so a tick starts with the whole list.

**RV32IProofs** (`TypeCorrect`, `ImmediatesAreExact`, `OperationIsExact`,
`ListingIsExact`, `TaurusIsRV32I`), of memories of any size, any program, any devices
and every word. Each immediate is a union of parts, and each part is compared with the
bits of the manual's table it stands for; the operations and the listing are a case
for each value of funct3, the listing for every encoding that is not `OtherForm`. The refinement has a lemma per action: the operands are those
of the manual (`Same...`), and then either the word is `Defined` and rd, the pc and
the bytes stored are the manual's, or it is not and only what may change does
(`RdFrame`, `MemFrame`). `TypeOK` is the only invariant it needs.

**Intel8080Proofs**, words and numbers (`PlusAdds`, `MinusSubtracts`, `LessCompares`,
`SignedLessCompares`, `SignExtendKeeps`, `ShiftsDouble`). `Number` reads a word from its
highest bit on, so each is an induction over the bits, with a set of widths or
positions in place of a predicate: one that holds 0 and is closed under the next
is all of them (`UpTo`). The carry of the adder is not a ripple but looks ahead;
`Ripple` says it is one, and then a bit of the sum adds the two bits and the
carry (`SumBit`). The theorems are about any width, and so about every sum,
comparison and address of `RV32I`, `RV32IManual` and `Intel8080`.

**Intel8080Proofs**, the arithmetic (`AluIsExact`, `DecimalsAreExact`). The code takes
carry and borrow from bit 8 of a sum: `NineBits` splits it into the sum of eight bits and
the carry out, which `PlusAdds` makes numbers of; the difference is the sum
with the complement and 1, of which at most one may carry. `DigitsOf` says that the
binary digits of the number in a byte are its bits, which gives the logical operations,
and `Ones` that they are as many as the byte has elements, which gives the parity.
`DigitsCorrected` is DAA on tens and ones: its one correction is the two of the 8080,
for every value and either carry.

**Intel8080Proofs**, the program counter (`PcStaysInStep`). The code groups opcodes by
masks, the table of the 8080 by numbers: `Groups`, `PairGroups` and `Numbers` say for each
group which numbers its opcodes are, by their octal digits. Each action then
goes on by `Length`, modulo 65536 (`GoesValue`), or leaves.

**Intel8080Proofs**, the stack and the flag (`TypeCorrect`, `StackIsKept`, `PopsRestore`,
`FlagsAreSeen`). What a pop returns depends on memory, which any store may have
changed: the invariant `StackHolds` says that the two bytes at `saved.at` are what was
saved. It is kept by a push because a word that fits is two different bytes and can be
loaded back (`StoreLoad`), and the flags come out of the PSW they are packed into
(`PswRoundTrip`). Only a pop may then pop (`OnlyPop`, `OnlyReturn`).

**WindowsProofs** (`TypeCorrect`, `LineIsOnScreen`, `ScreenIsUpToDate`,
`TtysAreTerminals`). The invariant `IInv` has four parts beside the types: the cursor is
one behind the end of the buffer and what lies left of it in the *contents* is
the buffer (`Line`); a command starts with an empty buffer (`Entered`), so that what it
prints overwrites nothing; a window that is not dirty is on the screen (`Fresh`); and
after `console_tick` none is dirty (`Clean`). Contents and screen agree only through
the last two, so neither property is inductive. The refinement rests on
`OnePlaceEach`: row and column of an address are those of no other, and inside the
frame.

Not provable here, and left to TLC: liveness (`KeyboardPolledForever`,
`KeysGetThrough`, `ViewsCatchUp`), which rests on fairness. The violated runs state
what does not hold. Everything else a run checks is a theorem.

## 5. What is not modelled

The text of commands, messages and numbers: commands are actions with values, so
the position of strtok() that `scale` picks up is not there either. Characters that
ncurses shows as several cells or none (control characters, tabs, a tty character
that was never stored), colours, `scale` and the raylib window. `break ls` and `help`
change nothing. `console/memprot.c` has empty functions. The sprite GPU's stores are
never called by the bus, so it never draws. A load of the random byte has no state
here. The map of the bus's addresses (which of them are whose) is a parameter
(`Devices`, `Tty`), not a model. The table of names of the 8080's disassembler is data.
A guest that writes its own program is in `RV32I` and `Intel8080`, not in `Debugger`.

## 6. Plan

1. *The bus* (`Bus`): which device gets which width of which address (the
   registers of the sprite GPU and of the second tty share addresses; stores to
   a tty reach memory as well), composed with `Disk`, `TileGpu` and the ttys.
2. *The command line* (`CommandLine`): the position of strtok() that a command leaves
   behind and `scale` picks up.
3. *Start-up*: argument counts against the usage text.
4. Proofs: that the step by classes in `Debugger` is a step of `RV32I`; the shifts by
   any count, and the rotations and counts of the 8080, against numbers.
