------------------------------- MODULE CpuLog -------------------------------
(***************************************************************************)
(* The register iterator shared by the register window, `cpu rw`, the cpu  *)
(* logger and the snapshots: read_next_arch_register() of taurus/arch.c    *)
(* and intel8080/arch.c, write_named_arch_register() of arch.c, cpulog.c,  *)
(* and the files the logger writes and reads.                              *)
(*                                                                         *)
(* The iterator is a static variable: a caller that stops half way leaves  *)
(* the next caller in the middle of the registers.  Whether that happens   *)
(* depends on the order of the stages of the main loop.                    *)
(***************************************************************************)
EXTENDS Integers, Sequences

CONSTANTS
  REGISTERS,   (* register_amount: 32 on the taurus, 13 on the 8080         *)
  Value,       (* what a register and the pc hold                           *)
  Image,       (* what the memory holds                                     *)
  File,        (* the names of snapshot files; the log goes to another one  *)
  cpu_speed,   (* steps in a batch                                          *)
  MaxLog,      (* the recorded cycles that fit into memory                  *)
  MaxFlush,    (* bound: cycles written to the log file                     *)
  Garbage,     (* uninitialized memory                                      *)
  None         (* no file, no snapshot                                      *)

Register == 0 .. REGISTERS - 1
Regs     == [Register -> Value]
Machine  == [pc : Value, regs : Regs, memory : Image]

\* What a logged cycle holds: a register may be one that was never written.
Cycle == [pc : Value, regs : [Register -> Value \cup {Garbage}]]

ASSUME CpuLogAssumption ==
  /\ REGISTERS \in Nat \ {0}
  /\ Value # {} /\ Garbage \notin Value
  /\ cpu_speed \in Int /\ MaxLog \in Nat /\ MaxFlush \in Nat

VARIABLES
  right_to_left,       \* the build: the order in which the two strtok() calls
                       \* among the arguments of one call are evaluated, which
                       \* C leaves open and gcc takes from the right
  alive, phase, i,     \* the main loop
  cpu_running,
  pc, regs, memory,    \* the selected CPU and its image
  next,                \* the static i of read_next_arch_register()
  enabled, cpu_log,    \* cpulog.c
  log_file,            \* what was written to the open log file, None before
  files,               \* the contents of the snapshot files
  cycles,              \* history: what each recorded cycle should hold
  rw,                  \* history: this turn of the main loop ran a `cpu rw`
  saved                \* history: the machine each pair of file names holds

machine == <<pc, regs, memory>>
log     == <<enabled, cpu_log, log_file, cycles>>
disk    == <<files, saved>>
vars    == <<right_to_left, alive, phase, i, cpu_running, machine, next, log,
             disk, rw>>

\* A file holds the state or the memory of a machine.
Contents == [kind : {"missing", "state", "memory"}, of : Machine]

TypeOK ==
  /\ right_to_left \in BOOLEAN
  /\ alive \in BOOLEAN /\ phase \in {"debug_console_tick", "batch"} /\ i \in Nat
  /\ cpu_running \in BOOLEAN
  /\ pc \in Value /\ regs \in Regs /\ memory \in Image
  /\ next \in 0 .. REGISTERS
  /\ enabled \in BOOLEAN /\ cpu_log \in Seq(Cycle) /\ log_file \in Seq(Cycle) \cup {None}
  /\ cycles \in Seq([pc : Value, regs : Regs, rw : BOOLEAN])
  /\ files \in [File -> Contents]
  /\ saved \in [File \X File -> Machine \cup {None}]
  /\ rw \in BOOLEAN

Init ==
  /\ right_to_left \in BOOLEAN
  /\ alive = TRUE /\ phase = "debug_console_tick" /\ i = 0
  /\ cpu_running = FALSE
  /\ pc \in Value /\ regs \in Regs /\ memory \in Image
  /\ next = 0
  /\ enabled = FALSE /\ cpu_log = << >> /\ log_file = None /\ cycles = << >>
  /\ files = [f \in File |-> [kind |-> "missing", of |-> CHOOSE m \in Machine : TRUE]]
  /\ saved = [p \in File \X File |-> None]
  /\ rw = FALSE

-----------------------------------------------------------------------------
(* debug.c: registers_window_tick() reads the iterator to its end before the *)
(* command of this turn is handled.                                          *)

\* What the iterator yields at place k, and the line of the pc behind it.
Line(k) == IF k < REGISTERS THEN [name |-> k, value |-> regs[k]]
                            ELSE [name |-> REGISTERS, value |-> pc]

\* The lines registers_window_tick() draws, from the top: those below, which a
\* shorter drawing does not reach, stay as they are.
Drawn == [l \in 0 .. REGISTERS - next |-> Line(next + l)]

\* Mutant: the window is not drawn, or drawn after the command.
NoWindowTick == next

registers_window_tick == 0

\* The iterator a command starts from.
start == registers_window_tick

DebugConsoleTick == alive /\ phase = "debug_console_tick"

\* The command returns; sys_tick and the batch of this turn follow.
Return ==
  /\ i' = 0
  /\ phase' = IF cpu_running' /\ cpu_speed > 0 THEN "batch" ELSE "debug_console_tick"
  /\ UNCHANGED <<right_to_left, alive>>

\* A command that does not touch the iterator.
NoRegisters == next' = start /\ rw' = FALSE

\* No command, or one that starts or stops the CPU; break step and break continue
\* execute instructions that are not recorded.
OtherCommand ==
  /\ DebugConsoleTick
  /\ pc' \in Value /\ regs' \in Regs /\ memory' \in Image
  /\ cpu_running' \in BOOLEAN
  /\ NoRegisters
  /\ UNCHANGED <<log, disk>>
  /\ Return

\* Mutant: the iterator steps before and after it reads.
AfterNext(r) == r + 2

\* Where the iterator is after it has read register r.
After(r) == r + 1

\* `cpu rw <value> <register>`: write_named_arch_register() leaves the iterator
\* behind the register it finds.  With the other order of evaluation the value
\* is taken for the name, no register is found and the iterator is at its end.
CpuRw(v, r) ==
  /\ DebugConsoleTick
  /\ IF right_to_left /\ start <= r
       THEN regs' = [regs EXCEPT ![r] = v] /\ next' = After(r)
       ELSE UNCHANGED regs /\ next' = 0
  /\ rw' = TRUE
  /\ UNCHANGED <<pc, memory, log, disk, cpu_running>>
  /\ Return

\* `cpu jmp <address>`
CpuJmp(v) ==
  /\ DebugConsoleTick
  /\ pc' = v
  /\ NoRegisters
  /\ UNCHANGED <<regs, memory, log, disk, cpu_running>>
  /\ Return

-----------------------------------------------------------------------------
(* cpulog.c *)

\* logger init <filename>: the file is truncated, what was recorded stays.
LoggerInit ==
  /\ DebugConsoleTick
  /\ log_file' = << >>
  /\ NoRegisters
  /\ UNCHANGED <<machine, enabled, cpu_log, cycles, disk, cpu_running>>
  /\ Return

LoggerToggle ==
  /\ DebugConsoleTick
  /\ enabled' = ~enabled
  /\ NoRegisters
  /\ UNCHANGED <<machine, cpu_log, log_file, cycles, disk, cpu_running>>
  /\ Return

\* logger flush writes all that was ever recorded, every time, and crashes
\* before `logger init`.
LoggerFlush ==
  /\ DebugConsoleTick
  /\ NoRegisters
  /\ UNCHANGED <<machine, enabled, cpu_log, cycles, disk, cpu_running>>
  /\ \/ /\ log_file # None
        /\ Len(log_file) + Len(cpu_log) <= MaxFlush
        /\ log_file' = log_file \o cpu_log
        /\ Return
     \/ log_file = None /\ alive' = FALSE
        /\ UNCHANGED <<right_to_left, log_file, phase, i>>

\* The files `logger save` and `logger load` take from their two words: the
\* first parameter is the state, and the last word is parsed first.
StateFile(w1, w2)  == IF right_to_left THEN w2 ELSE w1
MemoryFile(w1, w2) == IF right_to_left THEN w1 ELSE w2

\* Mutant: the state is loaded from the file of the memory.
MemoryAsState(w1, w2) == MemoryFile(w1, w2)

LoadFile(w1, w2) == StateFile(w1, w2)

\* What the iterator yields from position n on, stored by its id.
ById(n) == [r \in Register |-> IF n <= r THEN regs[r] ELSE Garbage]

Snapshot(n) == [pc |-> pc, regs |-> ById(n), memory |-> memory]

\* logger save: the state, then the memory, each to a file it truncates.
LoggerSave(w1, w2) ==
  LET s == StateFile(w1, w2)
      m == MemoryFile(w1, w2)
  IN /\ DebugConsoleTick
     /\ files' = [f \in File |->
                    IF f = m THEN [kind |-> "memory", of |-> Snapshot(start)]
                    ELSE IF f = s THEN [kind |-> "state", of |-> Snapshot(start)]
                    ELSE files[f]]
     /\ saved' = [p \in File \X File |->
                    IF p = <<w1, w2>> /\ w1 # w2 THEN Snapshot(0)
                    ELSE IF {p[1], p[2]} \cap {w1, w2} = {} THEN saved[p]
                    ELSE None]
     /\ next' = 0 /\ rw' = FALSE
     /\ UNCHANGED <<machine, log, cpu_running>>
     /\ Return

\* logger load: pc and registers, then the memory.  A file that is missing ends
\* the process; one of the wrong kind is read all the same.
LoggerLoad(w1, w2) ==
  LET s == files[LoadFile(w1, w2)]
      m == files[MemoryFile(w1, w2)]
  IN /\ DebugConsoleTick
     /\ \/ s.kind = "missing" /\ UNCHANGED <<pc, regs>>
        \/ s.kind = "state" /\ pc' = s.of.pc /\ regs' = s.of.regs
        \/ s.kind = "memory" /\ pc' \in Value /\ regs' \in Regs
     /\ IF "missing" \in {s.kind, m.kind} THEN UNCHANGED memory
        ELSE IF m.kind = "memory" THEN memory' = m.of.memory
        ELSE memory' \in Image
     /\ NoRegisters
     /\ UNCHANGED <<log, disk, cpu_running>>
     /\ IF "missing" \in {s.kind, m.kind} THEN alive' = FALSE /\ UNCHANGED <<right_to_left, phase, i>>
        ELSE Return

-----------------------------------------------------------------------------
(* main.c: a turn of the batch *)

\* Mutant: the cycle is recorded before the step.
BeforeStep(n) ==
  [r \in Register |-> IF n + r < REGISTERS THEN regs[n + r] ELSE Garbage]

\* What the iterator yields from position n on, stored by the order of reading.
ByOrder(n) ==
  [r \in Register |-> IF n + r < REGISTERS THEN regs'[n + r] ELSE Garbage]

\* cpu_logger_cycle(), after the step: it reads the iterator to its end.  The
\* log grows until srealloc() fails.
cpu_logger_cycle ==
  IF enabled /\ Len(cpu_log) < MaxLog
    THEN /\ cpu_log' = Append(cpu_log, [pc |-> pc', regs |-> ByOrder(next)])
         /\ cycles' = Append(cycles, [pc |-> pc', regs |-> regs', rw |-> rw /\ i = 0])
         /\ next' = 0
    ELSE UNCHANGED <<cpu_log, cycles, next>>

\* The CPU executes an instruction: it may change the pc, registers and memory,
\* and a breakpoint may stop it.
Batch ==
  /\ alive /\ phase = "batch"
  /\ pc' \in Value
  /\ regs' \in Regs
  /\ memory' \in Image
  /\ cpu_running' \in BOOLEAN
  /\ cpu_logger_cycle
  /\ alive' = ~(enabled /\ Len(cpu_log) = MaxLog)
  /\ i' = i + 1
  /\ phase' = IF cpu_running' /\ i' < cpu_speed THEN "batch" ELSE "debug_console_tick"
  /\ UNCHANGED <<right_to_left, enabled, log_file, disk, rw>>

Terminated == ~alive /\ UNCHANGED vars

Next ==
  \/ OtherCommand
  \/ \E v \in Value : CpuJmp(v) \/ \E r \in Register : CpuRw(v, r)
  \/ LoggerInit \/ LoggerToggle \/ LoggerFlush
  \/ \E w1, w2 \in File : LoggerSave(w1, w2) \/ LoggerLoad(w1, w2)
  \/ Batch
  \/ Terminated

Spec == Init /\ [][Next]_vars
-----------------------------------------------------------------------------
(* Properties *)

\* What each recorded cycle should hold.
Recorded(k) == [pc |-> cycles[k].pc, regs |-> cycles[k].regs]

\* A recorded cycle holds the registers as they were after it, in their places,
\* but for the first cycle after a `cpu rw` of the same turn: nobody else leaves
\* the shared iterator half way (cpulog.c:29-39, arch.c:23-33).
LogExact ==
  \A k \in 1 .. Len(cpu_log) : ~cycles[k].rw => cpu_log[k] = Recorded(k)

\* A snapshot that is loaded again gives back the machine it was saved from,
\* whatever was executed, written to registers or logged in between, and in
\* whatever order the words of the command are parsed (cpulog.c:41-97).
SnapshotRoundTrip ==
  [][\A w1, w2 \in File :
       saved[<<w1, w2>>] # None /\ LoggerLoad(w1, w2)
         => [pc |-> pc, regs |-> regs, memory |-> memory]' = saved[<<w1, w2>>]]_vars

\* The register window has a line for every register, in its place, and the pc
\* below them: the window draws from where the turn before left the iterator,
\* which is half way only if that turn ran a `cpu rw` and recorded no cycle
\* behind it (debug.c:48-58, arch.c:23-33, cpulog.c:29-39).
RegistersInPlace ==
  alive /\ phase = "debug_console_tick" /\ (rw => enabled /\ i > 0) =>
    Drawn = [l \in 0 .. REGISTERS |-> Line(l)]
=============================================================================
