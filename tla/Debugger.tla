------------------------------ MODULE Debugger ------------------------------
(***************************************************************************)
(* The breakpoint table of breakpoint.c and the commands that stop, step   *)
(* and continue the CPU, composed with the main loop of main.c and with    *)
(* what a step of the CPU does to the registers the debugger looks at: pc, *)
(* mar and cpu_running.  All of it runs in one thread; `phase` says what   *)
(* runs next: a command of the debugger, the rest of a `break step`, or    *)
(* the rest of a batch of cpu_speed steps.                                 *)
(***************************************************************************)
EXTENDS Integers, Sequences, FiniteSets

CONSTANTS
  RAM_SIZE,         (* the addresses are 0 .. RAM_SIZE - 1, one word each   *)
  WORDS,            (* what pc, mar and a typed address can hold: 32 bits   *)
                    (* on Taurus; the pc of the 8080 has 16, its RAM_SIZE   *)
  Programs,         (* the memory images to run                             *)
  cpu_speed,        (* steps in a batch                                     *)
  MaxSlots,         (* bound: slots of the table                            *)
  MaxArg,           (* bound: the argument of `break pop`, `break step`     *)
  AllowDuplicates   (* FALSE: the user adds no breakpoint at an address     *)
                    (* that has one                                         *)

Address == 0 .. RAM_SIZE - 1
Word    == 0 .. WORDS - 1

\* What a step of the CPU does to pc, mar and cpu_running depends on these
\* classes of instructions; target is where a jump goes, or what a load or a
\* store accesses.
Instruction ==
  [op : {"arith", "memory", "jump", "branch", "ebreak"}, target : Word]

Type       == {"PC", "MEM"}
Breakpoint == [type : Type, address : Word]
Slot       == [type : Type, address : Word, occupied : BOOLEAN]

ASSUME DebuggerAssumption ==
  /\ RAM_SIZE \in Nat \ {0}
  /\ WORDS \in Nat /\ RAM_SIZE <= WORDS /\ WORDS % RAM_SIZE = 0
  /\ Programs \subseteq [Address -> Instruction]
  /\ cpu_speed \in Int
  /\ MaxSlots \in Nat /\ MaxArg \in Nat
  /\ AllowDuplicates \in BOOLEAN

VARIABLES
  alive,         \* FALSE once the process has exited or aborted
  phase,         \* what runs next
  i,             \* steps done in the batch, or left of a `break step`
  cpu_running,   \* main.c
  breakpoints,   \* breakpoint.c: the slots; Len is breakpoints_size
  pc, mar, image,
  high           \* history: the most breakpoints that were alive at once

cpu     == <<pc, mar, image>>
control == <<phase, i, cpu_running>>
vars    == <<alive, control, breakpoints, cpu, high>>

Phases == {"command", "break_step", "batch"}

\* pc is an address only once a step has masked it: `cpu jmp` and `logger load`
\* store any word.
TypeOK ==
  /\ alive \in BOOLEAN
  /\ phase \in Phases
  /\ i \in Nat /\ (phase = "break_step" => i > 0)
  /\ cpu_running \in BOOLEAN
  /\ breakpoints \in Seq(Slot)
  /\ pc \in Word /\ mar \in Word
  /\ phase = "batch" /\ i > 0 => pc \in Address
  /\ image \in [Address -> Instruction]
  /\ high \in Nat

Init ==
  /\ alive = TRUE /\ phase = "command" /\ i = 0
  /\ cpu_running = FALSE
  /\ breakpoints = << >>
  /\ pc = 0 /\ mar = 0 /\ image \in Programs
  /\ high = 0

-----------------------------------------------------------------------------
(* The table *)

Slots == 1 .. Len(breakpoints)

Occupied == {k \in Slots : breakpoints[k].occupied}

\* Mutants: no slot is ever reused; a slot is reused before it is free.
AppendOnly == {}
ReuseAny   == Slots

Free == Slots \ Occupied

First(S) == {k \in S : \A j \in S : k <= j}

\* The breakpoint in a slot.
At(k) == [type |-> breakpoints[k].type, address |-> breakpoints[k].address]

Live == {At(k) : k \in Occupied}

SlotOf(b, occupied) ==
  [type |-> b.type, address |-> b.address, occupied |-> occupied]

\* breakpoint_cmd(): the first free slot is reused, or a slot is added.
Put(b) ==
  \/ \E k \in First(Free) : breakpoints' = [breakpoints EXCEPT ![k] = SlotOf(b, TRUE)]
  \/ /\ Free = {}
     /\ breakpoints' = Append(breakpoints, SlotOf(b, TRUE))

\* Mutant: the last match instead of the first.
LastMatch(a) ==
  {k \in Slots : breakpoints[k].address = a
                 /\ \A j \in Slots : breakpoints[j].address = a => j <= k}

\* breakpoint_rm_cmd() frees the first slot with that address, and does not
\* look whether the slot is occupied.
Match(a) == First({k \in Slots : breakpoints[k].address = a})

-----------------------------------------------------------------------------
(* A step of the CPU *)

\* Mutant: free slots are compared as well.
HitAnySlot ==
  {k \in Slots : IF breakpoints[k].type = "PC" THEN pc = breakpoints[k].address
                                               ELSE mar = breakpoints[k].address}

\* breakpoint_tick(): the breakpoints that hit, before the instruction at pc is
\* executed.  mar is what the last load or store left there.
Hits ==
  {k \in Occupied : IF breakpoints[k].type = "PC" THEN pc = breakpoints[k].address
                                                  ELSE mar = breakpoints[k].address}

\* Mutant: a step leaves pc as wide as it is.
NoMask(a) == a % WORDS

\* Where a word points to in the memory.
Masked(a) == a % RAM_SIZE

\* The instruction a step executes.
ir == image[pc % RAM_SIZE]

\* RV32IZicsr_Step() masks every pc it leaves; EBREAK stops the CPU and leaves
\* pc where it is.  mar keeps all of its bits.
step ==
  /\ \/ ir.op \in {"jump", "branch"} /\ pc' = Masked(ir.target)
     \/ ir.op \in {"arith", "memory", "branch"} /\ pc' = Masked(pc + 1)
     \/ ir.op = "ebreak" /\ pc' = Masked(pc)
  /\ mar' = IF ir.op = "memory" THEN ir.target ELSE mar
  /\ UNCHANGED image

\* Mutant: a breakpoint does not stop the CPU.
RunsThrough == cpu_running /\ ir.op # "ebreak"

\* cpu_running after cpu_step(): the tick looks at the breakpoints only while
\* the CPU runs, and does not keep the instruction from being executed.
RunsOn == cpu_running /\ Hits = {} /\ ir.op # "ebreak"

-----------------------------------------------------------------------------
(* The commands of the debugger, entered between two batches *)

Command == alive /\ phase = "command"

\* sys_tick follows the command, and a batch when the CPU runs.
EnterBatch ==
  /\ i' = 0
  /\ phase' = IF cpu_running' /\ cpu_speed > 0 THEN "batch" ELSE "command"

NoCommand ==
  /\ Command
  /\ UNCHANGED <<alive, cpu_running, breakpoints, cpu, high>>
  /\ EnterBatch

\* break <type> <address>.  The address may be a number, pc or ia (mar); a word
\* that is neither pc nor mem leaves the type uninitialized, which adds either.
Add(b) ==
  /\ Command
  /\ AllowDuplicates \/ \A k \in Occupied : breakpoints[k].address # b.address
  /\ Len(breakpoints) < MaxSlots
  /\ Put(b)
  /\ high' = IF high < Cardinality(Occupied') THEN Cardinality(Occupied') ELSE high
  /\ UNCHANGED <<alive, cpu_running, cpu>>
  /\ EnterBatch

\* break rm <address>
Rm(a) ==
  /\ Command
  /\ \/ \E k \in Match(a) :
          breakpoints' = [breakpoints EXCEPT ![k] = SlotOf(breakpoints[k], FALSE)]
     \/ Match(a) = {} /\ UNCHANGED breakpoints
  /\ UNCHANGED <<alive, cpu_running, cpu, high>>
  /\ EnterBatch

\* The slots break pop <n> leaves; they go whether or not they are occupied.
Popped(n) == SubSeq(breakpoints, 1, Len(breakpoints) - n)

\* break pop, break pop <n>, break pop all.  An n that is larger than the table
\* makes breakpoints_size wrap around, and the realloc that follows ends the
\* process; only an empty table is caught.
Pop(n) ==
  /\ Command
  /\ UNCHANGED <<cpu_running, cpu, high>>
  /\ \/ /\ n <= Len(breakpoints) \/ breakpoints = << >>
        /\ breakpoints' = IF breakpoints = << >> THEN << >> ELSE Popped(n)
        /\ EnterBatch
        /\ UNCHANGED alive
     \/ /\ n > Len(breakpoints) /\ breakpoints # << >>
        /\ alive' = FALSE
        /\ breakpoints' = << >>
        /\ UNCHANGED <<phase, i>>

PopAll ==
  /\ Command
  /\ breakpoints' = << >>
  /\ UNCHANGED <<alive, cpu_running, cpu, high>>
  /\ EnterBatch

\* break step <n> runs its steps inside the command.
StartStep(n) ==
  /\ Command
  /\ UNCHANGED <<alive, cpu_running, breakpoints, cpu, high>>
  /\ IF n = 0 THEN EnterBatch ELSE i' = n /\ phase' = "break_step"

BreakStep ==
  /\ alive /\ phase = "break_step"
  /\ step
  /\ cpu_running' = RunsOn
  /\ IF i > 1 THEN i' = i - 1 /\ UNCHANGED phase ELSE EnterBatch
  /\ UNCHANGED <<alive, breakpoints, high>>

\* break continue: a step, after which the CPU runs, whatever the step found.
BreakContinue ==
  /\ Command
  /\ step
  /\ cpu_running' = TRUE
  /\ UNCHANGED <<alive, breakpoints, high>>
  /\ EnterBatch

\* cpu jmp <address>, masked by nothing
Jump(a) ==
  /\ Command
  /\ pc' = a
  /\ UNCHANGED <<alive, cpu_running, breakpoints, mar, image, high>>
  /\ EnterBatch

\* logger load: a new image and the pc of the file, masked by nothing; mar stays.
LoadSnapshot ==
  /\ Command
  /\ image' \in Programs /\ pc' \in Word
  /\ UNCHANGED <<alive, cpu_running, breakpoints, mar, high>>
  /\ EnterBatch

\* exit, or a command without the words it needs: strcmp(NULL) is a crash.
Exit ==
  /\ Command
  /\ alive' = FALSE
  /\ UNCHANGED <<control, breakpoints, cpu, high>>

-----------------------------------------------------------------------------
(* main.c: one turn of the batch *)

Batch ==
  /\ alive /\ phase = "batch"
  /\ step
  /\ cpu_running' = RunsOn
  /\ i' = i + 1
  /\ phase' = IF cpu_running' /\ i' < cpu_speed THEN "batch" ELSE "command"
  /\ UNCHANGED <<alive, breakpoints, high>>

Terminated == ~alive /\ UNCHANGED vars

Next ==
  \/ NoCommand
  \/ \E b \in Breakpoint : Add(b)
  \/ \E a \in Word : Rm(a) \/ Jump(a)
  \/ \E n \in 0 .. MaxArg : Pop(n) \/ StartStep(n)
  \/ PopAll
  \/ BreakStep \/ BreakContinue
  \/ LoadSnapshot
  \/ Exit
  \/ Batch
  \/ Terminated

Spec == Init /\ [][Next]_vars
-----------------------------------------------------------------------------
(* Properties *)

\* No free slot hides a live breakpoint from `break rm`, which stops at the
\* first slot with the address (breakpoint.c:90-99): true as long as the user
\* never has two breakpoints at one address, because a slot is reused before
\* the table grows.
NothingHidden ==
  ~AllowDuplicates =>
    \A k \in Occupied : \A j \in Slots :
      j < k => breakpoints[j].address # breakpoints[k].address

\* The table is never longer than the most breakpoints that were alive at once:
\* adding and removing breakpoints for ever does not grow it
\* (breakpoint.c:58-66).
SlotsReused == Len(breakpoints) <= high

\* break rm takes away the breakpoint with that address and no other one
\* (breakpoint.c:90-99), whatever was added, removed and popped before.
RmExact ==
  [][\A a \in Word : Rm(a) => Live' = {b \in Live : b.address # a}]_vars

\* A breakpoint that is added takes the place of no other (breakpoint.c:56-66).
AddExact == [][\A b \in Breakpoint : Add(b) => Live' = Live \cup {b}]_vars

AtBreakpoint ==
  \E b \in Live : IF b.type = "PC" THEN pc = b.address ELSE mar = b.address

\* The CPU stops by itself only at a breakpoint the user still has, or at an
\* EBREAK: one that was removed stays silent while its slot waits to be reused
\* (breakpoint.c:25-39).
NoSpuriousStop ==
  [][cpu_running /\ ~cpu_running' => AtBreakpoint \/ ir.op = "ebreak"]_vars

\* A breakpoint ends the batch it is met in, after the instruction at pc, and
\* nothing but `break continue` makes the CPU run again (main.c:70-76).
HitEndsBatch ==
  [][/\ phase = "batch" /\ AtBreakpoint => phase' = "command" /\ ~cpu_running'
     /\ ~cpu_running /\ cpu_running' => BreakContinue]_vars

-----------------------------------------------------------------------------
(* What the README and the messages of the debugger say, and the code does   *)
(* not do.                                                                   *)

\* README.md:27: `break rm <address>` removes the breakpoint with that address.
RmFindsLive == \A b \in Live : Match(b.address) \subseteq Occupied
=============================================================================
