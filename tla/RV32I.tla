------------------------------- MODULE RV32I -------------------------------
(***************************************************************************)
(* The processor of the taurus: RV32IZicsr_Step() of rv32izicsr.c, one     *)
(* action per case of its switch, with 32-bit registers and the memory     *)
(* behind custom_bus.c.  What the devices do is the part of their modules: *)
(* here a byte at one of their addresses loads as any, and a store may     *)
(* stay with the device or go on to memory.                                *)
(*                                                                         *)
(* RV32IManual is the reference.                                           *)
(***************************************************************************)
EXTENDS RV32IListing

CONSTANTS
  RAM_BITS,    (* 16: RV32IZicsr_RAM_MASK holds the bits below              *)
  Devices,     (* the addresses of devices                                  *)
  DeviceBytes, (* the bytes they load as                                    *)
  Machines,    (* what the debugger left: records of pc, regs and mem       *)
  MaxSteps     (* bound: instructions that are executed                     *)

Reg     == SUBSET (0 .. 4)
Byte    == SUBSET Bits(8)
Address == SUBSET Bits(RAM_BITS)

Machine == [pc : Word, regs : [Reg -> Word], mem : [Address -> Byte]]

ASSUME RV32IAssumption ==
  /\ RAM_BITS \in 2 .. 31 /\ MaxSteps \in Nat
  /\ Devices \subseteq Word /\ DeviceBytes \subseteq Byte
  /\ Machines \subseteq Machine

VARIABLES
  pc, regs, mem, ir, mar,
  cpu_running,
  ended,      \* an access left the memory: the process is gone
  steps       \* instructions so far

vars == <<pc, regs, mem, ir, mar, cpu_running, ended, steps>>

TypeOK ==
  /\ pc \in Word /\ ir \in Word /\ mar \in Word
  /\ regs \in [Reg -> Word] /\ mem \in [Address -> Byte]
  /\ cpu_running \in BOOLEAN /\ ended \in BOOLEAN
  /\ steps \in 0 .. MaxSteps

\* Any program in any state; the CPU runs, or the user steps it.
Init ==
  /\ \E m \in Machines : pc = m.pc /\ regs = m.regs /\ mem = m.mem
  /\ ir = {} /\ mar = {}
  /\ cpu_running \in BOOLEAN
  /\ ended = FALSE /\ steps = 0

-----------------------------------------------------------------------------
(* Memory *)

\* a & RV32IZicsr_RAM_MASK
Masked(a) == a \cap Bits(RAM_BITS)

LoadU(a, n) == LoadBytes(mem, Masked(a), n, RAM_BITS)

Store(m, a, n, v) == StoreBytes(m, Masked(a), n, v, RAM_BITS)

\* The word at pc.
Word32 == LoadU(pc, 4)

-----------------------------------------------------------------------------
(* The parts of every case *)

rs1val == regs[rs1(Word32)]
rs2val == regs[rs2(Word32)]

\* Mutant: x0 is a register like the others.
SetsX0(v) == regs' = [regs EXCEPT ![rd(Word32)] = v]

\* if (rd) REG(rd) = v
SetRd(v) == regs' = IF rd(Word32) = {} THEN regs ELSE [regs EXCEPT ![rd(Word32)] = v]

\* pc + imm
Target(base, imm) == Plus(base, imm, 32)

\* state->pc = pc & ~1 & RV32IZicsr_RAM_MASK
Goto(p) == pc' = Masked(p \ {0})

NextWord == Goto(Plus(pc, Num(4), 32))

\* The fetch; an opcode is a case of the switch.
Fetch(o) ==
  /\ ~ended /\ steps < MaxSteps
  /\ Fits(Masked(pc), 4, RAM_BITS)
  /\ opcode(Word32) \in o
  /\ ir' = Word32
  /\ steps' = steps + 1

Computes == UNCHANGED <<mem, mar, cpu_running, ended>>

-----------------------------------------------------------------------------
(* The cases *)

Lui == Fetch({LUI}) /\ SetRd(u_imm(Word32)) /\ NextWord /\ Computes

Auipc == Fetch({AUIPC}) /\ SetRd(Target(pc, u_imm(Word32))) /\ NextWord /\ Computes

Jal ==
  /\ Fetch({JAL})
  /\ SetRd(Plus(pc, Num(4), 32))
  /\ Goto(Target(pc, j_imm(Word32)))
  /\ Computes

\* rs1val was read before rd is written.
Jalr ==
  /\ Fetch({JALR})
  /\ SetRd(Plus(pc, Num(4), 32))
  /\ Goto(Target(rs1val, i_imm(Word32)))
  /\ Computes

Taken(op) ==
  \/ op = "eq"  /\ rs1val = rs2val
  \/ op = "ne"  /\ rs1val # rs2val
  \/ op = "lt"  /\ SignedLess(rs1val, rs2val, 32)
  \/ op = "ge"  /\ ~SignedLess(rs1val, rs2val, 32)
  \/ op = "ltu" /\ Less(rs1val, rs2val, 32)
  \/ op = "geu" /\ ~Less(rs1val, rs2val, 32)

\* pc + 4 + b_imm - 4
Branch ==
  /\ Fetch({BRANCH})
  /\ IF Taken(BranchOp(funct3(Word32))) THEN Goto(Target(pc, b_imm(Word32))) ELSE NextWord
  /\ UNCHANGED regs /\ Computes

LoadAddr  == Plus(rs1val, i_imm(Word32), 32)
StoreAddr == Plus(rs1val, s_imm(Word32), 32)

Misaligned(a, op) ==
  \/ op \in {"lh", "lhu", "sh"} /\ 0 \in a
  \/ op \in {"lw", "sw"} /\ a \cap {0, 1} # {}

\* What a load from memory returns.  LoadS16 is the unsigned handler.
Loaded(op, a) ==
  CASE Misaligned(a, op)    -> {}
    [] op = "lb"            -> SignExtend(LoadU(a, 1), 8, 32)
    [] op = "lbu"           -> LoadU(a, 1)
    [] op \in {"lh", "lhu"} /\ ~Misaligned(a, op) -> LoadU(a, 2)
    [] op = "lw" /\ ~Misaligned(a, op)            -> LoadU(a, 4)

\* Only byte loads reach a device; its byte is not extended.
FromDevice(op, a) == a \in Devices /\ op \in {"lb", "lbu"}

Load ==
  LET op == LoadOp(funct3(Word32))
  IN /\ Fetch({LOAD})
     /\ mar' = LoadAddr
     /\ \/ op = "none" /\ UNCHANGED regs
        \/ op # "none" /\ ~FromDevice(op, LoadAddr) /\ SetRd(Loaded(op, LoadAddr))
        \/ FromDevice(op, LoadAddr) /\ \E v \in DeviceBytes : SetRd(v)
     /\ NextWord
     /\ UNCHANGED <<mem, cpu_running, ended>>

Width(op) == CASE op = "sb" -> 1 [] op = "sh" -> 2 [] op = "sw" -> 4

\* A misaligned store writes a word of zeroes first.
Zeroed(op, a) == IF Misaligned(a, op) THEN Store(mem, a, 4, {}) ELSE mem

Leaves(op, a) == Misaligned(a, op) /\ ~Fits(Masked(a), 4, RAM_BITS)

Stored(op, a, v) ==
  \/ mem' = Store(Zeroed(op, a), a, Width(op), v)
  \/ a \in Devices /\ op \in {"sb", "sh"} /\ mem' = Zeroed(op, a)

StoreMem ==
  LET op == StoreOp(funct3(Word32))
  IN /\ Fetch({STORE})
     /\ mar' = StoreAddr
     /\ \/ op = "none" /\ UNCHANGED mem
        \/ op # "none" /\ ~Leaves(op, StoreAddr) /\ Stored(op, StoreAddr, rs2val)
     /\ NextWord
     /\ UNCHANGED <<regs, cpu_running, ended>>

\* The low five bits of y: how far the shift instructions of x86 and ARM shift
\* when C leaves it open.
ShiftAmount(y) ==
  LET weight(b) == IF b \in y THEN 2 ^ b ELSE 0
  IN weight(0) + weight(1) + weight(2) + weight(3) + weight(4)

Flag(p) == IF p THEN {0} ELSE {}

\* SRA is an or with ~0U << k.
Value(op, x, y, k) ==
  CASE op = "add"  -> Plus(x, y, 32)
    [] op = "sub"  -> Minus(x, y, 32)
    [] op = "sll"  -> Shl(x, k, 32)
    [] op = "slt"  -> Flag(SignedLess(x, y, 32))
    [] op = "sltu" -> Flag(Less(x, y, 32))
    [] op = "xor"  -> Xor(x, y)
    [] op = "srl"  -> Shr(x, k)
    [] op = "sra"  -> Shr(x, k) \cup (k .. 31)
    [] op = "or"   -> x \cup y
    [] op = "and"  -> x \cap y

\* uint32_t s2
Second(o) == IF o = ARITHI THEN i_imm(Word32) ELSE rs2val

shamt == Shr(Word32, 20) \cap (0 .. 4)

Arith ==
  LET o == opcode(Word32)
      s2 == Second(o)
      k == ShiftAmount(IF o = ARITHI THEN shamt ELSE s2)
  IN /\ Fetch({ARITHI, ARITH})
     /\ SetRd(Value(ArithOp(Word32), rs1val, s2, k))
     /\ NextWord /\ Computes

\* Every word of this opcode, the CSR instructions as well.
Ebreak ==
  /\ Fetch({SYSTEM})
  /\ cpu_running' = FALSE
  /\ Goto(pc)
  /\ UNCHANGED <<regs, mem, mar, ended>>

Opcodes == {LUI, AUIPC, JAL, JALR, BRANCH, LOAD, STORE, ARITHI, ARITH, SYSTEM}

Default ==
  /\ Fetch({opcode(Word32)} \ Opcodes)
  /\ NextWord
  /\ UNCHANGED regs /\ Computes

\* The sanitizer ends the process at an access behind the memory.
Overrun ==
  /\ ~ended /\ steps < MaxSteps
  /\ \/ ~Fits(Masked(pc), 4, RAM_BITS)
     \/ opcode(Word32) = STORE /\ Leaves(StoreOp(funct3(Word32)), StoreAddr)
  /\ ended' = TRUE
  /\ UNCHANGED <<pc, regs, mem, ir, mar, cpu_running, steps>>

\* The bound, or the end of the process.
Terminated == (ended \/ steps = MaxSteps) /\ UNCHANGED vars

Next ==
  \/ Lui \/ Auipc \/ Jal \/ Jalr \/ Branch
  \/ Load \/ StoreMem \/ Arith \/ Ebreak \/ Default
  \/ Overrun \/ Terminated

Spec == Init /\ [][Next]_vars
-----------------------------------------------------------------------------
(* Properties *)

\* The operations that differ from the manual's.
Manual == INSTANCE RV32IManual WITH
  RamBits <- RAM_BITS, halted <- ended, Unsupported <- {"sra", "lh"}, Mmio <- Devices

\* The immediates of rv32izicsr.c, put together from scattered bits, are those
\* of the manual's formats.
ImmediatesExact ==
  /\ j_imm(ir) = Manual!ImmJ(ir) /\ i_imm(ir) = Manual!ImmI(ir)
  /\ b_imm(ir) = Manual!ImmB(ir) /\ s_imm(ir) = Manual!ImmS(ir)

\* The chain of ifs finds the manual's operation for every encoding of one: bit 30
\* makes a `sub` or `sra`, but not of an `addi`.
OperationExact ==
  Manual!Encodes(ir) /\ opcode(ir) \in {ARITH, ARITHI} => ArithOp(ir) = Manual!ManualOp(ir)

\* The assembler's name of what RV32IZicsr_Step() executes.
ImmediateForm ==
  [add |-> "addi", slt |-> "slti", sltu |-> "sltiu", xor |-> "xori", or |-> "ori",
   and |-> "andi", sll |-> "slli", srl |-> "srli", sra |-> "srai"]

BranchForm ==
  [eq |-> "beq", ne |-> "bne", lt |-> "blt", ge |-> "bge", ltu |-> "bltu", geu |-> "bgeu"]

Assembled(w) ==
  CASE opcode(w) = ARITHI -> ImmediateForm[Executed(w)]
    [] opcode(w) = BRANCH -> BranchForm[Executed(w)]
    [] OTHER              -> Executed(w)

\* Its operands, in the manual's immediates; a store has the address first here.
Assembly(w) ==
  LET o  == opcode(w)
      d  == RegOperand(rd(w))
      s1 == RegOperand(rs1(w))
      s2 == RegOperand(rs2(w))
  IN CASE o \in {LUI, AUIPC}   -> <<d, ImmOperand(Manual!ImmU(w))>>
       [] o = JAL              -> <<d, ImmOperand(Manual!ImmJ(w))>>
       [] o \in {JALR, ARITHI} -> <<d, s1, ImmOperand(Manual!ImmI(w))>>
       [] o = LOAD             -> <<d, ImmOperand(Manual!ImmI(w)), s1>>
       [] o = BRANCH           -> <<s1, s2, ImmOperand(Manual!ImmB(w))>>
       [] o = STORE            -> <<ImmOperand(Manual!ImmS(w)), s1, s2>>
       [] o = ARITH            -> <<d, s1, s2>>

\* Where the listing departs: an immediate form other than `addi` and `xori` is
\* listed as if it were of registers, an `xor` of registers as an `xori`.
OtherForm(w) ==
  \/ opcode(w) = ARITHI /\ funct3(w) \notin {Num(0), Num(4)}
  \/ opcode(w) = ARITH /\ funct3(w) = Num(4)

\* The debugger lists the instruction that is executed, in the assembler's name and
\* with its operands in order, for every encoding of one but fence, ebreak and
\* OtherForm; of a `sub` the name, not the operand that it prints for rs2.
ListingExact ==
  Manual!Encodes(ir) /\ opcode(ir) \notin {SYSTEM, Manual!FENCE} /\ ~OtherForm(ir) =>
    /\ Mnemonic(ir) = Assembled(ir)
    /\ Mnemonic(ir) # "sub" => Operands(ir) = Assembly(ir)

\* Step by step, the taurus is the machine of the manual.
ImplementsManual == Manual!Spec

\* rv32izicsr.c:134 calls it SRA: the sign is what is shifted in.
Full == INSTANCE RV32IManual WITH
  RamBits <- RAM_BITS, halted <- ended, Unsupported <- {"lh"}, Mmio <- Devices

SraShiftsSign == Full!Spec
=============================================================================
