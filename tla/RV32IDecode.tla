---------------------------- MODULE RV32IDecode ----------------------------
(***************************************************************************)
(* How the taurus takes an instruction apart: the fields, the immediates   *)
(* and the choice of the operation in RV32IZicsr_Step(), rv32izicsr.c.     *)
(***************************************************************************)
EXTENDS Words

Bit  == Bits(32)
Word == SUBSET Bit

-----------------------------------------------------------------------------
(* Fields.  0x1f, 0x7 and 0x7f are the masks 0 .. 4, 0 .. 2 and 0 .. 6. *)

\* (w & (1 << b)) ? mask : 0
IfBit(w, b, mask) == IF b \in w THEN mask ELSE {}

opcode(w) == w \cap (0 .. 6)
funct3(w) == Shr(w, 12) \cap (0 .. 2)
funct7(w) == Shr(w, 25) \cap (0 .. 6)
rd(w)     == Shr(w, 7) \cap (0 .. 4)
rs1(w)    == Shr(w, 15) \cap (0 .. 4)
rs2(w)    == Shr(w, 20) \cap (0 .. 4)

LUI    == {0, 1, 2, 4, 5}
AUIPC  == {0, 1, 2, 4}
JAL    == {0, 1, 2, 3, 5, 6}
JALR   == {0, 1, 2, 5, 6}
BRANCH == {0, 1, 5, 6}
LOAD   == {0, 1}
STORE  == {0, 1, 5}
ARITHI == {0, 1, 4}
ARITH  == {0, 1, 4, 5}
SYSTEM == {0, 1, 4, 5, 6}

-----------------------------------------------------------------------------
(* The immediates *)

u_imm(w) == w \cap (12 .. 31)

\* Mutant: the bits of the field are one place too low.
JImmLow(w) ==
  IfBit(w, 31, 20 .. 31) \cup IfBit(w, 20, {11})
    \cup Shr(w \cap (21 .. 30), 21) \cup (w \cap (12 .. 19))

j_imm(w) ==
  IfBit(w, 31, 20 .. 31) \cup IfBit(w, 20, {11})
    \cup Shr(w \cap (21 .. 30), 20) \cup (w \cap (12 .. 19))

i_imm(w) == IfBit(w, 31, 12 .. 31) \cup Shr(w, 20)

b_imm(w) ==
  IfBit(w, 31, 12 .. 31) \cup Shr(w \cap (25 .. 30), 20)
    \cup Shr(w \cap (8 .. 11), 7) \cup IfBit(w, 7, {11})

s_imm(w) ==
  IfBit(w, 31, 12 .. 31) \cup Shr(w \cap (25 .. 31), 20) \cup Shr(w \cap (7 .. 11), 7)

-----------------------------------------------------------------------------
(* The operation that is executed *)

BranchOp(f) ==
  CASE f = Num(0) -> "eq" [] f = Num(1) -> "ne"  [] f = Num(4) -> "lt"
    [] f = Num(5) -> "ge" [] f = Num(6) -> "ltu" [] f = Num(7) -> "geu"
    [] OTHER -> "none"

LoadOp(f) ==
  CASE f = Num(0) -> "lb" [] f = Num(1) -> "lh" [] f = Num(2) -> "lw"
    [] f = Num(4) -> "lbu" [] f = Num(5) -> "lhu" [] OTHER -> "none"

StoreOp(f) ==
  CASE f = Num(0) -> "sb" [] f = Num(1) -> "sh" [] f = Num(2) -> "sw" [] OTHER -> "none"

\* Mutant: funct7 is looked at in ARITH-I, too, where it is part of the immediate.
AddAlways(w) == funct3(w) = Num(0) /\ funct7(w) = {}

\* The first two branches of the if chain.
IsAdd(w) ==
  /\ funct3(w) = Num(0)
  /\ opcode(w) = ARITH => funct7(w) = {}

ArithOp(w) ==
  LET f == funct3(w)
  IN CASE IsAdd(w)   -> "add" [] f = Num(0) /\ ~IsAdd(w) -> "sub"
       [] f = Num(1)   -> "sll" [] f = Num(2) -> "slt" [] f = Num(3) -> "sltu"
       [] f = Num(4)   -> "xor"
       [] f = Num(5)   -> IF funct7(w) = {} THEN "srl" ELSE "sra"
       [] f = Num(6)   -> "or"  [] f = Num(7) -> "and"

\* What RV32IZicsr_Step() does with a word.
Executed(w) ==
  CASE opcode(w) = LUI    -> "lui"
    [] opcode(w) = AUIPC  -> "auipc"
    [] opcode(w) = JAL    -> "jal"
    [] opcode(w) = JALR   -> "jalr"
    [] opcode(w) = BRANCH -> BranchOp(funct3(w))
    [] opcode(w) = LOAD   -> LoadOp(funct3(w))
    [] opcode(w) = STORE  -> StoreOp(funct3(w))
    [] opcode(w) \in {ARITH, ARITHI} -> ArithOp(w)
    [] opcode(w) = SYSTEM -> "ebreak"
    [] OTHER -> "none"
=============================================================================
