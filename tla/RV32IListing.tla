---------------------------- MODULE RV32IListing ----------------------------
(***************************************************************************)
(* The line that `break step` and a hit show for a word:                   *)
(* rv32i_instruction_to_str() of arch/riscv.c, with the mnemonic and the   *)
(* operands in their order.  It takes the word apart a second time.        *)
(***************************************************************************)
EXTENDS RV32IDecode

RegOperand(r) == [reg |-> r]
ImmOperand(i) == [imm |-> i]

\* A funct3 without a case leaves the mnemonic out.
BranchName(f) ==
  CASE f = Num(0) -> "beq" [] f = Num(1) -> "bne"  [] f = Num(4) -> "blt"
    [] f = Num(5) -> "bge" [] f = Num(6) -> "bltu" [] f = Num(7) -> "bgeu"
    [] OTHER -> "none"

LoadName(f) ==
  CASE f = Num(0) -> "lb" [] f = Num(1) -> "lh" [] f = Num(2) -> "lw"
    [] f = Num(4) -> "lbu" [] f = Num(5) -> "lhu" [] OTHER -> "none"

StoreName(f) ==
  CASE f = Num(0) -> "sb" [] f = Num(1) -> "sh" [] f = Num(2) -> "sw" [] OTHER -> "none"

\* Mutant: an `addi` of a large number is listed as a `sub`.
AnySub(w) == funct3(w) = Num(0) /\ funct7(w) # {}

IsSub(w) == opcode(w) = ARITH /\ funct3(w) = Num(0) /\ funct7(w) # {}

\* Only of an addition does the name tell the form: with either opcode it is `xori`,
\* and `sll`, `slt`, `sltu`, `srl`, `sra`, `or` and `and`.
ArithName(w) ==
  LET f == funct3(w)
  IN CASE f = Num(0) -> IF IsSub(w) THEN "sub" ELSE IF opcode(w) = ARITHI THEN "addi" ELSE "add"
       [] f = Num(1) -> "sll" [] f = Num(2) -> "slt" [] f = Num(3) -> "sltu"
       [] f = Num(4) -> "xori"
       [] f = Num(5) -> IF funct7(w) = {} THEN "srl" ELSE "sra"
       [] f = Num(6) -> "or"  [] f = Num(7) -> "and"

\* The gotos to imm: `addi`, `sub` and `xori`.
ListsImm(w) ==
  \/ opcode(w) = ARITHI /\ funct3(w) = Num(0)
  \/ IsSub(w)
  \/ funct3(w) = Num(4)

Mnemonic(w) ==
  CASE opcode(w) = LUI    -> "lui"
    [] opcode(w) = AUIPC  -> "auipc"
    [] opcode(w) = JAL    -> "jal"
    [] opcode(w) = JALR   -> "jalr"
    [] opcode(w) = BRANCH -> BranchName(funct3(w))
    [] opcode(w) = LOAD   -> LoadName(funct3(w))
    [] opcode(w) = STORE  -> StoreName(funct3(w))
    [] opcode(w) \in {ARITH, ARITHI} -> ArithName(w)
    [] OTHER -> "word"

\* Of a load or a store, "offset(rs1)".
Operands(w) ==
  LET d  == RegOperand(rd(w))
      s1 == RegOperand(rs1(w))
      s2 == RegOperand(rs2(w))
  IN CASE opcode(w) \in {LUI, AUIPC} -> <<d, ImmOperand(u_imm(w))>>
       [] opcode(w) = JAL    -> <<d, ImmOperand(j_imm(w))>>
       [] opcode(w) = JALR   -> <<d, s1, ImmOperand(i_imm(w))>>
       [] opcode(w) = BRANCH -> <<s1, s2, ImmOperand(b_imm(w))>>
       [] opcode(w) = LOAD   -> <<d, ImmOperand(i_imm(w)), s1>>
       [] opcode(w) = STORE  -> <<ImmOperand(s_imm(w)), s1, s2>>
       [] opcode(w) \in {ARITH, ARITHI} ->
            <<d, s1, IF ListsImm(w) THEN ImmOperand(i_imm(w)) ELSE s2>>
       [] OTHER -> <<ImmOperand(w)>>
=============================================================================
