----------------------------- MODULE RV32IManual -----------------------------
(***************************************************************************)
(* The machine of the RISC-V manual (RV32I, unprivileged) that the taurus  *)
(* promises to be: registers, a pc and a memory of bytes.  The manual says *)
(* nothing of the words and accesses that are not Defined: there only rd   *)
(* and the bytes at the address change, unless the machine halts.          *)
(***************************************************************************)
EXTENDS RV32IDecode

CONSTANTS
  RamBits,      (* bits of an address                                        *)
  Mmio,         (* addresses that are not of memory                          *)
  Unsupported   (* operations the machine is not promised to have            *)

VARIABLES pc, regs, mem, halted

vars == <<pc, regs, mem, halted>>

Reg     == SUBSET (0 .. 4)
Byte    == SUBSET Bits(8)
Address == SUBSET Bits(RamBits)

-----------------------------------------------------------------------------
(* The formats: which bit of the word is bit b of the immediate.  The sign is *)
(* bit 31 of the word in all of them. *)

IBit(b) == IF b <= 10 THEN b + 20 ELSE 31

SBit(b) == IF b <= 4 THEN b + 7 ELSE IF b <= 10 THEN b + 20 ELSE 31

BBit(b) ==
  IF b <= 4 THEN b + 7 ELSE IF b <= 10 THEN b + 20 ELSE IF b = 11 THEN 7 ELSE 31

JBit(b) ==
  IF b <= 10 THEN b + 20 ELSE IF b = 11 THEN 20 ELSE IF b <= 19 THEN b ELSE 31

ImmI(w) == {b \in Bit : IBit(b) \in w}
ImmS(w) == {b \in Bit : SBit(b) \in w}
ImmB(w) == {b \in Bit \ {0} : BBit(b) \in w}
ImmJ(w) == {b \in Bit \ {0} : JBit(b) \in w}
ImmU(w) == {b \in Bit : b >= 12 /\ b \in w}

-----------------------------------------------------------------------------
(* The operations *)

\* Only bit 5 of funct7 may be set, in `sub`, `sra` and `srai`.
Alt == {5}

EBREAK == SYSTEM \cup {20}
FENCE  == {0, 1, 2, 3}

Encodes(w) ==
  LET f == funct3(w)
      o == opcode(w)
  IN \/ o \in {LUI, AUIPC, JAL}
     \/ o = JALR   /\ f = {}
     \/ o = BRANCH /\ f \notin {Num(2), Num(3)}
     \/ o = LOAD   /\ f \notin {Num(3), Num(6), Num(7)}
     \/ o = STORE  /\ f \in {Num(0), Num(1), Num(2)}
     \/ o = ARITH  /\ funct7(w) \in {{}, Alt} /\ (funct7(w) = Alt => f \in {Num(0), Num(5)})
     \/ o = ARITHI /\ (f = Num(1) => funct7(w) = {}) /\ (f = Num(5) => funct7(w) \in {{}, Alt})
     \/ o = FENCE /\ f = {}
     \/ w = EBREAK

\* What an operation on registers is.
ManualOp(w) ==
  LET f == funct3(w)
  IN CASE f = Num(0) -> IF opcode(w) = ARITH /\ funct7(w) = Alt THEN "sub" ELSE "add"
       [] f = Num(1) -> "sll" [] f = Num(2) -> "slt" [] f = Num(3) -> "sltu"
       [] f = Num(4) -> "xor"
       [] f = Num(5) -> IF funct7(w) = Alt THEN "sra" ELSE "srl"
       [] f = Num(6) -> "or"  [] f = Num(7) -> "and"

\* The low five bits of y, as a number.
Amount(y) ==
  LET weight(b) == IF b \in y THEN 2 ^ b ELSE 0
  IN weight(0) + weight(1) + weight(2) + weight(3) + weight(4)

Flag(p) == IF p THEN {0} ELSE {}

Compute(op, x, y) ==
  CASE op = "add"  -> Plus(x, y, 32)
    [] op = "sub"  -> Minus(x, y, 32)
    [] op = "sll"  -> Shl(x, Amount(y), 32)
    [] op = "srl"  -> Shr(x, Amount(y))
    [] op = "sra"  -> SignExtend(Shr(x, Amount(y)), 32 - Amount(y), 32)
    [] op = "slt"  -> Flag(SignedLess(x, y, 32))
    [] op = "sltu" -> Flag(Less(x, y, 32))
    [] op = "xor"  -> Xor(x, y)
    [] op = "or"   -> x \cup y
    [] op = "and"  -> x \cap y

Taken(f, x, y) ==
  \/ f = Num(0) /\ x = y
  \/ f = Num(1) /\ x # y
  \/ f = Num(4) /\ SignedLess(x, y, 32)
  \/ f = Num(5) /\ ~SignedLess(x, y, 32)
  \/ f = Num(6) /\ Less(x, y, 32)
  \/ f = Num(7) /\ ~Less(x, y, 32)

\* The bytes of an access: 1, 2 or 4, by the low bits of funct3.
Size(f) == IF 1 \in f THEN 4 ELSE IF 0 \in f THEN 2 ELSE 1

Aligned(a, f) == (0 \in a => Size(f) = 1) /\ (1 \in a => Size(f) < 4)

InRam(a) == a \cap Bits(RamBits)

Load(a, f) ==
  LET bytes == LoadBytes(mem, InRam(a), Size(f), RamBits)
  IN IF 2 \in f THEN bytes ELSE SignExtend(bytes, 8 * Size(f), 32)

-----------------------------------------------------------------------------

Fetched == LoadBytes(mem, InRam(pc), 4, RamBits)

\* The operands of the word w.
X(w)     == regs[rs1(w)]
Y(w)     == regs[rs2(w)]
LoadAt(w)  == Plus(X(w), ImmI(w), 32)
StoreAt(w) == Plus(X(w), ImmS(w), 32)

OpName(w) ==
  IF opcode(w) \in {ARITH, ARITHI} THEN ManualOp(w)
  ELSE IF opcode(w) = LOAD /\ funct3(w) = Num(1) THEN "lh" ELSE "other"

Defined(w) ==
  /\ pc \in Address /\ pc \cap {0, 1} = {}
  /\ regs[{}] = {}
  /\ Encodes(w)
  /\ OpName(w) \notin Unsupported
  /\ opcode(w) = LOAD  => Aligned(LoadAt(w), funct3(w)) /\ LoadAt(w) \notin Mmio
  /\ opcode(w) = STORE => Aligned(StoreAt(w), funct3(w)) /\ StoreAt(w) \notin Mmio

NextPc(w) ==
  LET o == opcode(w)
  IN CASE o = JAL  -> Plus(pc, ImmJ(w), 32)
       [] o = JALR -> Plus(X(w), ImmI(w), 32) \ {0}
       [] o = BRANCH /\ Taken(funct3(w), X(w), Y(w)) -> Plus(pc, ImmB(w), 32)
       [] o = SYSTEM -> pc
       [] OTHER -> Plus(pc, Num(4), 32)

Result(w) ==
  LET o == opcode(w)
  IN CASE o = LUI    -> ImmU(w)
       [] o = AUIPC  -> Plus(pc, ImmU(w), 32)
       [] o \in {JAL, JALR} -> Plus(pc, Num(4), 32)
       [] o = LOAD   -> Load(LoadAt(w), funct3(w))
       [] o = ARITH  -> Compute(ManualOp(w), X(w), Y(w))
       [] o = ARITHI -> Compute(ManualOp(w), X(w), ImmI(w))

Writes(w) == opcode(w) \notin {BRANCH, STORE, FENCE, SYSTEM} /\ rd(w) # {}

\* The next word, if the manual defines it.
Execute(w) ==
  /\ Defined(w)
  /\ pc' = InRam(NextPc(w)) \ {0}
  /\ regs' = IF Writes(w) THEN [regs EXCEPT ![rd(w)] = Result(w)] ELSE regs
  /\ mem' = IF opcode(w) = STORE
            THEN StoreBytes(mem, InRam(StoreAt(w)), Size(funct3(w)), Y(w), RamBits)
            ELSE mem
  /\ halted' = FALSE

\* Any other word: nothing but rd and the four bytes at the address may change.
Undefined(w) ==
  /\ ~Defined(w)
  /\ pc' \in Address /\ 0 \notin pc'
  /\ regs' \in [Reg -> Word]
  /\ \A r \in Reg : r = {} \/ r # rd(w) => regs'[r] = regs[r]
  /\ mem' \in [Address -> Byte]
  /\ \A c \in Address :
       mem'[c] # mem[c] =>
         opcode(w) = STORE /\ \E i \in 0 .. 3 : c = Cell(InRam(StoreAt(w)), i, RamBits)
  /\ halted' = FALSE

Halt(w) == ~Defined(w) /\ halted' = TRUE /\ UNCHANGED <<pc, regs, mem>>

Init ==
  /\ pc \in Word /\ regs \in [Reg -> Word] /\ mem \in [Address -> Byte]
  /\ halted = FALSE

Next == ~halted /\ (Execute(Fetched) \/ Undefined(Fetched) \/ Halt(Fetched))

Spec == Init /\ [][Next]_vars
=============================================================================
