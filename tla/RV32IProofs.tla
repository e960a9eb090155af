---------------------------- MODULE RV32IProofs ----------------------------
(***************************************************************************)
(* What TLAPS proves of RV32I, for a memory of any size, any program and   *)
(* any devices: types, the decoding and the listing of all 2^32 words, and *)
(* that each step is one of the machine of the manual.                     *)
(***************************************************************************)
EXTENDS RV32I, TLAPS

-----------------------------------------------------------------------------
(* Words *)

\* What a shift of a word holds.
LEMMA ShrBits ==
  ASSUME NEW w \in Word, NEW k \in Nat, NEW b \in Nat
  PROVE  b \in Shr(w, k) <=> b + k \in w
  <1>1. ASSUME b \in Shr(w, k) PROVE b + k \in w
    <2> PICK c \in w : k <= c /\ b = c - k
      BY <1>1 DEF Shr
    <2>1. c \in Int
      BY DEF Word, Bit, Bits
    <2> QED
      BY <2>1
  <1>2. ASSUME b + k \in w PROVE b \in Shr(w, k)
    BY <1>2 DEF Shr
  <1> QED
    BY <1>1, <1>2

\* A shift of a word is a set of numbers of bits.
LEMMA ShrWord ==
  ASSUME NEW w \in Word, NEW k \in Nat PROVE Shr(w, k) \subseteq Bit
  BY DEF Shr, Word, Bit, Bits

LEMMA Shl32 == ASSUME NEW w, NEW k PROVE Shl(w, k, 32) \in Word
  BY DEF Shl, Word, Bit

LEMMA Plus32 == ASSUME NEW x, NEW y PROVE Plus(x, y, 32) \in Word
  BY DEF Plus, Word, Bit

LEMMA Minus32 == ASSUME NEW x, NEW y PROVE Minus(x, y, 32) \in Word
  BY DEF Minus, Not, Word, Bit

LEMMA Mask == ASSUME NEW a PROVE Masked(a) \in Address
  BY DEF Masked, Address

LEMMA MaskedWord == ASSUME NEW a PROVE Masked(a) \in Word
  BY RV32IAssumption DEF Masked, Word, Bit, Bits

LEMMA LoadType == ASSUME NEW a, NEW n \in {1, 2, 4} PROVE LoadU(a, n) \in Word
  BY DEF LoadU, LoadBytes, Word, Bit, Bits

LEMMA ExtendType ==
  ASSUME NEW x \in Word, NEW m \in 1 .. 32 PROVE SignExtend(x, m, 32) \in Word
  BY DEF SignExtend, Word, Bit, Bits

LEMMA StoreType ==
  ASSUME NEW m \in [Address -> Byte], NEW a, NEW n, NEW v
  PROVE  Store(m, a, n, v) \in [Address -> Byte]
  <1>1. \A x : x \cap Bits(8) \in Byte
    BY DEF Byte
  <1> QED
    BY <1>1 DEF Store, StoreBytes

LEMMA Fields ==
  ASSUME NEW w PROVE rd(w) \in Reg /\ rs1(w) \in Reg /\ rs2(w) \in Reg
  BY DEF rd, rs1, rs2, Reg

-----------------------------------------------------------------------------
(* The decoding *)

LEMMA IImm == ASSUME NEW w \in Word PROVE i_imm(w) = Manual!ImmI(w)
  <1>1. ASSUME NEW b \in Bit PROVE b \in i_imm(w) <=> b \in Manual!ImmI(w)
    <2>1. b \in Shr(w, 20) <=> b + 20 \in w
      BY ShrBits DEF Bit, Bits
    <2>2. b \in i_imm(w) <=> (31 \in w /\ b >= 12) \/ b + 20 \in w
      BY <2>1 DEF i_imm, IfBit, Bit, Bits
    <2>3. b >= 12 => b + 20 \notin w
      BY DEF Word, Bit, Bits
    <2> QED
      BY <2>2, <2>3 DEF Manual!ImmI, Manual!IBit, Bit, Bits, Manual!Bit, Manual!Bits
  <1>2. i_imm(w) \subseteq Bit
    BY ShrWord DEF i_imm, IfBit, Bit, Bits
  <1> QED
    BY <1>1, <1>2 DEF Manual!ImmI, Manual!Bit, Manual!Bits, Bit, Bits

LEMMA SImm == ASSUME NEW w \in Word PROVE s_imm(w) = Manual!ImmS(w)
  <1>w. w \cap (25 .. 31) \in Word /\ w \cap (7 .. 11) \in Word
    BY DEF Word
  <1>1. ASSUME NEW b \in Bit PROVE b \in s_imm(w) <=> b \in Manual!ImmS(w)
    <2>1. b \in Shr(w \cap (25 .. 31), 20) <=> b + 20 \in w \cap (25 .. 31)
      <3>1. \A v \in Word : b \in Shr(v, 20) <=> b + 20 \in v
        BY ShrBits DEF Bit, Bits
      <3> QED
        BY <1>w, <3>1
    <2>2. b + 20 \in 25 .. 31 <=> 5 <= b /\ b <= 11
      BY DEF Bit, Bits
    <2>3. b \in Shr(w \cap (7 .. 11), 7) <=> b + 7 \in w \cap (7 .. 11)
      <3>1. \A v \in Word : b \in Shr(v, 7) <=> b + 7 \in v
        BY ShrBits DEF Bit, Bits
      <3> QED
        BY <1>w, <3>1
    <2>4. b + 7 \in 7 .. 11 <=> 0 <= b /\ b <= 4
      BY DEF Bit, Bits
    <2> QED
      BY <2>1, <2>2, <2>3, <2>4 DEF s_imm, IfBit, Manual!ImmS, Manual!SBit, Bit, Bits, Manual!Bit, Manual!Bits
  <1>2. s_imm(w) \subseteq Bit
    <2>1. Shr(w \cap (25 .. 31), 20) \subseteq Bit
      BY <1>w, ShrWord
    <2>2. Shr(w \cap (7 .. 11), 7) \subseteq Bit
      BY <1>w, ShrWord
    <2> QED
      BY <2>1, <2>2 DEF s_imm, IfBit, Bit, Bits, Word
  <1> QED
    BY <1>1, <1>2 DEF Manual!ImmS, Manual!Bit, Manual!Bits, Bit, Bits

LEMMA BImm == ASSUME NEW w \in Word PROVE b_imm(w) = Manual!ImmB(w)
  <1>w. w \cap (25 .. 30) \in Word /\ w \cap (8 .. 11) \in Word
    BY DEF Word
  <1>1. ASSUME NEW b \in Bit PROVE b \in b_imm(w) <=> b \in Manual!ImmB(w)
    <2>1. b \in Shr(w \cap (25 .. 30), 20) <=> b + 20 \in w \cap (25 .. 30)
      <3>1. \A v \in Word : b \in Shr(v, 20) <=> b + 20 \in v
        BY ShrBits DEF Bit, Bits
      <3> QED
        BY <1>w, <3>1
    <2>2. b + 20 \in 25 .. 30 <=> 5 <= b /\ b <= 10
      BY DEF Bit, Bits
    <2>3. b \in Shr(w \cap (8 .. 11), 7) <=> b + 7 \in w \cap (8 .. 11)
      <3>1. \A v \in Word : b \in Shr(v, 7) <=> b + 7 \in v
        BY ShrBits DEF Bit, Bits
      <3> QED
        BY <1>w, <3>1
    <2>4. b + 7 \in 8 .. 11 <=> 1 <= b /\ b <= 4
      BY DEF Bit, Bits
    <2> QED
      BY <2>1, <2>2, <2>3, <2>4 DEF b_imm, IfBit, Manual!ImmB, Manual!BBit, Bit, Bits, Manual!Bit, Manual!Bits
  <1>2. b_imm(w) \subseteq Bit
    <2>1. Shr(w \cap (25 .. 30), 20) \subseteq Bit
      BY <1>w, ShrWord
    <2>2. Shr(w \cap (8 .. 11), 7) \subseteq Bit
      BY <1>w, ShrWord
    <2> QED
      BY <2>1, <2>2 DEF b_imm, IfBit, Bit, Bits, Word
  <1> QED
    BY <1>1, <1>2 DEF Manual!ImmB, Manual!Bit, Manual!Bits, Bit, Bits

LEMMA JImm == ASSUME NEW w \in Word PROVE j_imm(w) = Manual!ImmJ(w)
  <1>w. w \cap (21 .. 30) \in Word
    BY DEF Word
  <1>1. ASSUME NEW b \in Bit PROVE b \in j_imm(w) <=> b \in Manual!ImmJ(w)
    <2>1. b \in Shr(w \cap (21 .. 30), 20) <=> b + 20 \in w \cap (21 .. 30)
      <3>1. \A v \in Word : b \in Shr(v, 20) <=> b + 20 \in v
        BY ShrBits DEF Bit, Bits
      <3> QED
        BY <1>w, <3>1
    <2>2. b + 20 \in 21 .. 30 <=> 1 <= b /\ b <= 10
      BY DEF Bit, Bits
    <2> QED
      BY <2>1, <2>2 DEF j_imm, IfBit, Manual!ImmJ, Manual!JBit, Bit, Bits, Manual!Bit, Manual!Bits
  <1>2. j_imm(w) \subseteq Bit
    <2>1. Shr(w \cap (21 .. 30), 20) \subseteq Bit
      BY <1>w, ShrWord
    <2> QED
      BY <2>1 DEF j_imm, IfBit, Bit, Bits, Word
  <1> QED
    BY <1>1, <1>2 DEF Manual!ImmJ, Manual!Bit, Manual!Bits, Bit, Bits

LEMMA UImm == ASSUME NEW w \in Word PROVE u_imm(w) = Manual!ImmU(w)
  BY DEF u_imm, Manual!ImmU, Manual!Bit, Manual!Bits, Word, Bit, Bits

LEMMA ImmTypes ==
  ASSUME NEW w \in Word
  PROVE  /\ u_imm(w) \in Word /\ j_imm(w) \in Word /\ i_imm(w) \in Word
         /\ b_imm(w) \in Word /\ s_imm(w) \in Word
  <1>1. Manual!Bit = Bit
    BY DEF Manual!Bit, Manual!Bits, Bit, Bits
  <1> QED
    BY <1>1, IImm, SImm, BImm, JImm
    DEF Manual!ImmI, Manual!ImmS, Manual!ImmB, Manual!ImmJ, u_imm, Word

-----------------------------------------------------------------------------
(* Types *)

LEMMA ValueType ==
  ASSUME NEW op \in {"add", "sub", "sll", "slt", "sltu", "xor", "srl", "sra", "or", "and"},
         NEW x \in Word, NEW y \in Word, NEW k \in Nat
  PROVE  Value(op, x, y, k) \in Word
  <1>1. Flag(TRUE) \in Word /\ Flag(FALSE) \in Word
    BY DEF Flag, Word, Bit, Bits
  <1>2. Shr(x, k) \in Word /\ k .. 31 \in Word
    BY ShrWord DEF Word, Bit, Bits
  <1>3. Xor(x, y) \in Word /\ x \cup y \in Word /\ x \cap y \in Word
    BY DEF Xor, Word
  <1>4. Shr(x, k) \cup (k .. 31) \in Word
    BY <1>2 DEF Word
  <1>5. CASE op \in {"slt", "sltu"}
    BY <1>1, <1>5 DEF Value, Flag
  <1>6. CASE op \notin {"slt", "sltu"}
    BY <1>2, <1>3, <1>4, <1>6, Shl32, Plus32, Minus32 DEF Value
  <1> QED
    BY <1>5, <1>6

LEMMA AmountType == ASSUME NEW y PROVE ShiftAmount(y) \in 0 .. 31
  BY DEF ShiftAmount

\* funct3 is one of eight values, which differ.
LEMMA Funct3 == ASSUME NEW w \in Word PROVE \E n \in 0 .. 7 : funct3(w) = Num(n)
  <1> DEFINE f == funct3(w)
  <1>1. f \subseteq {0, 1, 2}
    BY DEF funct3
  <1>2. f = (IF 0 \in f THEN {0} ELSE {}) \cup (IF 1 \in f THEN {1} ELSE {})
              \cup (IF 2 \in f THEN {2} ELSE {})
    BY <1>1
  <1> HIDE DEF f
  <1>3. f \in {{}, {0}, {1}, {0, 1}, {2}, {0, 2}, {1, 2}, {0, 1, 2}}
    BY <1>2
  <1>4. \E n \in 0 .. 7 : f = Num(n)
    BY <1>3 DEF Num
  <1> QED
    BY <1>4 DEF f

LEMMA Distinct == \A m, n \in 0 .. 7 : Num(m) = Num(n) => m = n
  <1> SUFFICES ASSUME NEW m \in 0 .. 7, NEW n \in 0 .. 7, Num(m) = Num(n) PROVE m = n
    OBVIOUS
  <1>1. 0 \in Num(m) <=> m \in {1, 3, 5, 7}
    BY DEF Num
  <1>2. 1 \in Num(m) <=> m \in {2, 3, 6, 7}
    BY DEF Num
  <1>3. 2 \in Num(m) <=> m \in {4, 5, 6, 7}
    BY DEF Num
  <1>4. 0 \in Num(n) <=> n \in {1, 3, 5, 7}
    BY DEF Num
  <1>5. 1 \in Num(n) <=> n \in {2, 3, 6, 7}
    BY DEF Num
  <1>6. 2 \in Num(n) <=> n \in {4, 5, 6, 7}
    BY DEF Num
  <1> QED
    BY <1>1, <1>2, <1>3, <1>4, <1>5, <1>6

LEMMA ArithOpType ==
  ASSUME NEW w \in Word
  PROVE  ArithOp(w) \in {"add", "sub", "sll", "slt", "sltu", "xor", "srl", "sra", "or", "and"}
  <1>1. PICK n \in 0 .. 7 : funct3(w) = Num(n)
    BY Funct3
  <1>2. \A m \in 0 .. 7 : funct3(w) = Num(m) <=> n = m
    BY <1>1, Distinct
  <1>3. CASE n = 0
    BY <1>2, <1>3 DEF ArithOp, IsAdd
  <1>4. CASE n # 0
    BY <1>2, <1>4 DEF ArithOp, IsAdd
  <1> QED
    BY <1>3, <1>4

\* The address of the four bytes and the word that is fetched.
LEMMA FetchTypes ==
  ASSUME TypeOK
  PROVE  /\ Word32 \in Word
         /\ rs1val \in Word /\ rs2val \in Word
  BY LoadType, Fields DEF Word32, rs1val, rs2val, TypeOK

LEMMA SetRdType ==
  ASSUME TypeOK, NEW v \in Word, SetRd(v) PROVE regs' \in [Reg -> Word]
  BY Fields DEF SetRd, TypeOK

LEMMA GotoType == ASSUME NEW p, Goto(p) PROVE pc' \in Address /\ pc' \in Word
  BY Mask, MaskedWord DEF Goto

\* The part of every case: the fetch.
LEMMA FetchStep ==
  ASSUME TypeOK, NEW o, Fetch(o)
  PROVE  ir' \in Word /\ steps' \in 0 .. MaxSteps /\ ~ended
  BY FetchTypes, RV32IAssumption DEF Fetch, TypeOK

LEMMA LoadedType ==
  ASSUME NEW op \in {"lb", "lbu", "lh", "lhu", "lw"}, NEW a PROVE Loaded(op, a) \in Word
  <1>1. LoadU(a, 1) \in Word /\ LoadU(a, 2) \in Word /\ LoadU(a, 4) \in Word
    BY LoadType
  <1>2. SignExtend(LoadU(a, 1), 8, 32) \in Word /\ {} \in Word
    BY <1>1, ExtendType DEF Word
  <1> QED
    BY <1>1, <1>2 DEF Loaded

LEMMA LoadOps == ASSUME NEW f PROVE LoadOp(f) \in {"lb", "lbu", "lh", "lhu", "lw", "none"}
  BY DEF LoadOp

LEMMA ZeroedType ==
  ASSUME TypeOK, NEW op, NEW a PROVE Zeroed(op, a) \in [Address -> Byte]
  BY StoreType DEF Zeroed, TypeOK

LEMMA StoredType ==
  ASSUME TypeOK, NEW op, NEW a, NEW v, Stored(op, a, v) PROVE mem' \in [Address -> Byte]
  BY ZeroedType, StoreType DEF Stored

\* No step leaves the types.
LEMMA TypeStep == TypeOK /\ [Next]_vars => TypeOK'
  <1> SUFFICES ASSUME TypeOK, [Next]_vars PROVE TypeOK'
    OBVIOUS
  <1>w. Word32 \in Word /\ rs1val \in Word /\ rs2val \in Word
    BY FetchTypes
  <1>i. /\ u_imm(Word32) \in Word /\ j_imm(Word32) \in Word /\ i_imm(Word32) \in Word
        /\ b_imm(Word32) \in Word /\ s_imm(Word32) \in Word
    BY <1>w, ImmTypes
  <1>1. CASE Lui
    BY <1>1, <1>i, FetchStep, SetRdType, GotoType DEF Lui, NextWord, Computes, TypeOK
  <1>2. CASE Auipc
    BY <1>2, FetchStep, SetRdType, GotoType, Plus32 DEF Auipc, Target, NextWord, Computes, TypeOK
  <1>3. CASE Jal
    BY <1>3, FetchStep, SetRdType, GotoType, Plus32 DEF Jal, Computes, TypeOK
  <1>4. CASE Jalr
    BY <1>4, FetchStep, SetRdType, GotoType, Plus32 DEF Jalr, Computes, TypeOK
  <1>5. CASE Branch
    BY <1>5, FetchStep, GotoType DEF Branch, NextWord, Computes, TypeOK
  <1>6. CASE Load
    <2> DEFINE op == LoadOp(funct3(Word32))
    <2>1. LoadAddr \in Word
      BY Plus32 DEF LoadAddr
    <2>2. op # "none" => Loaded(op, LoadAddr) \in Word
      BY LoadOps, LoadedType
    <2>3. \A v \in DeviceBytes : v \in Word
      BY RV32IAssumption DEF Byte, Word, Bit, Bits
    <2>4. regs' \in [Reg -> Word]
      BY <1>6, <2>2, <2>3, SetRdType DEF Load, TypeOK
    <2> QED
      BY <1>6, <2>1, <2>4, FetchStep, GotoType DEF Load, NextWord, TypeOK
  <1>7. CASE StoreMem
    <2>1. StoreAddr \in Word
      BY Plus32 DEF StoreAddr
    <2>2. mem' \in [Address -> Byte]
      BY <1>7, StoredType DEF StoreMem, TypeOK
    <2> QED
      BY <1>7, <2>1, <2>2, FetchStep, GotoType DEF StoreMem, NextWord, TypeOK
  <1>8. CASE Arith
    <2> DEFINE o == opcode(Word32)
               k == ShiftAmount(IF o = ARITHI THEN shamt ELSE Second(o))
    <2>1. Second(o) \in Word
      BY <1>w, <1>i DEF Second
    <2>2. k \in Nat
      BY AmountType
    <2>3. Value(ArithOp(Word32), rs1val, Second(o), k) \in Word
      BY <1>w, <2>1, <2>2, ValueType, ArithOpType
    <2>4. regs' \in [Reg -> Word]
      BY <1>8, <2>3, SetRdType DEF Arith
    <2> QED
      BY <1>8, <2>4, FetchStep, GotoType DEF Arith, NextWord, Computes, TypeOK
  <1>9. CASE Ebreak
    BY <1>9, FetchStep, GotoType DEF Ebreak, TypeOK
  <1>10. CASE Default
    BY <1>10, FetchStep, GotoType DEF Default, NextWord, Computes, TypeOK
  <1>11. CASE Overrun
    BY <1>11 DEF Overrun, TypeOK
  <1>12. CASE Terminated \/ UNCHANGED vars
    BY <1>12 DEF Terminated, vars, TypeOK
  <1> QED
    BY <1>1, <1>2, <1>3, <1>4, <1>5, <1>6, <1>7, <1>8, <1>9, <1>10, <1>11, <1>12 DEF Next

LEMMA TypeInit == ASSUME Init PROVE TypeOK
  <1>1. PICK m \in Machine : pc = m.pc /\ regs = m.regs /\ mem = m.mem
    BY RV32IAssumption DEF Init
  <1>2. pc \in Word /\ regs \in [Reg -> Word] /\ mem \in [Address -> Byte]
    BY <1>1 DEF Machine
  <1>3. {} \in Word /\ 0 \in 0 .. MaxSteps
    BY RV32IAssumption DEF Word
  <1> QED
    BY <1>2, <1>3 DEF Init, TypeOK

\* The registers, the memory, pc and the bounds keep their types, whatever the
\* program is.
THEOREM TypeCorrect == Spec => []TypeOK
  <1>1. Init => TypeOK
    BY TypeInit
  <1> QED
    BY <1>1, TypeStep, PTL DEF Spec

-----------------------------------------------------------------------------
(* The decoding and the listing *)

\* The immediates are those of the manual for every word that is fetched.
THEOREM ImmediatesAreExact == Spec => []ImmediatesExact
  <1>1. TypeOK => ImmediatesExact
    BY IImm, SImm, BImm, JImm DEF TypeOK, ImmediatesExact
  <1> QED
    BY <1>1, TypeCorrect, PTL

\* The manual's module has the fields of the decoding.
LEMMA SameFields ==
  ASSUME NEW w
  PROVE  /\ Manual!opcode(w) = opcode(w)
         /\ Manual!funct3(w) = funct3(w) /\ Manual!funct7(w) = funct7(w)
         /\ Manual!rd(w) = rd(w) /\ Manual!rs1(w) = rs1(w) /\ Manual!rs2(w) = rs2(w)
  BY DEF Manual!opcode, opcode, Manual!funct3, funct3, Manual!funct7, funct7,
         Manual!rd, rd, Manual!rs1, rs1, Manual!rs2, rs2, Manual!Shr, Shr

LEMMA SameNum == ASSUME NEW n PROVE Manual!Num(n) = Num(n)
  BY DEF Manual!Num, Num

LEMMA SameOpcodes ==
  /\ Manual!LUI = LUI /\ Manual!AUIPC = AUIPC /\ Manual!JAL = JAL /\ Manual!JALR = JALR
  /\ Manual!BRANCH = BRANCH /\ Manual!LOAD = LOAD /\ Manual!STORE = STORE
  /\ Manual!ARITHI = ARITHI /\ Manual!ARITH = ARITH /\ Manual!SYSTEM = SYSTEM
  BY DEF Manual!LUI, LUI, Manual!AUIPC, AUIPC, Manual!JAL, JAL, Manual!JALR, JALR,
         Manual!BRANCH, BRANCH, Manual!LOAD, LOAD, Manual!STORE, STORE,
         Manual!ARITHI, ARITHI, Manual!ARITH, ARITH, Manual!SYSTEM, SYSTEM

\* The opcodes differ.
LEMMA OpcodesDiffer ==
  /\ LUI \notin {AUIPC, JAL, JALR, BRANCH, LOAD, STORE, ARITHI, ARITH, SYSTEM, Manual!FENCE}
  /\ AUIPC \notin {JAL, JALR, BRANCH, LOAD, STORE, ARITHI, ARITH, SYSTEM, Manual!FENCE}
  /\ JAL \notin {JALR, BRANCH, LOAD, STORE, ARITHI, ARITH, SYSTEM, Manual!FENCE}
  /\ JALR \notin {BRANCH, LOAD, STORE, ARITHI, ARITH, SYSTEM, Manual!FENCE}
  /\ BRANCH \notin {LOAD, STORE, ARITHI, ARITH, SYSTEM, Manual!FENCE}
  /\ LOAD \notin {STORE, ARITHI, ARITH, SYSTEM, Manual!FENCE}
  /\ STORE \notin {ARITHI, ARITH, SYSTEM, Manual!FENCE}
  /\ ARITHI \notin {ARITH, SYSTEM, Manual!FENCE} /\ ARITH \notin {SYSTEM, Manual!FENCE}
  /\ SYSTEM # Manual!FENCE
  BY DEF LUI, AUIPC, JAL, JALR, BRANCH, LOAD, STORE, ARITHI, ARITH, SYSTEM, Manual!FENCE

LEMMA Operation ==
  ASSUME NEW w \in Word, Manual!Encodes(w), opcode(w) \in {ARITH, ARITHI}
  PROVE  ArithOp(w) = Manual!ManualOp(w)
  <1>1. PICK n \in 0 .. 7 : funct3(w) = Num(n)
    BY Funct3
  <1>2. \A m \in 0 .. 7 : funct3(w) = Num(m) <=> n = m
    BY <1>1, Distinct
  <1>3. ARITH # ARITHI /\ Manual!Alt # {}
    BY OpcodesDiffer DEF Manual!Alt
  <1>4. /\ opcode(w) = ARITH =>
             /\ funct7(w) \in {{}, Manual!Alt}
             /\ funct7(w) = Manual!Alt => n \in {0, 5}
        /\ opcode(w) = ARITHI /\ n = 5 => funct7(w) \in {{}, Manual!Alt}
    <2>1. /\ opcode(w) # Manual!FENCE /\ opcode(w) # SYSTEM
          /\ opcode(w) \notin {LUI, AUIPC, JAL, JALR, BRANCH, LOAD, STORE}
      BY OpcodesDiffer
    <2>2. w # Manual!EBREAK
      <3>1. SYSTEM \cap (0 .. 6) = SYSTEM /\ {20} \cap (0 .. 6) = {}
        BY DEF SYSTEM
      <3> QED
        BY <2>1, <3>1, SameOpcodes DEF Manual!EBREAK, opcode
    <2>3. \/ /\ opcode(w) = ARITH /\ funct7(w) \in {{}, Manual!Alt}
             /\ funct7(w) = Manual!Alt => funct3(w) \in {Num(0), Num(5)}
          \/ opcode(w) = ARITHI /\ (funct3(w) = Num(5) => funct7(w) \in {{}, Manual!Alt})
      BY <2>1, <2>2, SameFields, SameNum, SameOpcodes DEF Manual!Encodes
    <2> QED
      BY <1>2, <1>3, <2>3
  <1>5. Manual!ManualOp(w) =
          CASE n = 0 -> IF opcode(w) = ARITH /\ funct7(w) = Manual!Alt THEN "sub" ELSE "add"
            [] n = 1 -> "sll" [] n = 2 -> "slt" [] n = 3 -> "sltu"
            [] n = 4 -> "xor"
            [] n = 5 -> IF funct7(w) = Manual!Alt THEN "sra" ELSE "srl"
            [] n = 6 -> "or"  [] n = 7 -> "and"
    BY <1>2, SameFields, SameNum, SameOpcodes DEF Manual!ManualOp
  <1>6. CASE n = 0
    BY <1>2, <1>3, <1>4, <1>5, <1>6 DEF ArithOp, IsAdd
  <1>7. CASE n = 5
    BY <1>2, <1>3, <1>4, <1>5, <1>7 DEF ArithOp, IsAdd
  <1>8. CASE n \notin {0, 5}
    BY <1>2, <1>5, <1>8 DEF ArithOp, IsAdd
  <1> QED
    BY <1>6, <1>7, <1>8

\* The operation is that of the manual for every encoding of one.
THEOREM OperationIsExact == Spec => []OperationExact
  <1>1. TypeOK => OperationExact
    BY Operation DEF TypeOK, OperationExact
  <1> QED
    BY <1>1, TypeCorrect, PTL

\* The encodings that are listed with a name.
LEMMA Encodings ==
  ASSUME NEW w \in Word, Manual!Encodes(w), opcode(w) \notin {SYSTEM, Manual!FENCE}
  PROVE  opcode(w) \in {LUI, AUIPC, JAL, JALR, BRANCH, LOAD, STORE, ARITHI, ARITH}
  <1>1. SYSTEM \cap (0 .. 6) = SYSTEM /\ {20} \cap (0 .. 6) = {}
    BY DEF SYSTEM
  <1>2. w # Manual!EBREAK
    BY <1>1, SameOpcodes DEF Manual!EBREAK, opcode
  <1> QED
    BY <1>2, SameFields, SameOpcodes DEF Manual!Encodes

\* Arithmetic whose form the listing tells.
LEMMA ArithListed ==
  ASSUME NEW w \in Word, opcode(w) \in {ARITH, ARITHI}, ~OtherForm(w)
  PROVE  /\ ArithName(w) = Assembled(w)
         /\ ArithName(w) = "sub" <=> IsSub(w)
         /\ ~IsSub(w) => (ListsImm(w) <=> opcode(w) = ARITHI)
  <1>1. PICK n \in 0 .. 7 : funct3(w) = Num(n)
    BY Funct3
  <1>2. \A m \in 0 .. 7 : funct3(w) = Num(m) <=> n = m
    BY <1>1, Distinct
  <1>3. Executed(w) = ArithOp(w)
    BY OpcodesDiffer DEF Executed
  <1>4. CASE opcode(w) = ARITHI
    <2>1. n \in {0, 4}
      BY <1>2, <1>4 DEF OtherForm
    <2>2. ~IsSub(w)
      BY <1>4, OpcodesDiffer DEF IsSub
    <2>3. CASE n = 0
      <3>1. IsAdd(w)
        BY <1>2, <1>4, <2>3, OpcodesDiffer DEF IsAdd
      <3>2. ArithName(w) = "addi" /\ ListsImm(w)
        BY <1>2, <1>4, <2>2, <2>3 DEF ArithName, ListsImm
      <3>3. ArithOp(w) = "add"
        BY <1>2, <2>3, <3>1 DEF ArithOp
      <3>4. Assembled(w) = "addi"
        BY <1>3, <1>4, <3>3, OpcodesDiffer DEF Assembled, ImmediateForm
      <3> QED
        BY <1>4, <2>2, <3>2, <3>4
    <2>4. CASE n = 4
      <3>1. ArithName(w) = "xori" /\ ListsImm(w)
        BY <1>2, <2>4 DEF ArithName, ListsImm
      <3>2. ArithOp(w) = "xor"
        BY <1>2, <2>4 DEF ArithOp, IsAdd
      <3>3. Assembled(w) = "xori"
        BY <1>3, <1>4, <3>2, OpcodesDiffer DEF Assembled, ImmediateForm
      <3> QED
        BY <1>4, <2>2, <3>1, <3>3
    <2> QED
      BY <2>1, <2>3, <2>4
  <1>5. CASE opcode(w) = ARITH
    <2>1. n # 4
      BY <1>2, <1>5 DEF OtherForm
    <2>2. Assembled(w) = ArithOp(w)
      BY <1>3, <1>5, OpcodesDiffer DEF Assembled
    <2>3. opcode(w) # ARITHI
      BY <1>5, OpcodesDiffer
    <2>4. ~IsSub(w) => ~ListsImm(w)
      BY <1>2, <2>1, <2>3 DEF ListsImm
    <2>5. CASE n = 0
      BY <1>2, <1>5, <2>2, <2>3, <2>4, <2>5 DEF ArithOp, IsAdd, ArithName, IsSub
    <2>6. CASE n # 0
      <3>1. ~IsSub(w)
        BY <1>2, <2>6 DEF IsSub
      <3>2. ArithName(w) = ArithOp(w) /\ ArithName(w) # "sub"
        BY <1>2, <2>1, <2>6 DEF ArithOp, IsAdd, ArithName
      <3> QED
        BY <2>2, <2>3, <2>4, <3>1, <3>2
    <2> QED
      BY <2>5, <2>6
  <1> QED
    BY <1>4, <1>5

LEMMA BranchListed ==
  ASSUME NEW w \in Word, Manual!Encodes(w), opcode(w) = BRANCH
  PROVE  BranchName(funct3(w)) = Assembled(w)
  <1>1. PICK n \in 0 .. 7 : funct3(w) = Num(n)
    BY Funct3
  <1>2. \A m \in 0 .. 7 : funct3(w) = Num(m) <=> n = m
    BY <1>1, Distinct
  <1>3. funct3(w) \notin {Num(2), Num(3)}
    <2>1. /\ SYSTEM \cap (0 .. 6) = SYSTEM /\ {20} \cap (0 .. 6) = {}
          /\ 6 \in BRANCH /\ 6 \notin Manual!FENCE
      BY DEF SYSTEM, BRANCH, Manual!FENCE
    <2>2. w # Manual!EBREAK
      BY <2>1, OpcodesDiffer, SameOpcodes DEF Manual!EBREAK, opcode
    <2>3. BRANCH # Manual!FENCE
      BY <2>1
    <2> QED
      BY <2>2, <2>3, SameFields, SameNum, SameOpcodes, OpcodesDiffer DEF Manual!Encodes
  <1>4. n \in {0, 1, 4, 5, 6, 7}
    BY <1>1, <1>3
  <1>5. Executed(w) = BranchOp(funct3(w))
    BY OpcodesDiffer DEF Executed
  <1>6. Assembled(w) = BranchForm[BranchOp(funct3(w))]
    BY <1>5, OpcodesDiffer DEF Assembled
  <1> QED
    BY <1>2, <1>4, <1>6 DEF BranchName, BranchOp, BranchForm

LEMMA Listed ==
  ASSUME NEW w \in Word, Manual!Encodes(w), opcode(w) \notin {SYSTEM, Manual!FENCE},
         ~OtherForm(w)
  PROVE  /\ Mnemonic(w) = Assembled(w)
         /\ Mnemonic(w) # "sub" => Operands(w) = Assembly(w)
  <1> DEFINE o == opcode(w)
  <1>1. o \in {LUI, AUIPC, JAL, JALR, BRANCH, LOAD, STORE, ARITHI, ARITH}
    BY Encodings
  <1>2. /\ LoadName(funct3(w)) = LoadOp(funct3(w))
        /\ StoreName(funct3(w)) = StoreOp(funct3(w))
    BY DEF LoadName, LoadOp, StoreName, StoreOp
  <1>3. /\ u_imm(w) = Manual!ImmU(w) /\ j_imm(w) = Manual!ImmJ(w) /\ i_imm(w) = Manual!ImmI(w)
        /\ b_imm(w) = Manual!ImmB(w) /\ s_imm(w) = Manual!ImmS(w)
    BY UImm, IImm, SImm, BImm, JImm
  <1> DEFINE d  == RegOperand(rd(w))
             s1 == RegOperand(rs1(w))
             s2 == RegOperand(rs2(w))
  <1>4. CASE o = LUI
    <2>1. Mnemonic(w) = Assembled(w)
      BY <1>4, <1>2, OpcodesDiffer DEF Mnemonic, Assembled, Executed
    <2>2. Operands(w) = <<d, ImmOperand(u_imm(w))>>
      BY <1>4, OpcodesDiffer DEF Operands
    <2>3. Assembly(w) = <<d, ImmOperand(Manual!ImmU(w))>>
      BY <1>4, OpcodesDiffer DEF Assembly
    <2> QED
      BY <1>3, <2>1, <2>2, <2>3
  <1>5. CASE o = AUIPC
    <2>1. Mnemonic(w) = Assembled(w)
      BY <1>5, <1>2, OpcodesDiffer DEF Mnemonic, Assembled, Executed
    <2>2. Operands(w) = <<d, ImmOperand(u_imm(w))>>
      BY <1>5, OpcodesDiffer DEF Operands
    <2>3. Assembly(w) = <<d, ImmOperand(Manual!ImmU(w))>>
      BY <1>5, OpcodesDiffer DEF Assembly
    <2> QED
      BY <1>3, <2>1, <2>2, <2>3
  <1>6. CASE o = JAL
    <2>1. Mnemonic(w) = Assembled(w)
      BY <1>6, <1>2, OpcodesDiffer DEF Mnemonic, Assembled, Executed
    <2>2. Operands(w) = <<d, ImmOperand(j_imm(w))>>
      BY <1>6, OpcodesDiffer DEF Operands
    <2>3. Assembly(w) = <<d, ImmOperand(Manual!ImmJ(w))>>
      BY <1>6, OpcodesDiffer DEF Assembly
    <2> QED
      BY <1>3, <2>1, <2>2, <2>3
  <1>7. CASE o = JALR
    <2>1. Mnemonic(w) = Assembled(w)
      BY <1>7, <1>2, OpcodesDiffer DEF Mnemonic, Assembled, Executed
    <2>2. Operands(w) = <<d, s1, ImmOperand(i_imm(w))>>
      BY <1>7, OpcodesDiffer DEF Operands
    <2>3. Assembly(w) = <<d, s1, ImmOperand(Manual!ImmI(w))>>
      BY <1>7, OpcodesDiffer DEF Assembly
    <2> QED
      BY <1>3, <2>1, <2>2, <2>3
  <1>8. CASE o = BRANCH
    <2>1. Mnemonic(w) = Assembled(w)
      BY <1>8, BranchListed, OpcodesDiffer DEF Mnemonic
    <2>2. Operands(w) = <<s1, s2, ImmOperand(b_imm(w))>>
      BY <1>8, OpcodesDiffer DEF Operands
    <2>3. Assembly(w) = <<s1, s2, ImmOperand(Manual!ImmB(w))>>
      BY <1>8, OpcodesDiffer DEF Assembly
    <2> QED
      BY <1>3, <2>1, <2>2, <2>3
  <1>9. CASE o = LOAD
    <2>1. Mnemonic(w) = Assembled(w)
      BY <1>9, <1>2, OpcodesDiffer DEF Mnemonic, Assembled, Executed
    <2>2. Operands(w) = <<d, ImmOperand(i_imm(w)), s1>>
      BY <1>9, OpcodesDiffer DEF Operands
    <2>3. Assembly(w) = <<d, ImmOperand(Manual!ImmI(w)), s1>>
      BY <1>9, OpcodesDiffer DEF Assembly
    <2> QED
      BY <1>3, <2>1, <2>2, <2>3
  <1>10. CASE o = STORE
    <2>1. Mnemonic(w) = Assembled(w)
      BY <1>10, <1>2, OpcodesDiffer DEF Mnemonic, Assembled, Executed
    <2>2. Operands(w) = <<ImmOperand(s_imm(w)), s1, s2>>
      BY <1>10, OpcodesDiffer DEF Operands
    <2>3. Assembly(w) = <<ImmOperand(Manual!ImmS(w)), s1, s2>>
      BY <1>10, OpcodesDiffer DEF Assembly
    <2> QED
      BY <1>3, <2>1, <2>2, <2>3
  <1>11. CASE o \in {ARITH, ARITHI}
    <2>1. Mnemonic(w) = ArithName(w)
      BY <1>11, OpcodesDiffer DEF Mnemonic
    <2>2. Operands(w) = <<d, s1, IF ListsImm(w) THEN ImmOperand(i_imm(w)) ELSE s2>>
      BY <1>11, OpcodesDiffer DEF Operands
    <2>3. Assembly(w) = IF o = ARITHI THEN <<d, s1, ImmOperand(Manual!ImmI(w))>> ELSE <<d, s1, s2>>
      BY <1>11, OpcodesDiffer DEF Assembly
    <2>4. ArithName(w) # "sub" => Operands(w) = Assembly(w)
      BY <1>3, <1>11, <2>2, <2>3, ArithListed
    <2> QED
      BY <1>11, <2>1, <2>4, ArithListed
  <1> QED
    BY <1>1, <1>4, <1>5, <1>6, <1>7, <1>8, <1>9, <1>10, <1>11

\* The listing names the instruction that is executed, with its operands, but for
\* the forms that rv32i_instruction_to_str() does not tell apart.
THEOREM ListingIsExact == Spec => []ListingExact
  <1>1. TypeOK => ListingExact
    BY Listed DEF TypeOK, ListingExact
  <1> QED
    BY <1>1, TypeCorrect, PTL
-----------------------------------------------------------------------------
(* The machine of the manual *)

LEMMA SameShift ==
  ASSUME NEW x, NEW k, NEW n
  PROVE  Manual!Shr(x, k) = Shr(x, k) /\ Manual!Shl(x, k, n) = Shl(x, k, n)
  BY DEF Manual!Shr, Shr, Manual!Shl, Shl, Manual!Bits, Bits

LEMMA SamePlus ==
  ASSUME NEW x, NEW y, NEW n
  PROVE  Manual!Plus(x, y, n) = Plus(x, y, n)
  BY DEF Manual!Plus, Plus, Manual!Carry, Carry, Manual!Bits, Bits

LEMMA SameMinus ==
  ASSUME NEW x, NEW y, NEW n
  PROVE  Manual!Minus(x, y, n) = Minus(x, y, n)
  <1>1. \A v : Manual!Not(v, n) = Not(v, n)
    BY DEF Manual!Not, Not, Manual!Bits, Bits
  <1> QED
    BY <1>1, SamePlus DEF Manual!Minus, Minus

LEMMA SameLess ==
  ASSUME NEW x, NEW y, NEW n
  PROVE  Manual!Less(x, y, n) = Less(x, y, n)
  BY DEF Manual!Less, Less

LEMMA SameXor == ASSUME NEW x, NEW y PROVE Manual!Xor(x, y) = Xor(x, y)
  BY DEF Manual!Xor, Xor

LEMMA SameSignedLess ==
  ASSUME NEW x, NEW y, NEW n
  PROVE  Manual!SignedLess(x, y, n) = SignedLess(x, y, n)
  BY SameLess, SameXor DEF Manual!SignedLess, SignedLess

LEMMA SameExtend ==
  ASSUME NEW x, NEW m, NEW n
  PROVE  Manual!SignExtend(x, m, n) = SignExtend(x, m, n)
  BY DEF Manual!SignExtend, SignExtend

LEMMA SameCell ==
  ASSUME NEW a, NEW i, NEW r PROVE Manual!Cell(a, i, r) = Cell(a, i, r)
  BY SamePlus, SameNum DEF Manual!Cell, Cell

LEMMA SameLoad ==
  ASSUME NEW a, NEW n
  PROVE  Manual!LoadBytes(mem, Manual!InRam(a), n, RAM_BITS) = LoadU(a, n)
  BY SameCell
  DEF Manual!LoadBytes, LoadBytes, LoadU, Masked, Manual!InRam, Manual!Bits, Bits

LEMMA SameStore ==
  ASSUME NEW m, NEW a, NEW n, NEW v
  PROVE  Manual!StoreBytes(m, Manual!InRam(a), n, v, RAM_BITS) = Store(m, a, n, v)
  <1>1. Manual!InRam(a) = Masked(a)
    BY DEF Manual!InRam, Masked, Manual!Bits, Bits
  <1>2. \A c, b : Manual!Lane(c, b, n, RAM_BITS) = Lane(c, b, n, RAM_BITS)
    BY SameCell DEF Manual!Lane, Lane
  <1> QED
    BY <1>1, <1>2, SameCell, SameShift
    DEF Manual!StoreBytes, StoreBytes, Store, Manual!Bits, Bits

LEMMA SameMask == ASSUME NEW a PROVE Manual!InRam(a) = Masked(a)
  BY DEF Manual!InRam, Masked, Manual!Bits, Bits

LEMMA SameTypes == Manual!Reg = Reg /\ Manual!Word = Word /\ Manual!Byte = Byte
                   /\ Manual!Address = Address
  BY DEF Manual!Reg, Reg, Manual!Word, Word, Manual!Bit, Bit, Manual!Byte, Byte,
         Manual!Address, Address, Manual!Bits, Bits

\* The word at pc and its operands.
LEMMA SameOperands ==
  /\ Manual!Fetched = Word32
  /\ Manual!X(Word32) = rs1val /\ Manual!Y(Word32) = rs2val
  BY SameLoad, SameFields DEF Manual!Fetched, Word32, Manual!X, rs1val, Manual!Y, rs2val

LEMMA SameAddresses ==
  ASSUME TypeOK
  PROVE  Manual!LoadAt(Word32) = LoadAddr /\ Manual!StoreAt(Word32) = StoreAddr
  BY SameOperands, SamePlus, IImm, SImm, FetchTypes
  DEF Manual!LoadAt, LoadAddr, Manual!StoreAt, StoreAddr

\* A distance of a shift is in the low five bits: of rs2, or of the immediate.
LEMMA SameAmount ==
  ASSUME NEW y, NEW z, \A b \in 0 .. 4 : b \in y <=> b \in z
  PROVE  Manual!Amount(y) = ShiftAmount(z)
  <1>1. \A b \in 0 .. 4 : (IF b \in y THEN 2 ^ b ELSE 0) = (IF b \in z THEN 2 ^ b ELSE 0)
    OBVIOUS
  <1> QED
    BY <1>1 DEF Manual!Amount, ShiftAmount

LEMMA ShiftOfImm ==
  ASSUME TypeOK
  PROVE  Manual!Amount(Manual!ImmI(Word32)) = ShiftAmount(shamt)
  <1>1. ASSUME NEW b \in 0 .. 4
        PROVE  b \in Manual!ImmI(Word32) <=> b \in shamt
    <2>1. b \in Manual!ImmI(Word32) <=> b + 20 \in Word32
      BY DEF Manual!ImmI, Manual!IBit, Manual!Bit, Manual!Bits
    <2>2. b \in Shr(Word32, 20) <=> b + 20 \in Word32
      BY FetchTypes, ShrBits
    <2> QED
      BY <2>1, <2>2 DEF shamt
  <1> QED
    BY <1>1, SameAmount

\* The value of an operation, but for `sra`.
LEMMA SameValue ==
  ASSUME NEW op \in {"add", "sub", "sll", "slt", "sltu", "xor", "srl", "or", "and"},
         NEW x, NEW y, NEW k, Manual!Amount(y) = k
  PROVE  Manual!Compute(op, x, y) = Value(op, x, y, k)
  <1>1. CASE op \in {"add", "sub", "xor", "or", "and"}
    BY <1>1, SamePlus, SameMinus, SameXor DEF Manual!Compute, Value
  <1>2. CASE op \in {"slt", "sltu"}
    BY <1>2, SameLess, SameSignedLess DEF Manual!Compute, Value, Manual!Flag, Flag
  <1>3. CASE op \in {"sll", "srl"}
    BY <1>3, SameShift DEF Manual!Compute, Value
  <1> QED
    BY <1>1, <1>2, <1>3

\* What any step leaves alone.
Frame ==
  /\ \A r \in Reg : r = {} \/ r # rd(Word32) => regs'[r] = regs[r]
  /\ \A c \in Address :
       mem'[c] # mem[c] =>
         opcode(Word32) = STORE /\ \E i \in 0 .. 3 : c = Cell(Masked(StoreAddr), i, RAM_BITS)

LEMMA UndefinedStep ==
  ASSUME TypeOK, TypeOK', ~ended, ended' = FALSE, Frame,
         NEW p, Goto(p),
         ~Manual!Defined(Word32)
  PROVE  Manual!Next
  <1>1. pc' \in Address /\ 0 \notin pc'
    BY GotoType DEF Goto, Masked
  <1>2. regs' \in [Reg -> Word] /\ mem' \in [Address -> Byte]
    BY DEF TypeOK
  <1>3. Manual!Undefined(Word32)
    BY <1>1, <1>2, SameTypes, SameFields, SameOpcodes, SameAddresses, SameMask, SameCell
    DEF Manual!Undefined, Frame
  <1> QED
    BY <1>3, SameOperands DEF Manual!Next

\* A step that does what the manual says of its word.
LEMMA DefinedStep ==
  ASSUME TypeOK, ~ended, ended' = FALSE, Manual!Defined(Word32),
         NEW p, Goto(p), p \ {0} = Manual!NextPc(Word32) \ {0},
         regs' = IF Manual!Writes(Word32)
                 THEN [regs EXCEPT ![rd(Word32)] = Manual!Result(Word32)] ELSE regs,
         mem' = IF opcode(Word32) = STORE
                THEN Store(mem, StoreAddr, Manual!Size(funct3(Word32)), rs2val) ELSE mem
  PROVE  Manual!Next
  <1>1. pc' = Manual!InRam(Manual!NextPc(Word32)) \ {0}
    <2>1. pc' = Masked(Manual!NextPc(Word32) \ {0})
      BY DEF Goto
    <2>2. \A q : Masked(q \ {0}) = Masked(q) \ {0}
      BY DEF Masked
    <2> QED
      BY <2>1, <2>2, SameMask
  <1>2. regs' = IF Manual!Writes(Word32)
                THEN [regs EXCEPT ![Manual!rd(Word32)] = Manual!Result(Word32)] ELSE regs
    BY SameFields
  <1>3. Manual!StoreBytes(mem, Manual!InRam(Manual!StoreAt(Word32)),
                          Manual!Size(Manual!funct3(Word32)), Manual!Y(Word32), RAM_BITS)
          = Store(mem, StoreAddr, Manual!Size(funct3(Word32)), rs2val)
    BY SameStore, SameFields, SameAddresses, SameOperands
  <1>4. Manual!opcode(Word32) = Manual!STORE <=> opcode(Word32) = STORE
    BY SameFields, SameOpcodes
  <1>5. Manual!Execute(Word32)
    BY <1>1, <1>2, <1>3, <1>4 DEF Manual!Execute
  <1> QED
    BY <1>5, SameOperands DEF Manual!Next

LEMMA RdFrame ==
  ASSUME TypeOK, NEW v, SetRd(v) \/ UNCHANGED regs
  PROVE  \A r \in Reg : r = {} \/ r # rd(Word32) => regs'[r] = regs[r]
  BY Fields DEF SetRd, TypeOK

LEMMA MemFrame ==
  ASSUME UNCHANGED mem, \A r \in Reg : r = {} \/ r # rd(Word32) => regs'[r] = regs[r]
  PROVE  Frame
  BY DEF Frame

\* The rest of SetRd() is the manual's, when x0 is zero.
LEMMA RdResult ==
  ASSUME NEW v, SetRd(v), v = Manual!Result(Word32),
         opcode(Word32) \notin {BRANCH, STORE, SYSTEM, Manual!FENCE}
  PROVE  regs' = IF Manual!Writes(Word32)
                 THEN [regs EXCEPT ![rd(Word32)] = Manual!Result(Word32)] ELSE regs
  BY SameFields, SameOpcodes DEF SetRd, Manual!Writes

LEMMA NextPcSeq ==
  ASSUME opcode(Word32) \notin {JAL, JALR, BRANCH, SYSTEM}
  PROVE  Manual!NextPc(Word32) = Plus(pc, Num(4), 32)
  BY SameFields, SameOpcodes, SamePlus, SameNum DEF Manual!NextPc

\* The instructions that compute a register: the same rd, the next word.
LEMMA RegisterStep ==
  ASSUME TypeOK, TypeOK', ~ended, UNCHANGED ended, UNCHANGED mem, NextWord,
         opcode(Word32) \notin {JAL, JALR, BRANCH, STORE, SYSTEM, Manual!FENCE},
         NEW v, SetRd(v), Manual!Defined(Word32) => v = Manual!Result(Word32)
  PROVE  Manual!Next
  <1>1. ended' = FALSE
    BY DEF TypeOK
  <1>2. Goto(Plus(pc, Num(4), 32))
    BY DEF NextWord
  <1>3. CASE ~Manual!Defined(Word32)
    BY <1>1, <1>2, <1>3, RdFrame, MemFrame, UndefinedStep
  <1>4. CASE Manual!Defined(Word32)
    BY <1>1, <1>2, <1>4, RdResult, NextPcSeq, DefinedStep
  <1> QED
    BY <1>3, <1>4

LEMMA LuiStep == ASSUME TypeOK, TypeOK', Lui PROVE Manual!Next
  <1>1. opcode(Word32) = LUI /\ ~ended
    BY DEF Lui, Fetch
  <1>2. u_imm(Word32) = Manual!Result(Word32)
    BY <1>1, UImm, FetchTypes, SameFields, SameOpcodes, OpcodesDiffer DEF Manual!Result
  <1> QED
    BY <1>1, <1>2, OpcodesDiffer, RegisterStep DEF Lui, Computes

LEMMA AuipcStep == ASSUME TypeOK, TypeOK', Auipc PROVE Manual!Next
  <1>1. opcode(Word32) = AUIPC /\ ~ended
    BY DEF Auipc, Fetch
  <1>2. Target(pc, u_imm(Word32)) = Manual!Result(Word32)
    BY <1>1, UImm, FetchTypes, SameFields, SameOpcodes, SamePlus, OpcodesDiffer
    DEF Manual!Result, Target
  <1> QED
    BY <1>1, <1>2, OpcodesDiffer, RegisterStep DEF Auipc, Computes

LEMMA ArithStep == ASSUME TypeOK, TypeOK', Arith PROVE Manual!Next
  <1> DEFINE o == opcode(Word32)
             k == ShiftAmount(IF o = ARITHI THEN shamt ELSE Second(o))
             v == Value(ArithOp(Word32), rs1val, Second(o), k)
             y == IF o = ARITHI THEN Manual!ImmI(Word32) ELSE rs2val
  <1>1. o \in {ARITHI, ARITH} /\ ~ended /\ SetRd(v) /\ NextWord /\ Computes
    BY DEF Arith, Fetch
  <1>2. ASSUME Manual!Defined(Word32) PROVE v = Manual!Result(Word32)
    <2>1. ArithOp(Word32) = Manual!ManualOp(Word32)
      BY <1>1, <1>2, Operation, FetchTypes DEF Manual!Defined
    <2>2. Manual!ManualOp(Word32) # "sra"
      BY <1>1, <1>2, SameFields, SameOpcodes DEF Manual!Defined, Manual!OpName
    <2>3. Second(o) = y
      BY IImm, FetchTypes DEF Second
    <2>4. Manual!Amount(y) = k
      <3>1. CASE o = ARITHI
        BY <3>1, ShiftOfImm
      <3>2. CASE o # ARITHI
        BY <3>2, SameAmount DEF Second
      <3> QED
        BY <3>1, <3>2
    <2>5. Manual!Result(Word32) = Manual!Compute(Manual!ManualOp(Word32), rs1val, y)
      BY <1>1, SameFields, SameOpcodes, SameOperands, OpcodesDiffer DEF Manual!Result
    <2>6. ArithOp(Word32) \in {"add", "sub", "sll", "slt", "sltu", "xor", "srl", "or", "and"}
      BY <2>1, <2>2, ArithOpType, FetchTypes
    <2>7. Manual!Compute(ArithOp(Word32), rs1val, y) = Value(ArithOp(Word32), rs1val, y, k)
      BY <2>4, <2>6, SameValue
    <2> QED
      BY <2>1, <2>3, <2>5, <2>7
  <1> QED
    BY <1>1, <1>2, OpcodesDiffer, RegisterStep DEF Computes

LEMMA DefaultStep == ASSUME TypeOK, TypeOK', Default PROVE Manual!Next
  <1>1. opcode(Word32) \notin Opcodes /\ ~ended /\ NextWord /\ UNCHANGED <<regs, mem, ended>>
    BY DEF Default, Fetch, Computes
  <1>2. ended' = FALSE /\ Goto(Plus(pc, Num(4), 32))
    BY <1>1 DEF NextWord, TypeOK
  <1>3. CASE ~Manual!Defined(Word32)
    BY <1>1, <1>2, <1>3, RdFrame, MemFrame, UndefinedStep
  <1>4. CASE Manual!Defined(Word32)
    <2>1. opcode(Word32) = Manual!FENCE
      <3>1. SYSTEM \cap (0 .. 6) = SYSTEM /\ {20} \cap (0 .. 6) = {}
        BY DEF SYSTEM
      <3>2. Word32 # Manual!EBREAK
        BY <1>1, <3>1, SameOpcodes DEF Manual!EBREAK, opcode, Opcodes
      <3> QED
        BY <1>1, <1>4, <3>2, SameFields, SameOpcodes DEF Manual!Defined, Manual!Encodes, Opcodes
    <2>2. ~Manual!Writes(Word32)
      BY <2>1, SameFields DEF Manual!Writes
    <2>3. opcode(Word32) # STORE /\ opcode(Word32) \notin {JAL, JALR, BRANCH, SYSTEM}
      BY <1>1 DEF Opcodes
    <2> QED
      BY <1>1, <1>2, <1>4, <2>2, <2>3, NextPcSeq, DefinedStep
  <1> QED
    BY <1>3, <1>4

\* The jumps and branches: rd, if any, and where pc goes.
LEMMA JumpStep ==
  ASSUME TypeOK, TypeOK', ~ended, UNCHANGED ended, UNCHANGED mem,
         opcode(Word32) \in {JAL, JALR, BRANCH},
         NEW p, Goto(p),
         Manual!Defined(Word32) => p \ {0} = Manual!NextPc(Word32) \ {0},
         \/ /\ opcode(Word32) # BRANCH
            /\ SetRd(Plus(pc, Num(4), 32))
         \/ opcode(Word32) = BRANCH /\ UNCHANGED regs
  PROVE  Manual!Next
  <1>1. ended' = FALSE
    BY DEF TypeOK
  <1>2. CASE ~Manual!Defined(Word32)
    <2>1. \A r \in Reg : r = {} \/ r # rd(Word32) => regs'[r] = regs[r]
      BY RdFrame
    <2> QED
      BY <1>1, <1>2, <2>1, MemFrame, UndefinedStep
  <1>3. CASE Manual!Defined(Word32) /\ opcode(Word32) # BRANCH
    <2>1. Plus(pc, Num(4), 32) = Manual!Result(Word32)
      BY <1>3, SameFields, SameOpcodes, SamePlus, SameNum, OpcodesDiffer DEF Manual!Result
    <2>2. opcode(Word32) \notin {BRANCH, STORE, SYSTEM, Manual!FENCE}
      BY <1>3, OpcodesDiffer
    <2> QED
      BY <1>1, <1>3, <2>1, <2>2, RdResult, DefinedStep
  <1>4. CASE Manual!Defined(Word32) /\ opcode(Word32) = BRANCH
    <2>1. ~Manual!Writes(Word32) /\ opcode(Word32) # STORE
      BY <1>4, SameFields, SameOpcodes, OpcodesDiffer DEF Manual!Writes
    <2> QED
      BY <1>1, <1>4, <2>1, OpcodesDiffer, DefinedStep
  <1> QED
    BY <1>2, <1>3, <1>4

LEMMA JalStep == ASSUME TypeOK, TypeOK', Jal PROVE Manual!Next
  <1>1. opcode(Word32) = JAL /\ ~ended
    BY DEF Jal, Fetch
  <1>2. Target(pc, j_imm(Word32)) = Manual!NextPc(Word32)
    <2>1. /\ Manual!opcode(Word32) = Manual!JAL
          /\ Manual!JAL \notin {Manual!JALR, Manual!BRANCH, Manual!SYSTEM}
      BY <1>1, SameFields, SameOpcodes, OpcodesDiffer
    <2>2. Target(pc, j_imm(Word32)) = Manual!Plus(pc, Manual!ImmJ(Word32), 32)
      BY JImm, FetchTypes, SamePlus DEF Target
    <2> QED
      BY <2>1, <2>2 DEF Manual!NextPc
  <1>3. Target(pc, j_imm(Word32)) \ {0} = Manual!NextPc(Word32) \ {0}
    BY <1>2
  <1> QED
    BY <1>1, <1>3, OpcodesDiffer, JumpStep DEF Jal, Computes

LEMMA JalrStep == ASSUME TypeOK, TypeOK', Jalr PROVE Manual!Next
  <1>1. opcode(Word32) = JALR /\ ~ended
    BY DEF Jalr, Fetch
  <1>2. Target(rs1val, i_imm(Word32)) \ {0} = Manual!NextPc(Word32)
    BY <1>1, IImm, FetchTypes, SameFields, SameOpcodes, SameOperands, SamePlus, OpcodesDiffer
    DEF Manual!NextPc, Target
  <1>3. Target(rs1val, i_imm(Word32)) \ {0} = Manual!NextPc(Word32) \ {0}
    BY <1>2
  <1> QED
    BY <1>1, <1>3, OpcodesDiffer, JumpStep DEF Jalr, Computes

\* The condition of a branch is the manual's.
LEMMA SameBranch ==
  ASSUME TypeOK, opcode(Word32) = BRANCH, Manual!Defined(Word32)
  PROVE  Taken(BranchOp(funct3(Word32))) <=> Manual!Taken(funct3(Word32), rs1val, rs2val)
  <1>1. PICK n \in 0 .. 7 : funct3(Word32) = Num(n)
    BY Funct3, FetchTypes
  <1>2. \A m \in 0 .. 7 : funct3(Word32) = Num(m) <=> n = m
    BY <1>1, Distinct
  <1>3. n \notin {2, 3}
    <2>1. Word32 # Manual!EBREAK
      <3>1. SYSTEM \cap (0 .. 6) = SYSTEM /\ {20} \cap (0 .. 6) = {}
        BY DEF SYSTEM
      <3> QED
        BY <3>1, SameOpcodes, OpcodesDiffer DEF Manual!EBREAK, opcode
    <2>2. funct3(Word32) \notin {Num(2), Num(3)}
      BY <2>1, SameFields, SameOpcodes, SameNum, OpcodesDiffer
      DEF Manual!Defined, Manual!Encodes
    <2> QED
      BY <1>2, <2>2
  <1>4. CASE n = 0
    <2>1. BranchOp(funct3(Word32)) = "eq"
      BY <1>2, <1>4 DEF BranchOp
    <2>2. Manual!Taken(funct3(Word32), rs1val, rs2val) <=> rs1val = rs2val
      BY <1>2, <1>4, SameNum DEF Manual!Taken
    <2> QED
      BY <2>1, <2>2 DEF Taken
  <1>5. CASE n = 1
    <2>1. BranchOp(funct3(Word32)) = "ne"
      BY <1>2, <1>5 DEF BranchOp
    <2>2. Manual!Taken(funct3(Word32), rs1val, rs2val) <=> rs1val # rs2val
      BY <1>2, <1>5, SameNum DEF Manual!Taken
    <2> QED
      BY <2>1, <2>2 DEF Taken
  <1>6. CASE n = 4
    <2>1. BranchOp(funct3(Word32)) = "lt"
      BY <1>2, <1>6 DEF BranchOp
    <2>2. Manual!Taken(funct3(Word32), rs1val, rs2val) <=> SignedLess(rs1val, rs2val, 32)
      BY <1>2, <1>6, SameNum, SameSignedLess DEF Manual!Taken
    <2> QED
      BY <2>1, <2>2 DEF Taken
  <1>7. CASE n = 5
    <2>1. BranchOp(funct3(Word32)) = "ge"
      BY <1>2, <1>7 DEF BranchOp
    <2>2. Manual!Taken(funct3(Word32), rs1val, rs2val) <=> ~SignedLess(rs1val, rs2val, 32)
      BY <1>2, <1>7, SameNum, SameSignedLess DEF Manual!Taken
    <2> QED
      BY <2>1, <2>2 DEF Taken
  <1>8. CASE n = 6
    <2>1. BranchOp(funct3(Word32)) = "ltu"
      BY <1>2, <1>8 DEF BranchOp
    <2>2. Manual!Taken(funct3(Word32), rs1val, rs2val) <=> Less(rs1val, rs2val, 32)
      BY <1>2, <1>8, SameNum, SameLess DEF Manual!Taken
    <2> QED
      BY <2>1, <2>2 DEF Taken
  <1>9. CASE n = 7
    <2>1. BranchOp(funct3(Word32)) = "geu"
      BY <1>2, <1>9 DEF BranchOp
    <2>2. Manual!Taken(funct3(Word32), rs1val, rs2val) <=> ~Less(rs1val, rs2val, 32)
      BY <1>2, <1>9, SameNum, SameLess DEF Manual!Taken
    <2> QED
      BY <2>1, <2>2 DEF Taken
  <1> QED
    BY <1>3, <1>4, <1>5, <1>6, <1>7, <1>8, <1>9

LEMMA BranchStep == ASSUME TypeOK, TypeOK', Branch PROVE Manual!Next
  <1> DEFINE taken == Taken(BranchOp(funct3(Word32)))
             target == Target(pc, b_imm(Word32))
             p == IF taken THEN target ELSE Plus(pc, Num(4), 32)
  <1>1. opcode(Word32) = BRANCH /\ ~ended /\ UNCHANGED <<regs, mem, ended>>
    BY DEF Branch, Fetch, Computes
  <1>2. Goto(p)
    BY DEF Branch, NextWord
  <1>3. ASSUME Manual!Defined(Word32) PROVE p = Manual!NextPc(Word32)
    <2>1. taken <=> Manual!Taken(Manual!funct3(Word32), Manual!X(Word32), Manual!Y(Word32))
      BY <1>1, <1>3, SameBranch, SameFields, SameOperands
    <2>2. target = Manual!Plus(pc, Manual!ImmB(Word32), 32)
      BY BImm, FetchTypes, SamePlus DEF Target
    <2>3. Plus(pc, Num(4), 32) = Manual!Plus(pc, Manual!Num(4), 32)
      BY SamePlus, SameNum
    <2>4. /\ Manual!opcode(Word32) = Manual!BRANCH
          /\ Manual!BRANCH \notin {Manual!JAL, Manual!JALR, Manual!SYSTEM}
      BY <1>1, SameFields, SameOpcodes, OpcodesDiffer
    <2>5. CASE taken
      BY <2>1, <2>2, <2>4, <2>5 DEF Manual!NextPc
    <2>6. CASE ~taken
      BY <2>1, <2>3, <2>4, <2>6 DEF Manual!NextPc
    <2> QED
      BY <2>5, <2>6
  <1> HIDE DEF p
  <1> QED
    BY <1>1, <1>2, <1>3, JumpStep

LEMMA EbreakStep == ASSUME TypeOK, TypeOK', Ebreak PROVE Manual!Next
  <1>1. opcode(Word32) = SYSTEM /\ ~ended /\ UNCHANGED <<regs, mem, ended>> /\ Goto(pc)
    BY DEF Ebreak, Fetch
  <1>2. ended' = FALSE
    BY <1>1 DEF TypeOK
  <1>3. CASE ~Manual!Defined(Word32)
    BY <1>1, <1>2, <1>3, RdFrame, MemFrame, UndefinedStep
  <1>4. CASE Manual!Defined(Word32)
    <2>1. ~Manual!Writes(Word32) /\ opcode(Word32) # STORE
      BY <1>1, SameFields, SameOpcodes, OpcodesDiffer DEF Manual!Writes
    <2>2. Manual!NextPc(Word32) = pc
      BY <1>1, SameFields, SameOpcodes, OpcodesDiffer DEF Manual!NextPc
    <2> QED
      BY <1>1, <1>2, <1>4, <2>1, <2>2, DefinedStep
  <1> QED
    BY <1>3, <1>4

\* A load or store the manual encodes has one of its sizes.
LEMMA Accesses ==
  ASSUME TypeOK, Manual!Defined(Word32), opcode(Word32) \in {LOAD, STORE}
  PROVE  \E n \in {0, 1, 2, 4, 5} :
           /\ funct3(Word32) = Num(n)
           /\ opcode(Word32) = STORE => n \in {0, 1, 2}
           /\ opcode(Word32) = LOAD  => n # 1
  <1>1. PICK n \in 0 .. 7 : funct3(Word32) = Num(n)
    BY Funct3, FetchTypes
  <1>2. \A m \in 0 .. 7 : funct3(Word32) = Num(m) <=> n = m
    BY <1>1, Distinct
  <1>3. Word32 # Manual!EBREAK
    <2>1. SYSTEM \cap (0 .. 6) = SYSTEM /\ {20} \cap (0 .. 6) = {}
      BY DEF SYSTEM
    <2> QED
      BY <2>1, SameOpcodes, OpcodesDiffer DEF Manual!EBREAK, opcode
  <1>4. /\ opcode(Word32) = LOAD  => funct3(Word32) \notin {Num(3), Num(6), Num(7)}
        /\ opcode(Word32) = STORE => funct3(Word32) \in {Num(0), Num(1), Num(2)}
    BY <1>3, SameFields, SameOpcodes, SameNum, OpcodesDiffer
    DEF Manual!Defined, Manual!Encodes
  <1>5. opcode(Word32) = LOAD => funct3(Word32) # Num(1)
    BY SameFields, SameOpcodes, SameNum, OpcodesDiffer DEF Manual!Defined, Manual!OpName
  <1> QED
    BY <1>1, <1>2, <1>4, <1>5

\* What the manual loads is what the taurus loads, where it is aligned and of memory.
LEMMA SameLoaded ==
  ASSUME TypeOK, Manual!Defined(Word32), opcode(Word32) = LOAD
  PROVE  /\ LoadOp(funct3(Word32)) # "none"
         /\ ~FromDevice(LoadOp(funct3(Word32)), LoadAddr)
         /\ Loaded(LoadOp(funct3(Word32)), LoadAddr) = Manual!Result(Word32)
  <1> DEFINE f == funct3(Word32)
             a == LoadAddr
  <1>1. PICK n \in {0, 2, 4, 5} : f = Num(n)
    BY Accesses
  <1>2. \A m \in 0 .. 7 : f = Num(m) <=> n = m
    BY <1>1, Distinct
  <1>3. Manual!Aligned(a, f) /\ a \notin Devices
    BY SameFields, SameOpcodes, SameAddresses DEF Manual!Defined
  <1>4. Manual!Result(Word32) = Manual!Load(a, f)
    BY SameFields, SameOpcodes, SameAddresses, OpcodesDiffer DEF Manual!Result
  <1>5. Manual!Load(a, f) =
          IF 2 \in f THEN LoadU(a, Manual!Size(f))
          ELSE SignExtend(LoadU(a, Manual!Size(f)), 8 * Manual!Size(f), 32)
    BY SameLoad, SameExtend DEF Manual!Load
  <1>6. CASE n = 0
    <2>1. LoadOp(f) = "lb" /\ f = {}
      BY <1>2, <1>6 DEF LoadOp, Num
    <2>2. Manual!Size(f) = 1 /\ 2 \notin f
      BY <2>1 DEF Manual!Size
    <2> QED
      BY <1>3, <1>4, <1>5, <2>1, <2>2 DEF Loaded, FromDevice, Misaligned
  <1>7. CASE n = 2
    <2>1. LoadOp(f) = "lw" /\ f = {1}
      BY <1>2, <1>7 DEF LoadOp, Num
    <2>2. Manual!Size(f) = 4 /\ 2 \notin f
      BY <2>1 DEF Manual!Size
    <2>3. ~Misaligned(a, "lw")
      BY <1>3, <2>2 DEF Misaligned, Manual!Aligned
    <2>4. SignExtend(LoadU(a, 4), 8 * 4, 32) = LoadU(a, 4)
      <3>1. 31 .. 31 = {31} /\ 8 * 4 = 32 /\ 32 - 1 = 31
        OBVIOUS
      <3>2. 32 .. 31 = {}
        OBVIOUS
      <3> QED
        BY <3>1, <3>2 DEF SignExtend
    <2> QED
      BY <1>3, <1>4, <1>5, <2>1, <2>2, <2>3, <2>4 DEF Loaded, FromDevice
  <1>8. CASE n = 4
    <2>1. LoadOp(f) = "lbu" /\ f = {2}
      BY <1>2, <1>8 DEF LoadOp, Num
    <2>2. Manual!Size(f) = 1 /\ 2 \in f
      BY <2>1 DEF Manual!Size
    <2> QED
      BY <1>3, <1>4, <1>5, <2>1, <2>2 DEF Loaded, FromDevice, Misaligned
  <1>9. CASE n = 5
    <2>1. LoadOp(f) = "lhu" /\ f = {0, 2}
      BY <1>2, <1>9 DEF LoadOp, Num
    <2>2. Manual!Size(f) = 2 /\ 2 \in f
      BY <2>1 DEF Manual!Size
    <2>3. ~Misaligned(a, "lhu")
      BY <1>3, <2>2 DEF Misaligned, Manual!Aligned
    <2> QED
      BY <1>3, <1>4, <1>5, <2>1, <2>2, <2>3 DEF Loaded, FromDevice
  <1> QED
    BY <1>1, <1>6, <1>7, <1>8, <1>9

LEMMA LoadStep == ASSUME TypeOK, TypeOK', Load PROVE Manual!Next
  <1> DEFINE op == LoadOp(funct3(Word32))
  <1>1. opcode(Word32) = LOAD /\ ~ended /\ UNCHANGED <<mem, ended>> /\ NextWord
    BY DEF Load, Fetch
  <1>2. ended' = FALSE /\ Goto(Plus(pc, Num(4), 32))
    BY <1>1 DEF TypeOK, NextWord
  <1>3. CASE ~Manual!Defined(Word32)
    <2>1. \A r \in Reg : r = {} \/ r # rd(Word32) => regs'[r] = regs[r]
      BY RdFrame DEF Load
    <2> QED
      BY <1>1, <1>2, <1>3, <2>1, MemFrame, UndefinedStep
  <1>4. CASE Manual!Defined(Word32)
    <2>1. SetRd(Loaded(op, LoadAddr))
      BY <1>1, <1>4, SameLoaded DEF Load
    <2> QED
      BY <1>1, <1>4, <2>1, SameLoaded, OpcodesDiffer, RegisterStep
  <1> QED
    BY <1>3, <1>4

\* A store changes the bytes at its address.
LEMMA StoreFrame ==
  ASSUME NEW m \in [Address -> Byte], NEW a, NEW n \in {1, 2, 4}, NEW v,
         NEW c \in Address, ~\E i \in 0 .. 3 : c = Cell(Masked(a), i, RAM_BITS)
  PROVE  Store(m, a, n, v)[c] = m[c]
  <1>1. ~\E i \in 0 .. n - 1 : c = Cell(Masked(a), i, RAM_BITS)
    OBVIOUS
  <1> QED
    BY <1>1 DEF Store, StoreBytes

\* A store the manual defines has its size, is aligned and stays in memory.
LEMMA AlignedStore ==
  ASSUME TypeOK, Manual!Defined(Word32), opcode(Word32) = STORE
  PROVE  LET op == StoreOp(funct3(Word32))
         IN /\ op # "none" /\ Width(op) = Manual!Size(funct3(Word32))
            /\ ~Misaligned(StoreAddr, op) /\ StoreAddr \notin Devices
  <1> DEFINE f == funct3(Word32)
             op == StoreOp(f)
             a == StoreAddr
  <1>1. PICK n \in {0, 1, 2} : f = Num(n)
    BY Accesses
  <1>2. \A m \in 0 .. 7 : f = Num(m) <=> n = m
    BY <1>1, Distinct
  <1>3. Manual!Aligned(a, f) /\ a \notin Devices
    BY SameFields, SameOpcodes, SameAddresses DEF Manual!Defined
  <1>4. CASE n = 0
    BY <1>2, <1>3, <1>4 DEF StoreOp, Width, Manual!Size, Num, Misaligned, Manual!Aligned
  <1>5. CASE n = 1
    BY <1>2, <1>3, <1>5 DEF StoreOp, Width, Manual!Size, Num, Misaligned, Manual!Aligned
  <1>6. CASE n = 2
    BY <1>2, <1>3, <1>6 DEF StoreOp, Width, Manual!Size, Num, Misaligned, Manual!Aligned
  <1> QED
    BY <1>1, <1>4, <1>5, <1>6

LEMMA StoreStep == ASSUME TypeOK, TypeOK', StoreMem PROVE Manual!Next
  <1> DEFINE op == StoreOp(funct3(Word32))
             a == StoreAddr
  <1>1. /\ opcode(Word32) = STORE /\ ~ended /\ UNCHANGED <<regs, ended>> /\ NextWord
        /\ op = "none" => UNCHANGED mem
        /\ op # "none" => Stored(op, a, rs2val)
    BY DEF StoreMem, Fetch
  <1>2. ended' = FALSE /\ Goto(Plus(pc, Num(4), 32))
    BY <1>1 DEF TypeOK, NextWord
  <1>3. op # "none" => op \in {"sb", "sh", "sw"}
    BY DEF StoreOp
  <1>4. CASE ~Manual!Defined(Word32)
    <2>1. ASSUME NEW c \in Address, ~\E i \in 0 .. 3 : c = Cell(Masked(a), i, RAM_BITS)
          PROVE  mem'[c] = mem[c]
      <3>1. Zeroed(op, a) \in [Address -> Byte] /\ Zeroed(op, a)[c] = mem[c]
        BY <2>1, ZeroedType, StoreFrame DEF Zeroed, TypeOK
      <3>2. op # "none" => Width(op) \in {1, 2, 4}
        BY <1>3 DEF Width
      <3>3. op # "none" => Store(Zeroed(op, a), a, Width(op), rs2val)[c] = mem[c]
        BY <2>1, <3>1, <3>2, StoreFrame
      <3> QED
        BY <1>1, <3>1, <3>3 DEF Stored
    <2>2. Frame
      BY <1>1, <2>1 DEF Frame
    <2> QED
      BY <1>1, <1>2, <1>4, <2>2, UndefinedStep
  <1>5. CASE Manual!Defined(Word32)
    <2> DEFINE f == funct3(Word32)
    <2>1. op # "none" /\ Width(op) = Manual!Size(f) /\ ~Misaligned(a, op) /\ a \notin Devices
      BY <1>1, <1>5, AlignedStore
    <2>2. mem' = Store(mem, a, Manual!Size(f), rs2val)
      BY <1>1, <2>1 DEF Stored, Zeroed
    <2>3. ~Manual!Writes(Word32)
      BY <1>1, SameFields, SameOpcodes DEF Manual!Writes
    <2> QED
      BY <1>1, <1>2, <1>5, <2>2, <2>3, NextPcSeq, OpcodesDiffer, DefinedStep
  <1> QED
    BY <1>4, <1>5

\* Memory is left only from a word the manual does not define.
LEMMA OverrunStep == ASSUME TypeOK, Overrun PROVE Manual!Next
  <1>1. ~ended /\ ended' = TRUE /\ UNCHANGED <<pc, regs, mem>>
    BY DEF Overrun
  <1>2. ASSUME Manual!Defined(Word32), ~Fits(Masked(pc), 4, RAM_BITS) PROVE FALSE
    <2>1. Masked(pc) \cap {0, 1} = {}
      BY <1>2 DEF Manual!Defined, Masked
    <2>2. Num(4 - 1) = {0, 1}
      BY DEF Num
    <2> QED
      BY <1>2, <2>1, <2>2 DEF Fits, Carry
  <1>3. ASSUME Manual!Defined(Word32), opcode(Word32) = STORE,
               Leaves(StoreOp(funct3(Word32)), StoreAddr)
        PROVE  FALSE
    BY <1>3, AlignedStore DEF Leaves
  <1>4. Manual!Halt(Word32)
    BY <1>1, <1>2, <1>3 DEF Overrun, Manual!Halt
  <1> QED
    BY <1>1, <1>4, SameOperands DEF Manual!Next

\* Step by step, the taurus is the machine of the manual, but for `sra` and `lh`.
THEOREM TaurusIsRV32I == Spec => ImplementsManual
  <1>1. Init => Manual!Init
    BY TypeInit, SameTypes DEF Manual!Init, TypeOK, Init
  <1>2. TypeOK /\ TypeOK' /\ [Next]_vars => [Manual!Next]_Manual!vars
    <2> SUFFICES ASSUME TypeOK, TypeOK', [Next]_vars PROVE [Manual!Next]_Manual!vars
      OBVIOUS
    <2>1. CASE Terminated \/ UNCHANGED vars
      BY <2>1 DEF Terminated, vars, Manual!vars
    <2> QED
      BY <2>1, LuiStep, AuipcStep, JalStep, JalrStep, BranchStep, LoadStep, StoreStep,
         ArithStep, EbreakStep, DefaultStep, OverrunStep DEF Next
  <1> QED
    BY <1>1, <1>2, TypeCorrect, PTL DEF Spec, ImplementsManual, Manual!Spec
=============================================================================
