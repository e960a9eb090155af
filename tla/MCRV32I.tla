------------------------------- MODULE MCRV32I -------------------------------
(***************************************************************************)
(* Instances of RV32I for TLC: a memory of 16 bytes, a first word of every *)
(* opcode and funct3, and register files with values at the boundaries.    *)
(***************************************************************************)
EXTENDS RV32I

\* The two low bits of every opcode of RV32I are set; {0, 1, 2, 3} is FENCE and
\* {0, 1, 3} no opcode.
MCOpcodes == Opcodes \cup {{0, 1, 2, 3}, {0, 1, 3}}

\* A word with one other bit: every bit of an immediate is one bit of the word.
OneBit ==
  {o \cup Shl(f, 12, 32) \cup e :
     o \in MCOpcodes, f \in SUBSET (0 .. 2),
     e \in {{}} \cup {{a} : a \in (7 .. 11) \cup (15 .. 31)}}

\* All registers of a small file, with and without bit 30.
AllOperands ==
  {o \cup Shl(f, 12, 32) \cup Shl(d, 7, 32) \cup Shl(s, 15, 32) \cup Shl(t, 20, 32) \cup e :
     o \in {ARITH, ARITHI, BRANCH, STORE, LOAD, JALR}, f \in SUBSET (0 .. 2),
     d \in {{}, {0}}, s \in SUBSET {0, 1}, t \in SUBSET {0, 1}, e \in {{}, {30}}}

\* 0, -1, the smallest number, 4, 7 (no address of a word), 13, 2^16 + 8.
Values == <<{}, 0 .. 31, {31}, {2}, {0, 1, 2}, {0, 2, 3}, {16, 3}, {0, 31}>>

\* x(n) holds Values[n + k]; x0 is 0.
File(k) ==
  [r \in SUBSET (0 .. 4) |->
     IF r = {} THEN {}
     ELSE LET n == (IF 0 \in r THEN 1 ELSE 0) + (IF 1 \in r THEN 2 ELSE 0)
                     + (IF 2 \in r THEN 4 ELSE 0)
          IN Values[((n + k) % 8) + 1]]

\* The word at a, behind it a `sw` of x1, and bytes with and without a sign.
Memory(w, a) ==
  LET filled == [c \in SUBSET (0 .. 3) |-> IF 0 \in c THEN {7, 0} ELSE {1}]
  IN StoreBytes(StoreBytes(filled, Plus(a, {2}, 4), 4, STORE \cup {13} \cup {20}, 4),
                a, 4, w, 4)

MCMachines ==
  [w : OneBit, k : {0}, a : {{}}]
    \cup [w : AllOperands, k : {0}, a : {{}}]
    \cup [w : {STORE \cup {13, 20}, JAL}, k : {1}, a : {{1}, {1, 2, 3}}]

MCRecords == {[pc |-> x.a, regs |-> File(x.k), mem |-> Memory(x.w, x.a)] : x \in MCMachines}
MCDevices == {{3}, {0, 2, 3}}
MCDeviceBytes == {{}, {7}}
=============================================================================
