---------------------------- MODULE MCIntel8080 ----------------------------
(***************************************************************************)
(* Every opcode of the 8080 in a memory of 16 bytes, with operands at the  *)
(* boundaries, and what comes before and behind it.                        *)
(***************************************************************************)
EXTENDS Intel8080

W(n) == {b \in Bits(16) : (n \div 2 ^ b) % 2 = 1}

\* From intel8080/arch.c.
MCTty == [ready |-> W(45051), ascii |-> W(45052), loc |-> W(45055),
          char |-> W(45054), write |-> W(45053), clear |-> W(45050)]

\* Enter and another key.
MCKeys == {W(10), W(65)}

\* Registers: those of hl, and the others.
File(a, bc, de, hl) ==
  [r \in Reg |-> CASE r = RegB -> High(bc) [] r = RegC -> LowByte(bc)
                   [] r = RegD -> High(de) [] r = RegE -> LowByte(de)
                   [] r = RegH -> High(hl) [] r = RegL -> LowByte(hl)
                   [] r = RegA -> a]

\* A program: a byte, the opcode at `at` and its operand, and a filler.
Program(first, at, op, lo, hi, fill) ==
  [c \in Address |-> CASE c = at -> op
                       [] c = Cell(at, 1, RAM_BITS) -> lo
                       [] c = Cell(at, 2, RAM_BITS) -> hi
                       [] c = {} /\ at # {} -> first
                       [] OTHER -> fill]

M(op, at, first, lo, hi, fill, f, s, p, fl) ==
  [regs |-> f, sp |-> W(s), pc |-> W(p), flags |-> fl,
   mem |-> Program(W(first), W(at), op, W(lo), W(hi), W(fill))]

\* LDAX of READY, LDA of READY, POP PSW after the opcode; PUSH PSW, PUSH H, CALL
\* before it; the pc and the sp at the end of the memory.
MCMachines ==
  UNION {
    { M(op, 0, 0, 241, 0, 201, File(W(255), W(45051), W(1), W(5)), 8, 0, {"cy", "ac"}),
      M(op, 0, 0, 251, 175, 58, File(W(1), W(1), W(32768), W(45055)), 15, 0, {"z", "p"}),
      M(op, 0, 0, 128, 0, 10, File(W(128), W(45055), W(45051), W(45051)), 1, 0, {}),
      M(op, 1, 245, 153, 8, 241, File(W(154), W(0), W(255), W(65535)), 10, 0, {"ac", "s", "cy"}),
      M(op, 1, 229, 255, 0, 225, File(W(0), W(65535), W(7), W(12)), 12, 0, {"z", "p", "cy"}),
      M(op, 15, 1, 58, 251, 201, File(W(127), W(257), W(6), W(129)), 9, 65535, {"s"}) }
    : op \in Byte }
  \cup { M(W(205), 0, 0, 6, 1, 201, File(W(1), W(2), W(3), W(4)), 14, 0, {}),
         M(W(0), 14, 0, 6, 1, 201, File(W(1), W(2), W(3), W(4)), 14, 14, {}) }
  \* DAA of sums at the boundaries of the digits.
  \cup { M(DAA, 0, 0, 0, 0, 0, File(W(a), W(0), W(0), W(0)), 8, 0, fl) :
           a \in {9, 18, 35, 57, 144, 153, 154, 159, 160, 176, 250},
           fl \in SUBSET {"ac", "cy"} }
=============================================================================
