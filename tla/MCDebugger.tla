----------------------------- MODULE MCDebugger -----------------------------
(***************************************************************************)
(* Instances of Debugger for TLC: a memory of two instructions, words that *)
(* hold twice as many addresses, and programs that hold every class of     *)
(* instruction.                                                            *)
(***************************************************************************)
EXTENDS Debugger, TLC

Insn(o, t) == [op |-> o, target |-> t]

\* One that polls a device beyond the memory and branches, one that computes and
\* jumps beyond the memory, and one that stores and ends in an EBREAK.
PollLoop  == 0 :> Insn("memory", 2) @@ 1 :> Insn("branch", 0)
FarLoop   == 0 :> Insn("jump", 3) @@ 1 :> Insn("arith", 0)
Trap      == 0 :> Insn("memory", 0) @@ 1 :> Insn("ebreak", 0)

MCPrograms == {PollLoop, FarLoop, Trap}
=============================================================================
