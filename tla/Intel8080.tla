------------------------------ MODULE Intel8080 ------------------------------
(***************************************************************************)
(* The processor of the other machine: Intel8080_Step() of intel8080.c, an *)
(* action per group of opcodes, on the memory and the tty behind its       *)
(* custom_bus.c, with the keys that Tty_Tick() latches between batches.    *)
(***************************************************************************)
EXTENDS Words, FiniteSets

CONSTANTS
  RAM_BITS,  (* 16: Intel8080_RAM_MASK holds the bits below                  *)
  Tty,       (* the offsets CreateTty() is given                             *)
  Keys,      (* bytes that are typed                                         *)
  Machines,  (* programs and registers: what the debugger left               *)
  MaxSteps   (* bound: instructions that are executed                        *)

Byte    == SUBSET Bits(8)
Pair    == SUBSET Bits(16)
Offset  == SUBSET Bits(17)      \* pc + 1 is not cut off
Address == SUBSET Bits(RAM_BITS)

\* The registers by the three bits of their number.
RegB == {}
RegC == {0}
RegD == {1}
RegE == {0, 1}
RegH == {2}
RegL == {0, 2}
RegM == {1, 2}
RegA == {0, 1, 2}

Reg == (SUBSET (0 .. 2)) \ {RegM}

Flags == {"z", "s", "p", "cy", "ac"}

Machine ==
  [regs : [Reg -> Byte], sp : Pair, pc : Pair, flags : SUBSET Flags, mem : [Address -> Byte]]

ASSUME Intel8080Assumption ==
  /\ RAM_BITS \in 2 .. 16 /\ MaxSteps \in Nat
  /\ Tty \in [{"ready", "ascii", "loc", "char", "write", "clear"} -> Pair]
  /\ Keys \subseteq Byte /\ Machines \subseteq Machine

VARIABLES
  regs, sp, pc, flags, ir, mar,
  mem,
  ready, ascii, loc,  \* user_ready, user_ascii and tty_loc of the tty
  ended,              \* an access left the memory: the process is gone
  steps,              \* instructions so far
  saved               \* history: what is on top of the stack, and from where

cpu  == <<regs, sp, pc, flags, ir, mar>>
tty  == <<ready, ascii, loc>>
vars == <<cpu, mem, tty, ended, steps, saved>>

Nothing == [kind |-> "nothing", pair |-> {}, at |-> {}, regs |-> [r \in Reg |-> {}], flags |-> {}, pc |-> {}]

Saved ==
  [kind : {"nothing", "call", "pair"}, pair : SUBSET {0, 1}, at : Pair, regs : [Reg -> Byte],
   flags : SUBSET Flags, pc : Pair]

TypeOK ==
  /\ regs \in [Reg -> Byte] /\ sp \in Pair /\ pc \in Pair /\ flags \in SUBSET Flags
  /\ ir \in Byte /\ mar \in Offset
  /\ mem \in [Address -> Byte]
  /\ ready \in BOOLEAN /\ ascii \in Byte /\ loc \in Byte
  /\ ended \in BOOLEAN /\ steps \in 0 .. MaxSteps
  /\ saved \in Saved

Init ==
  /\ \E m \in Machines :
       regs = m.regs /\ sp = m.sp /\ pc = m.pc /\ flags = m.flags /\ mem = m.mem
  /\ ir = {} /\ mar = {}
  /\ ready = FALSE /\ ascii = {} /\ loc = {}
  /\ ended = FALSE /\ steps = 0
  /\ saved = Nothing

-----------------------------------------------------------------------------
(* The bus *)

\* a & Intel8080_RAM_MASK
Masked(a) == a \cap Bits(RAM_BITS)

\* What a load of a byte at a returns when m and l are the memory and tty_loc, and
\* the instruction has loaded from the offsets in `before` already.
Peek(a, m, l, before) ==
  IF a = Tty.ready THEN (IF ready /\ Tty.ready \notin before THEN {0} ELSE {})
  ELSE IF a = Tty.ascii THEN ascii
  ELSE IF a = Tty.loc THEN l
  ELSE IF a \in {Tty.char, Tty.write, Tty.clear} THEN {}
  ELSE m[Masked(a)]

\* The loads of an instruction: that of READY takes the flag.
Loads(offsets) == ready' = (ready /\ Tty.ready \notin offsets)

\* A byte for the tty goes on to memory.
StoreU8(a, v) ==
  /\ mem' = [mem EXCEPT ![Masked(a)] = v]
  /\ loc' = IF a = Tty.loc THEN v ELSE loc

\* Words do not reach the tty.
LoadU16(a) == LoadBytes(mem, Masked(a), 2, RAM_BITS)

StoreU16(a, v) ==
  /\ mem' = StoreBytes(mem, Masked(a), 2, v, RAM_BITS)
  /\ UNCHANGED loc

NoStore == UNCHANGED <<mem, loc>>

-----------------------------------------------------------------------------
(* The fetch *)

After(n) == Plus(pc, Num(n), 17)

\* The bytes of an instruction are loaded, three of them whatever its length.
FetchedAt == {pc, After(1), After(2)}

Op   == Peek(pc, mem, loc, {})
limm == Peek(After(1), mem, loc, {pc})
imm  == LoadU16(After(1))

wdest == Shr(Op, 3) \cap (0 .. 2)
wsrc  == Op \cap (0 .. 2)
dsrc  == Shr(Op, 4) \cap {0, 1}

HL == regs[RegL] \cup Shl(regs[RegH], 8, 16)

\* Where the M operand is loaded from, with the registers q: for every opcode with
\* these low bits, used or not.
MLoad(q) ==
  IF wsrc = RegM THEN {q[RegL] \cup Shl(q[RegH], 8, 16)} ELSE {}

\* The groups of opcodes: ir & mask.
Low(op)  == op \cap {0, 1, 2, 6, 7}
Low4(op) == op \cap {0, 1, 2, 3, 6, 7}

INR  == {2}
DCR  == {0, 2}
MVI  == {1, 2}
ALUI == {1, 2, 6, 7}
RST  == {0, 1, 2, 6, 7}
JCC == {1, 6, 7}
CCC == {2, 6, 7}
RCC == {6, 7}
MOV == {6}
ALU == {7}
PUSH == {0, 2, 6, 7}
POP  == {0, 6, 7}
DAD  == {0, 3}
LXI  == {0}
INX  == {0, 1}
DCX  == {0, 1, 3}
NOP == {}
CMC == 0 .. 5
STC == {0, 1, 2, 4, 5}
CMA == {0, 1, 2, 3, 5}
DAA == {0, 1, 2, 5}
STAX == {{1}, {1, 4}}
LDAX == {{1, 3}, {1, 3, 4}}
RLC == {0, 1, 2}
RRC == {0, 1, 2, 3}
RAL == {0, 1, 2, 4}
RAR == {0, 1, 2, 3, 4}
XCHG == {0, 1, 3, 5, 6, 7}
SPHL == {0, 3, 4, 5, 6, 7}
XTHL == {0, 1, 5, 6, 7}
STA  == {1, 4, 5}
LDA  == {1, 3, 4, 5}
SHLD == {1, 5}
LHLD == {1, 3, 5}
PCHL == {0, 3, 5, 6, 7}
JMP  == {0, 1, 6, 7}
CALL == {0, 2, 3, 6, 7}
RET  == {0, 3, 6, 7}
EI == {0, 1, 3, 4, 5, 6, 7}
DI == {0, 1, 4, 5, 6, 7}
IN_PORT  == {0, 1, 3, 4, 6, 7}
OUT_PORT == {0, 1, 4, 6, 7}

\* The condition in bits 3 .. 5.
Holds ==
  LET f == CASE dsrc = {} -> "z" [] dsrc = {0} -> "cy" [] dsrc = {1} -> "p" [] dsrc = {0, 1} -> "s"
  IN (f \in flags) = (3 \in Op)

Calls   == Op = CALL \/ (Low(Op) = CCC /\ Holds)
Returns == Op = RET \/ (Low(Op) = RCC /\ Holds)

\* Where the instruction accesses 16 bits.
Words16 ==
  {After(1)}
    \cup (IF Low4(Op) = PUSH \/ Low(Op) = RST \/ Calls THEN {Minus(sp, {1}, 16)} ELSE {})
    \cup (IF Low4(Op) = POP \/ Op = XTHL \/ Returns THEN {sp} ELSE {})
    \cup (IF Op = SHLD THEN {imm} ELSE {})

Overruns == \E a \in Words16 : ~Fits(Masked(a), 2, RAM_BITS)

Fetch ==
  /\ ~ended /\ steps < MaxSteps
  /\ ~Overruns
  /\ ir' = Op
  /\ steps' = steps + 1
  /\ UNCHANGED <<ascii, ended>>

\* pc += n, and 16 bits of it
Goes(n) == pc' = Plus(pc, Num(n), 16)

\* History: a store over the top of the stack.
Forget ==
  saved' = IF \E i \in {0, 1} : LET c == Cell(Masked(saved.at), i, RAM_BITS) IN mem'[c] # mem[c]
           THEN Nothing ELSE saved

-----------------------------------------------------------------------------
(* Registers *)

\* Intel8080_ReadWReg()
RWReg(r, before) == IF r = RegM THEN Peek(HL, mem, loc, before) ELSE regs[r]

\* Intel8080_WriteWReg()
WWReg(r, v) ==
  \/ r = RegM /\ StoreU8(HL, v) /\ UNCHANGED regs
  \/ r # RegM /\ regs' = [regs EXCEPT ![r] = v] /\ NoStore

FlagBit == [cy |-> 0, p |-> 2, ac |-> 4, z |-> 6, s |-> 7]

\* Mutant: the auxiliary carry is read from the bit beside.
AcBitWrong(v) == {f \in Flags : (IF f = "ac" THEN 5 ELSE FlagBit[f]) \in v}

\* The flags of a PSW, and the PSW of the flags.
FromPsw(v) == {f \in Flags : FlagBit[f] \in v}
ToPsw(f)   == {1} \cup {FlagBit[x] : x \in f}

High(v) == Shr(v, 8) \cap Bits(8)
LowByte(v) == v \cap Bits(8)

Both(h, l) == Shl(h, 8, 16) \cup l

\* The registers of the pair d.
HighOf(d) == CASE d = {} -> RegB [] d = {0} -> RegD [] d = {1} -> RegH
LowOf(d)  == CASE d = {} -> RegC [] d = {0} -> RegE [] d = {1} -> RegL

\* Intel8080_ReadDReg() with sp, and without.
RDReg(d)    == IF d = {0, 1} THEN sp ELSE Both(regs[HighOf(d)], regs[LowOf(d)])
RDRegPsw(d) == IF d = {0, 1} THEN Both(regs[RegA], ToPsw(flags)) ELSE RDReg(d)

WritePair(q, d, v) == [q EXCEPT ![HighOf(d)] = High(v), ![LowOf(d)] = LowByte(v)]

\* Intel8080_WriteDReg() with sp.
WDReg(d, v) ==
  \/ d = {0, 1} /\ sp' = v /\ UNCHANGED regs
  \/ d # {0, 1} /\ regs' = WritePair(regs, d, v) /\ UNCHANGED sp

-----------------------------------------------------------------------------
(* The arithmetic unit *)

If(f, p) == IF p THEN {f} ELSE {}

\* Intel8080_Set_SZP()
SetSZP(f, x) ==
  (f \cap {"cy", "ac"}) \cup If("s", 7 \in x) \cup If("z", x = {})
    \cup If("p", Cardinality(x) % 2 = 0)

Result(x, cy, ac) == [a |-> x, flags |-> SetSZP(If("cy", cy) \cup If("ac", ac), x)]

\* ac is computed from x and x.
Add(x, y) ==
  LET sum == Plus(x, y, 9) IN Result(LowByte(sum), 8 \in sum, 3 \in x)

\* Mutant: the borrow is the carry of the sum.
SubtractCarry(x, y) ==
  LET sum == Plus(Plus(x, Not(y, 8), 9), {0}, 9) IN Result(LowByte(sum), 8 \in sum, 3 \in x)

Subtract(x, y) ==
  LET sum == Plus(Plus(x, Not(y, 8), 9), {0}, 9) IN Result(LowByte(sum), 8 \notin sum, 3 \in x)

\* s2 + state->cy, cut off to a byte.
WithCarry(y) == Plus(y, If(0, "cy" \in flags), 8)

ADD == {}
ADC == {0}
SUB == {1}
SBB == {0, 1}
ANA == {2}
XRA == {0, 2}
ORA == {1, 2}
CMP == {0, 1, 2}

\* What the operation does to A and the flags.
Alu(op, x, y) ==
  CASE op = ADD -> Add(x, y)
    [] op = ADC -> Add(x, WithCarry(y))
    [] op = SUB -> Subtract(x, y)
    [] op = SBB -> Subtract(x, WithCarry(y))
    [] op = ANA -> Result(x \cap y, FALSE, FALSE)
    [] op = XRA -> Result(Xor(x, y), FALSE, FALSE)
    [] op = ORA -> Result(x \cup y, FALSE, FALSE)
    [] op = CMP -> [Subtract(x, y) EXCEPT !.a = x]

\* (a & 0x0f) > 9, (a >> 4) > 9 and (a >> 4) >= 9.
OnesAbove(a) == 3 \in a /\ a \cap {1, 2} # {}
TensAbove(a) == 7 \in a /\ a \cap {5, 6} # {}
NineTens(a)  == 7 \in a /\ a \cap {4, 5, 6} # {}

\* Mutant: what the ones carry into nine tens is forgotten.
TensAlone(a) == TensAbove(a)

Hundred(a) == TensAbove(a) \/ (NineTens(a) /\ OnesAbove(a))

DecimalAdjust ==
  LET a     == regs[RegA]
      six   == OnesAbove(a) \/ "ac" \in flags
      sixty == Hundred(a) \/ "cy" \in flags
  IN Add(a, (IF six THEN {1, 2} ELSE {}) \cup (IF sixty THEN {5, 6} ELSE {}))

SetA(v) == regs' = [regs EXCEPT ![RegA] = v]

-----------------------------------------------------------------------------
(* The groups of the step *)

\* INR and DCR load M again for the flags.
Count ==
  /\ Low(Op) \in {INR, DCR} /\ Fetch
  /\ LET old == RWReg(wdest, FetchedAt)
         new == IF Low(Op) = INR THEN Plus(old, {0}, 8) ELSE Minus(old, {0}, 8)
     IN /\ WWReg(wdest, new)
        /\ flags' = SetSZP(flags, IF wdest = RegM
                                  THEN Peek(HL, mem', loc', FetchedAt \cup {HL}) ELSE new)
  /\ Loads(FetchedAt \cup (IF wdest = RegM THEN {HL} ELSE {}))
  /\ Goes(1) /\ UNCHANGED <<sp, mar>> /\ Forget

\* The load of s2 comes after the move.
MoveImmediate ==
  /\ Low(Op) = MVI /\ Fetch
  /\ WWReg(wdest, limm)
  /\ Loads(FetchedAt \cup MLoad(regs'))
  /\ Goes(2) /\ UNCHANGED <<sp, flags, mar>> /\ Forget

\* MOV r,M loads s2 first, and then what it moves.
Move ==
  /\ Op \cap {6, 7} = MOV /\ Fetch
  /\ WWReg(wdest, RWReg(wsrc, FetchedAt \cup MLoad(regs)))
  /\ Loads(FetchedAt \cup MLoad(regs))
  /\ Goes(1) /\ UNCHANGED <<sp, flags, mar>> /\ Forget

\* Mutant: the operand of an immediate instruction is not counted.
OneByte == 1

\* ALUI counts its operand before it goes to the operation.
OperandBytes == IF Low(Op) = ALUI THEN 2 ELSE 1

Arithmetic ==
  /\ \/ Op \cap {6, 7} = ALU
     \/ Low(Op) = ALUI
  /\ Fetch
  /\ LET s2 == IF Low(Op) = ALUI THEN LowByte(imm) ELSE RWReg(wsrc, FetchedAt)
         r  == Alu(wdest, regs[RegA], s2)
     IN SetA(r.a) /\ flags' = r.flags
  /\ Loads(FetchedAt \cup MLoad(regs))
  /\ Goes(OperandBytes)
  /\ NoStore /\ UNCHANGED <<sp, mar, saved>>

\* sp -= 2, and a word is stored there.
PushWord(v, kind, pair, from) ==
  /\ sp' = Minus(sp, {1}, 16) /\ mar' = sp'
  /\ StoreU16(sp', v)
  /\ saved' = [kind |-> kind, pair |-> pair, at |-> sp', regs |-> regs, flags |-> flags, pc |-> from]

Push ==
  /\ Low4(Op) = PUSH /\ Fetch
  /\ PushWord(RDRegPsw(dsrc), "pair", dsrc, {})
  /\ Goes(1) /\ Loads(FetchedAt) /\ UNCHANGED <<regs, flags>>

Pop ==
  /\ Low4(Op) = POP /\ Fetch
  /\ LET v == LoadU16(sp)
     IN \/ /\ dsrc = {0, 1}
           /\ SetA(High(v)) /\ flags' = FromPsw(v)
        \/ /\ dsrc # {0, 1}
           /\ regs' = WritePair(regs, dsrc, v) /\ UNCHANGED flags
  /\ sp' = Plus(sp, {1}, 16) /\ mar' = sp'
  /\ Goes(1) /\ Loads(FetchedAt) /\ NoStore /\ UNCHANGED saved

\* The rest of the instructions neither store nor load from the tty.
Inner(group) ==
  /\ group /\ Fetch
  /\ Loads(FetchedAt) /\ NoStore /\ UNCHANGED saved

AddPairs ==
  /\ Inner(Low4(Op) = DAD)
  /\ LET sum == Plus(RDReg({1}), RDReg(dsrc), 17)
     IN /\ flags' = (flags \ {"cy"}) \cup If("cy", 16 \in sum)
        /\ regs' = WritePair(regs, {1}, sum \cap Bits(16))
  /\ Goes(1) /\ UNCHANGED <<sp, mar>>

LoadPair ==
  /\ Inner(Low4(Op) = LXI)
  /\ WDReg(dsrc, imm)
  /\ Goes(3) /\ UNCHANGED <<flags, mar>>

CountPair ==
  /\ Inner(Low4(Op) \in {INX, DCX})
  /\ WDReg(dsrc, IF Low4(Op) = INX THEN Plus(RDReg(dsrc), {0}, 16)
                                   ELSE Minus(RDReg(dsrc), {0}, 16))
  /\ Goes(1) /\ UNCHANGED <<flags, mar>>

CarryFlag ==
  /\ Inner(Op \in {CMC, STC})
  /\ flags' = IF Op = CMC THEN Xor(flags, {"cy"}) ELSE flags \cup {"cy"}
  /\ Goes(1) /\ UNCHANGED <<regs, sp, mar>>

Complement ==
  /\ Inner(Op = CMA)
  /\ SetA(Not(regs[RegA], 8))
  /\ Goes(1) /\ UNCHANGED <<sp, flags, mar>>

Adjust ==
  /\ Inner(Op = DAA)
  /\ SetA(DecimalAdjust.a) /\ flags' = DecimalAdjust.flags
  /\ Goes(1) /\ UNCHANGED <<sp, mar>>

\* RLC, RRC, RAL and RAR: the bit that falls out, and the one that comes in.
Rotate ==
  /\ Inner(Op \in {RLC, RRC, RAL, RAR})
  /\ LET a    == regs[RegA]
         left == Op \in {RLC, RAL}
         out  == (IF left THEN 7 ELSE 0) \in a
         in   == IF Op \in {RLC, RRC} THEN out ELSE "cy" \in flags
     IN /\ SetA((IF left THEN Shl(a, 1, 8) ELSE Shr(a, 1)) \cup If(IF left THEN 0 ELSE 7, in))
        /\ flags' = (flags \ {"cy"}) \cup If("cy", out)
  /\ Goes(1) /\ UNCHANGED <<sp, mar>>

Exchange ==
  /\ Inner(Op = XCHG)
  /\ regs' = WritePair(WritePair(regs, {1}, RDReg({0})), {0}, RDReg({1}))
  /\ Goes(1) /\ UNCHANGED <<sp, flags, mar>>

StackFromHL ==
  /\ Inner(Op = SPHL)
  /\ sp' = HL
  /\ Goes(1) /\ UNCHANGED <<regs, flags, mar>>

\* mar is not set.
ExchangeTop ==
  /\ Op = XTHL /\ Fetch
  /\ regs' = WritePair(regs, {1}, LoadU16(sp))
  /\ StoreU16(sp, HL)
  /\ Goes(1) /\ Loads(FetchedAt) /\ UNCHANGED <<sp, flags, mar>> /\ Forget

\* STAX and STA.
StoreA ==
  /\ Op \in STAX \cup {STA} /\ Fetch
  /\ LET a == IF Op = STA THEN imm ELSE RDReg(dsrc) IN mar' = a /\ StoreU8(a, regs[RegA])
  /\ Goes(IF Op = STA THEN 3 ELSE 1)
  /\ Loads(FetchedAt) /\ UNCHANGED <<regs, sp, flags>> /\ Forget

\* Mutant: the load is repeated, as that of MOV r,M is.
LoadedTwice(a) == Peek(a, mem, loc, FetchedAt \cup {a})

LoadedA(a) == Peek(a, mem, loc, FetchedAt)

\* LDAX and LDA.
LoadA ==
  /\ Op \in LDAX \cup {LDA} /\ Fetch
  /\ LET a == IF Op = LDA THEN imm ELSE RDReg(dsrc)
     IN mar' = a /\ SetA(LoadedA(a)) /\ Loads(FetchedAt \cup {a})
  /\ Goes(IF Op = LDA THEN 3 ELSE 1)
  /\ NoStore /\ UNCHANGED <<sp, flags, saved>>

StoreHL ==
  /\ Op = SHLD /\ Fetch
  /\ mar' = imm /\ StoreU16(imm, HL)
  /\ Goes(3) /\ Loads(FetchedAt) /\ UNCHANGED <<regs, sp, flags>> /\ Forget

LoadHL ==
  /\ Op = LHLD /\ Fetch
  /\ LET next == Plus(imm, {0}, 17)
         h == Peek(next, mem, loc, FetchedAt)
         l == Peek(imm, mem, loc, FetchedAt \cup {next})
     IN regs' = [regs EXCEPT ![RegH] = h, ![RegL] = l] /\ Loads(FetchedAt \cup {imm, next})
  /\ mar' = imm
  /\ Goes(3) /\ NoStore /\ UNCHANGED <<sp, flags, saved>>

Jump ==
  /\ Inner(Op \in {PCHL, JMP} \/ Low(Op) = JCC)
  /\ \/ Op = PCHL /\ pc' = HL
     \/ (Op = JMP \/ (Op # PCHL /\ Holds)) /\ pc' = imm
     \/ Op \notin {PCHL, JMP} /\ ~Holds /\ Goes(3)
  /\ UNCHANGED <<regs, sp, flags, mar>>

\* The instruction n bytes on.
Behind(n) == Plus(pc, Num(n), 16)

Call ==
  /\ (Op = CALL \/ Low(Op) = CCC) /\ Fetch
  /\ \/ Calls /\ PushWord(Behind(3), "call", {}, Behind(3)) /\ pc' = imm
     \/ ~Calls /\ Goes(3) /\ NoStore /\ UNCHANGED <<sp, mar, saved>>
  /\ Loads(FetchedAt) /\ UNCHANGED <<regs, flags>>

Restart ==
  /\ Low(Op) = RST /\ Fetch
  /\ PushWord(Behind(1), "call", {}, Behind(1))
  /\ pc' = Op \cap {3, 4, 5}
  /\ Loads(FetchedAt) /\ UNCHANGED <<regs, flags>>

\* mar is not set.
Return ==
  /\ Inner(Op = RET \/ Low(Op) = RCC)
  /\ \/ Returns /\ pc' = LoadU16(sp) /\ sp' = Plus(sp, {1}, 16)
     \/ ~Returns /\ Goes(1) /\ UNCHANGED sp
  /\ UNCHANGED <<regs, flags, mar>>

\* NOP, EI and DI, and IN and OUT: there are no interrupts and no ports.
NoOperation ==
  /\ Inner(Op \in {NOP, EI, DI, IN_PORT, OUT_PORT})
  /\ Goes(IF Op \in {IN_PORT, OUT_PORT} THEN 2 ELSE 1)
  /\ UNCHANGED <<regs, sp, flags, mar>>

Known ==
  \/ Low(Op) \in {INR, DCR, MVI, ALUI, RST, JCC, CCC, RCC} \/ Op \cap {6, 7} \in {MOV, ALU}
  \/ Low4(Op) \in {PUSH, POP, DAD, LXI, INX, DCX}
  \/ Op \in STAX \cup LDAX \cup {NOP, CMC, STC, CMA, DAA, RLC, RRC, RAL, RAR, XCHG, SPHL, XTHL}
  \/ Op \in {STA, LDA, SHLD, LHLD, PCHL, JMP, CALL, RET, EI, DI, IN_PORT, OUT_PORT}

\* No case moves pc.
Illegal ==
  /\ Inner(~Known)
  /\ UNCHANGED <<regs, sp, pc, flags, mar>>

-----------------------------------------------------------------------------

\* The sanitizer ends the process at a word that leaves the memory.
Overrun ==
  /\ ~ended /\ steps < MaxSteps
  /\ Overruns
  /\ ended' = TRUE
  /\ UNCHANGED <<cpu, mem, tty, steps, saved>>

\* Tty_Tick() with a key for the window; enter is a carriage return here.
SysTick(key) ==
  /\ ~ended /\ steps < MaxSteps
  /\ ascii' = IF key = {1, 3} THEN {0, 2, 3} ELSE key
  /\ ready' = TRUE
  /\ UNCHANGED <<cpu, mem, loc, ended, steps, saved>>

\* The bound, or the end of the process.
Terminated == (ended \/ steps = MaxSteps) /\ UNCHANGED vars

Intel8080_Step ==
  \/ Count \/ MoveImmediate \/ Move \/ Arithmetic
  \/ Push \/ Pop \/ AddPairs \/ LoadPair \/ CountPair \/ Restart
  \/ NoOperation \/ CarryFlag \/ Complement \/ Adjust \/ StoreA \/ LoadA \/ Rotate
  \/ Exchange \/ StackFromHL \/ ExchangeTop \/ StoreHL \/ LoadHL
  \/ Jump \/ Call \/ Return \/ Illegal

Next == Intel8080_Step \/ Overrun \/ (\E key \in Keys : SysTick(key)) \/ Terminated

Spec == Init /\ [][Next]_vars
-----------------------------------------------------------------------------
(* Properties *)

Steps == steps' # steps

\* The binary digit of the number n that stands for w, and whether n has an even
\* number of ones.
Weights == {1, 2, 4, 8, 16, 32, 64, 128}

BinaryDigit(n, w) == (n \div w) % 2

EvenOnes(n) ==
  (BinaryDigit(n, 1) + BinaryDigit(n, 2) + BinaryDigit(n, 4) + BinaryDigit(n, 8)
     + BinaryDigit(n, 16) + BinaryDigit(n, 32) + BinaryDigit(n, 64) + BinaryDigit(n, 128)) % 2 = 0

\* A logical operation on two binary digits.
OnDigits(op, i, j) ==
  CASE op = ANA -> IF i = 1 /\ j = 1 THEN 1 ELSE 0
    [] op = XRA -> (i + j) % 2
    [] op = ORA -> IF i = 0 /\ j = 0 THEN 0 ELSE 1

\* Against numbers: the accumulator and the flags after each of the eight operations,
\* but for ac and an operand of 255 with a carry, which intel8080.c adds up to 0.
AluStep ==
  LET op    == wdest
      y     == Number(IF Low(Op) = ALUI THEN LowByte(imm) ELSE RWReg(wsrc, FetchedAt), 8)
      c     == IF op \in {ADC, SBB} /\ "cy" \in flags THEN 1 ELSE 0
      a     == Number(regs[RegA], 8)
      r     == Number(regs'[RegA], 8)
      logic == op \in {ANA, XRA, ORA}
      full  == IF op \in {ADD, ADC} THEN a + y + c ELSE a - y - c
      low   == IF logic THEN r ELSE full % 256
  IN Steps /\ (Op \cap {6, 7} = ALU \/ Low(Op) = ALUI) /\ ~(c = 1 /\ y = 255) =>
       /\ logic => \A w \in Weights :
            BinaryDigit(r, w) = OnDigits(op, BinaryDigit(a, w), BinaryDigit(y, w))
       /\ ~logic => r = IF op = CMP THEN a ELSE low
       /\ ("cy" \in flags') = (~logic /\ full # low)
       /\ ("z" \in flags') = (low = 0)
       /\ ("s" \in flags') = (low >= 128)
       /\ ("p" \in flags') = EvenOnes(low)

AluExact == [][AluStep]_vars

\* DAA does at once what the 8080 does in two steps, whatever A and the flags are: six
\* is added for the ones, and sixty for the tens that this leaves.  cy says whether
\* the tens called for it; a cy that was set is not kept, as it is on the 8080.
DecimalStep ==
  LET n     == Number(regs[RegA], 8)
      first == n + (IF n % 16 > 9 \/ "ac" \in flags THEN 6 ELSE 0)
      tens  == first \div 16
  IN Steps /\ Op = DAA =>
       /\ Number(regs'[RegA], 8) = (first + (IF tens > 9 \/ "cy" \in flags THEN 96 ELSE 0)) % 256
       /\ ("cy" \in flags') = (tens > 9)

DecimalExact == [][DecimalStep]_vars

\* The bytes of an instruction, by the table of the 8080.
Length(n) ==
  IF n \in {1, 17, 33, 49, 34, 42, 50, 58, 195, 205} \/ (n >= 192 /\ n % 8 \in {2, 4}) THEN 3
  ELSE IF n \in {211, 219} \/ (n % 8 = 6 /\ (n < 64 \/ n >= 192)) THEN 2 ELSE 1

Unknown == {8, 16, 24, 32, 40, 48, 56, 203, 217, 221, 237, 253}

\* JMP, RET, CALL, PCHL and RST do not go on behind themselves.
Leaves(n) == n \in {195, 201, 205, 233} \/ (n >= 192 /\ n % 8 = 7)

\* pc never gets between two instructions by itself: it goes on behind the last
\* byte, or to what a jump, a call, a restart or a return says; an unknown opcode
\* is executed for ever.
PcStep ==
  LET n == Number(Op, 8)
  IN Steps =>
       \/ n \notin Unknown /\ ~Leaves(n) /\ Number(pc', 16) = (Number(pc, 16) + Length(n)) % 65536
       \/ n \in Unknown /\ pc' = pc
       \/ n \in {195, 205} /\ pc' = imm
       \/ n >= 192 /\ n % 8 \in {2, 4} /\ pc' = imm
       \/ n >= 192 /\ n % 8 = 7 /\ Number(pc', 16) = n - 199
       \/ n = 233 /\ pc' = HL
       \/ n \in {192, 200, 201, 208, 216, 224, 232, 240, 248} /\ pc' = LoadU16(sp)

PcInStep == [][PcStep]_vars

\* What is on top of the stack comes back: a pair, A with all flags, or the place
\* behind a call, whatever was done in between; stores over it aside.
PopRestores ==
  [][ Steps /\ sp = saved.at =>
        /\ Low4(Op) = POP /\ saved.kind = "pair" /\ saved.pair = dsrc =>
             IF dsrc = {0, 1}
             THEN regs'[RegA] = saved.regs[RegA] /\ flags' = saved.flags
             ELSE \A r \in {HighOf(dsrc), LowOf(dsrc)} : regs'[r] = saved.regs[r]
        /\ Returns /\ saved.kind = "call" => pc' = saved.pc
    ]_vars

\* The flag of a key goes only to a program that gets to see it in A, unless HL or
\* the instruction itself is at READY: there the loads that nobody asked for take it.
FlagIsSeen ==
  [][ ready /\ ~ready' =>
        \/ regs'[RegA] = {0}
        \/ Op = LHLD
        \/ Tty.ready \in FetchedAt \cup {HL, regs'[RegL] \cup Shl(regs'[RegH], 8, 16)}
    ]_vars
=============================================================================
