-------------------------- MODULE Intel8080Proofs --------------------------
(***************************************************************************)
(* What TLAPS proves of Intel8080, for a memory of any size, any program,  *)
(* any keys and any offsets of the tty: what the words of Words are as     *)
(* numbers, for any width; types; that the stack gives back what was put   *)
(* on it; who takes the flag of a key; that the arithmetic unit and DAA    *)
(* compute what numbers say, and that pc stays in step.                    *)
(***************************************************************************)
EXTENDS Intel8080, FiniteSetTheorems, WellFoundedInduction, TLAPS

-----------------------------------------------------------------------------
(* Words *)

LEMMA Pairs ==
  /\ \A x, y : Plus(x, y, 16) \in Pair /\ Minus(x, y, 16) \in Pair
  /\ \A x, k : Shl(x, k, 16) \in Pair
  /\ \A x \in Pair : x \in Offset
  /\ \A x \in Byte : x \in Pair
  /\ \A a : LoadU16(a) \in Pair
  BY DEF Plus, Minus, Not, Shl, Pair, Offset, Byte, Bits, LoadU16, LoadBytes

LEMMA Bytes ==
  /\ \A x, y : Plus(x, y, 8) \in Byte /\ Minus(x, y, 8) \in Byte
  /\ \A x : Not(x, 8) \in Byte /\ LowByte(x) \in Byte /\ High(x) \in Byte
  /\ \A x, k : Shl(x, k, 8) \in Byte
  BY DEF Plus, Minus, Not, Shl, LowByte, High, Byte, Bits

LEMMA ShrBits ==
  ASSUME NEW w \in Pair, NEW k \in Nat, NEW b \in Nat
  PROVE  b \in Shr(w, k) <=> b + k \in w
  <1>1. ASSUME b \in Shr(w, k) PROVE b + k \in w
    <2> PICK c \in w : k <= c /\ b = c - k
      BY <1>1 DEF Shr
    <2>1. c \in Int
      BY DEF Pair, Bits
    <2> QED
      BY <2>1
  <1>2. ASSUME b + k \in w PROVE b \in Shr(w, k)
    <2>1. k <= b + k /\ b = (b + k) - k
      OBVIOUS
    <2> QED
      BY <1>2, <2>1 DEF Shr
  <1> QED
    BY <1>1, <1>2

LEMMA Masks == \A a : Masked(a) \in Address
  BY DEF Masked, Address

\* The subsets of three bits, and of two.
LEMMA ThreeBits ==
  ASSUME NEW x \in SUBSET (0 .. 2)
  PROVE  x \in {{}, {0}, {1}, {0, 1}, {2}, {0, 2}, {1, 2}, {0, 1, 2}}
  <1>1. x \subseteq {0, 1, 2}
    OBVIOUS
  <1>2. x = (IF 0 \in x THEN {0} ELSE {}) \cup (IF 1 \in x THEN {1} ELSE {})
              \cup (IF 2 \in x THEN {2} ELSE {})
    BY <1>1
  <1>3. CASE 2 \in x
    <2>1. x = (IF 0 \in x THEN {0} ELSE {}) \cup (IF 1 \in x THEN {1} ELSE {}) \cup {2}
      BY <1>2, <1>3
    <2> QED
      BY <2>1
  <1>4. CASE 2 \notin x
    <2>1. x = (IF 0 \in x THEN {0} ELSE {}) \cup (IF 1 \in x THEN {1} ELSE {})
      BY <1>2, <1>4
    <2> QED
      BY <2>1
  <1> QED
    BY <1>3, <1>4

LEMMA TwoBits ==
  ASSUME NEW x \in SUBSET {0, 1} PROVE x \in {{}, {0}, {1}, {0, 1}}
  <1>1. x = (IF 0 \in x THEN {0} ELSE {}) \cup (IF 1 \in x THEN {1} ELSE {})
    OBVIOUS
  <1> QED
    BY <1>1

\* The registers are seven.
LEMMA Registers ==
  /\ RegB \in Reg /\ RegC \in Reg /\ RegD \in Reg /\ RegE \in Reg
  /\ RegH \in Reg /\ RegL \in Reg /\ RegA \in Reg
  /\ RegM \notin Reg
  <1>1. \A x \in SUBSET (0 .. 2) : x # RegM => x \in Reg
    BY DEF Reg
  <1>2. /\ RegB # RegM /\ RegC # RegM /\ RegD # RegM /\ RegE # RegM
        /\ RegH # RegM /\ RegL # RegM /\ RegA # RegM
    <2>1. 2 \in RegM /\ 1 \in RegM /\ 0 \notin RegM
      BY DEF RegM
    <2>2. /\ 2 \notin RegB /\ 2 \notin RegC /\ 2 \notin RegD /\ 2 \notin RegE
          /\ 1 \notin RegH /\ 1 \notin RegL /\ 0 \in RegA
      BY DEF RegB, RegC, RegD, RegE, RegH, RegL, RegA
    <2> QED
      BY <2>1, <2>2
  <1>3. /\ RegB \in SUBSET (0 .. 2) /\ RegC \in SUBSET (0 .. 2) /\ RegD \in SUBSET (0 .. 2)
        /\ RegE \in SUBSET (0 .. 2) /\ RegH \in SUBSET (0 .. 2) /\ RegL \in SUBSET (0 .. 2)
        /\ RegA \in SUBSET (0 .. 2)
    BY DEF RegB, RegC, RegD, RegE, RegH, RegL, RegA
  <1> QED
    BY <1>1, <1>2, <1>3 DEF Reg

LEMMA PairRegisters ==
  ASSUME NEW d \in {{}, {0}, {1}}
  PROVE  HighOf(d) \in Reg /\ LowOf(d) \in Reg /\ HighOf(d) # LowOf(d)
  <1>1. {} # {0} /\ {} # {1} /\ {0} # {1}
    OBVIOUS
  <1>2. RegB # RegC /\ RegD # RegE /\ RegH # RegL
    BY DEF RegB, RegC, RegD, RegE, RegH, RegL
  <1>3. CASE d = {}
    BY <1>1, <1>2, <1>3, Registers DEF HighOf, LowOf
  <1>4. CASE d = {0}
    BY <1>1, <1>2, <1>4, Registers DEF HighOf, LowOf
  <1>5. CASE d = {1}
    BY <1>1, <1>2, <1>5, Registers DEF HighOf, LowOf
  <1> QED
    BY <1>3, <1>4, <1>5

\* The fields of an opcode.
LEMMA Fields ==
  /\ wdest \in SUBSET (0 .. 2) /\ wsrc \in SUBSET (0 .. 2)
  /\ dsrc \in {{}, {0}, {1}, {0, 1}}
  <1>1. dsrc \in SUBSET {0, 1}
    BY DEF dsrc
  <1> QED
    BY <1>1, TwoBits DEF wdest, wsrc

-----------------------------------------------------------------------------
(* Numbers *)

\* Induction: a set of numbers with 0 and the successor of each of its elements
\* below n has all numbers up to n.
LEMMA UpTo ==
  ASSUME NEW n \in Nat, NEW S \in SUBSET Nat, 0 \in S, \A k \in S : k < n => k + 1 \in S
  PROVE  \A k \in 0 .. n : k \in S
  <1> DEFINE T == {k \in 0 .. n : k \notin S}
  <1> SUFFICES ASSUME T # {} PROVE FALSE
    OBVIOUS
  <1>1. T \subseteq Nat
    OBVIOUS
  <1>2. PICK x \in T : \A y \in T : <<y, x>> \notin OpToRel(<, Nat)
    <2> HIDE DEF T
    <2> QED
      BY <1>1, NatLessThanWellFounded, WFMin
  <1>3. \A y \in T : ~(y < x)
    BY <1>1, <1>2 DEF OpToRel
  <1>4. x \in 0 .. n /\ x \notin S /\ x # 0
    BY <1>2
  <1>5. x - 1 \in 0 .. n /\ x - 1 < n /\ (x - 1) + 1 = x
    BY <1>4
  <1>6. x - 1 \in S
    BY <1>3, <1>5
  <1> QED
    BY <1>4, <1>5, <1>6

\* A sequence that is doubled and added to from step to step exists.
LEMMA Doubling ==
  ASSUME NEW n \in Nat, NEW a \in Nat, NEW b \in [0 .. n -> Nat]
  PROVE  \E v \in [0 .. n -> Nat] : v[0] = a /\ \A k \in 1 .. n : v[k] = 2 * v[k - 1] + b[k]
  <1> DEFINE Good(v, m) == v \in [0 .. m -> Nat] /\ v[0] = a
                             /\ \A k \in 1 .. m : v[k] = 2 * v[k - 1] + b[k]
             S == {m \in 0 .. n : \E v : Good(v, m)}
  <1>1. 0 \in S
    <2>1. Good([k \in 0 .. 0 |-> a], 0)
      OBVIOUS
    <2>2. \E v : Good(v, 0)
      <3> HIDE DEF Good
      <3> QED
        BY <2>1
    <2> QED
      BY <2>2
  <1>2. ASSUME NEW m \in S, m < n PROVE m + 1 \in S
    <2>1. PICK v : Good(v, m)
      BY <1>2
    <2>2. m \in Nat /\ m + 1 \in 0 .. n
      BY <1>2
    <2> DEFINE w == [k \in 0 .. m + 1 |-> IF k = m + 1 THEN 2 * v[m] + b[m + 1] ELSE v[k]]
    <2>3. w \in [0 .. m + 1 -> Nat]
      <3>1. v[m] \in Nat /\ b[m + 1] \in Nat
        BY <2>1, <2>2
      <3>2. 2 * v[m] + b[m + 1] \in Nat
        BY <3>1
      <3>3. \A k \in 0 .. m + 1 : k # m + 1 => v[k] \in Nat
        BY <2>1, <2>2
      <3> QED
        BY <3>2, <3>3
    <2>4. w[0] = a
      BY <2>1, <2>2
    <2>5. ASSUME NEW k \in 1 .. m + 1 PROVE w[k] = 2 * w[k - 1] + b[k]
      <3>1. k - 1 \in 0 .. m + 1 /\ k \in 0 .. m + 1 /\ k - 1 # m + 1
        BY <2>2
      <3>2. w[k - 1] = v[k - 1]
        BY <3>1
      <3>3. CASE k = m + 1
        <4>1. k - 1 = m
          BY <2>2, <3>3
        <4> QED
          BY <3>1, <3>2, <3>3, <4>1
      <3>4. CASE k # m + 1
        <4>1. k \in 1 .. m
          BY <2>2, <3>4
        <4> QED
          BY <2>1, <3>1, <3>2, <3>4, <4>1
      <3> QED
        BY <3>3, <3>4
    <2>6. Good(w, m + 1)
      <3> HIDE DEF w
      <3> QED
        BY <2>3, <2>4, <2>5
    <2> QED
      BY <2>2, <2>6
  <1>3. S \subseteq Nat /\ n \in 0 .. n
    OBVIOUS
  <1>4. n \in S
    <2> HIDE DEF S
    <2> QED
      BY <1>1, <1>2, <1>3, UpTo
  <1> QED
    BY <1>4

Bit(p) == IF p THEN 1 ELSE 0

\* v runs through the values of the bits of x from the highest on.
Runs(v, x, n) ==
  /\ v \in [0 .. n -> Nat]
  /\ v[0] = 0
  /\ \A k \in 1 .. n : v[k] = 2 * v[k - 1] + Bit(n - k \in x)

LEMMA ValueRuns ==
  ASSUME NEW n \in Nat, NEW x PROVE \E v : Runs(v, x, n) /\ Number(x, n) = v[n]
  <1> DEFINE b == [k \in 0 .. n |-> Bit(n - k \in x)]
             Rec(f) == [k \in 0 .. n |-> IF k = 0 THEN 0
                                          ELSE 2 * f[k - 1] + (IF n - k \in x THEN 1 ELSE 0)]
  <1>1. b \in [0 .. n -> Nat]
    BY DEF Bit
  <1>2. PICK v \in [0 .. n -> Nat] : v[0] = 0 /\ \A k \in 1 .. n : v[k] = 2 * v[k - 1] + b[k]
    <2>1. 0 \in Nat
      OBVIOUS
    <2> HIDE DEF b
    <2> QED
      BY <1>1, <2>1, Doubling
  <1>3. \A k \in 1 .. n : k \in 0 .. n /\ k # 0
    OBVIOUS
  <1>4. v = Rec(v)
    <2>1. \A k \in 0 .. n : v[k] = IF k = 0 THEN 0
                                   ELSE 2 * v[k - 1] + (IF n - k \in x THEN 1 ELSE 0)
      <3> TAKE k \in 0 .. n
      <3>1. k = 0 \/ k \in 1 .. n
        OBVIOUS
      <3>2. b[k] = IF n - k \in x THEN 1 ELSE 0
        BY DEF Bit
      <3> HIDE DEF b
      <3> QED
        BY <1>2, <3>1, <3>2
    <2>2. v = [k \in 0 .. n |-> v[k]]
      BY <1>2
    <2> QED
      BY <2>1, <2>2
  <1> DEFINE w == CHOOSE f : f = Rec(f)
  <1>5. w = Rec(w)
    <2> HIDE DEF Rec
    <2> QED
      BY <1>4
  <1>6. Number(x, n) = w[n]
    BY DEF Number
  <1>7. w[0] = 0 /\ \A k \in 1 .. n : w[k] = 2 * w[k - 1] + Bit(n - k \in x)
    <2> HIDE DEF w
    <2> QED
      BY <1>3, <1>5 DEF Bit
  <1>8. w \in [0 .. n -> Nat]
    <2> HIDE DEF w
    <2> DEFINE S == {k \in 0 .. n : w[k] \in Nat}
    <2>1. 0 \in S /\ S \in SUBSET Nat
      BY <1>7
    <2>2. ASSUME NEW k \in S, k < n PROVE k + 1 \in S
      <3>1. k + 1 \in 1 .. n /\ (k + 1) - 1 = k /\ w[k] \in Nat /\ k + 1 \in 0 .. n
        BY <2>2
      <3>2. w[k + 1] = 2 * w[k] + Bit(n - (k + 1) \in x)
        BY <1>7, <3>1
      <3> QED
        BY <3>1, <3>2 DEF Bit
    <2>3. \A k \in 0 .. n : k \in S
      <3> HIDE DEF S
      <3> QED
        BY <2>1, <2>2, UpTo
    <2>4. w = [k \in 0 .. n |-> w[k]]
      BY <1>5
    <2> QED
      BY <2>3, <2>4
  <1> QED
    BY <1>6, <1>7, <1>8 DEF Runs

\* 2 to the power of n.
Power(n) == LET p[k \in 0 .. n] == IF k = 0 THEN 1 ELSE 2 * p[k - 1] IN p[n]

LEMMA PowerRuns ==
  ASSUME NEW n \in Nat
  PROVE  \E p \in [0 .. n -> Nat] : p[0] = 1 /\ (\A k \in 1 .. n : p[k] = 2 * p[k - 1])
                                      /\ Power(n) = p[n]
  <1> DEFINE b == [k \in 0 .. n |-> 0]
             Rec(f) == [k \in 0 .. n |-> IF k = 0 THEN 1 ELSE 2 * f[k - 1]]
  <1>1. PICK v \in [0 .. n -> Nat] : v[0] = 1 /\ \A k \in 1 .. n : v[k] = 2 * v[k - 1] + b[k]
    <2>1. b \in [0 .. n -> Nat]
      OBVIOUS
    <2>2. 1 \in Nat
      OBVIOUS
    <2> HIDE DEF b
    <2> QED
      BY <2>1, <2>2, Doubling
  <1>2. \A k \in 1 .. n : v[k] = 2 * v[k - 1] /\ k \in 0 .. n /\ k # 0
    <2> TAKE k \in 1 .. n
    <2>1. k - 1 \in 0 .. n /\ k \in 0 .. n
      OBVIOUS
    <2>2. v[k - 1] \in Nat /\ b[k] = 0
      BY <2>1
    <2> QED
      BY <1>1, <2>2
  <1>3. v = Rec(v)
    BY <1>1, <1>2
  <1> DEFINE w == CHOOSE f : f = Rec(f)
  <1>4. w = Rec(w)
    <2> HIDE DEF Rec
    <2> QED
      BY <1>3
  <1>5. Power(n) = w[n]
    BY DEF Power
  <1> HIDE DEF w
  <1>6. w[0] = 1 /\ \A k \in 1 .. n : w[k] = 2 * w[k - 1]
    BY <1>2, <1>4
  <1> DEFINE S == {k \in 0 .. n : w[k] \in Nat}
  <1>7. \A k \in 0 .. n : k \in S
    <2>1. 0 \in S /\ S \in SUBSET Nat
      BY <1>6
    <2>2. ASSUME NEW k \in S, k < n PROVE k + 1 \in S
      <3>1. k + 1 \in 1 .. n /\ (k + 1) - 1 = k /\ w[k] \in Nat /\ k + 1 \in 0 .. n
        BY <2>2
      <3>2. w[k + 1] = 2 * w[k]
        BY <1>6, <3>1
      <3> QED
        BY <3>1, <3>2
    <2> HIDE DEF S
    <2> QED
      BY <2>1, <2>2, UpTo
  <1>8. w \in [0 .. n -> Nat]
    <2>1. w = [k \in 0 .. n |-> w[k]]
      BY <1>4
    <2> QED
      BY <1>7, <2>1
  <1> QED
    BY <1>5, <1>6, <1>8

\* The carry into a bit is the majority of what is added below it.
LEMMA Ripple ==
  ASSUME NEW x \in SUBSET Nat, NEW y \in SUBSET Nat, NEW b \in Nat
  PROVE  Carry(x, y, b + 1) <=> \/ b \in x /\ b \in y
                                \/ Carry(x, y, b) /\ (b \in x \/ b \in y)
  <1>1. ASSUME Carry(x, y, b + 1), ~(b \in x /\ b \in y)
        PROVE  Carry(x, y, b) /\ (b \in x \/ b \in y)
    <2>1. PICK k \in x \cap y : k < b + 1 /\ \A j \in (k + 1) .. ((b + 1) - 1) : j \in x \cup y
      BY <1>1 DEF Carry
    <2>2. k \in Nat /\ k < b /\ b \in (k + 1) .. ((b + 1) - 1)
      BY <1>1, <2>1
    <2>3. \A j \in (k + 1) .. (b - 1) : j \in (k + 1) .. ((b + 1) - 1)
      BY <2>2
    <2> QED
      BY <2>1, <2>2, <2>3 DEF Carry
  <1>2. ASSUME b \in x, b \in y PROVE Carry(x, y, b + 1)
    <2>1. b < b + 1 /\ (b + 1) .. ((b + 1) - 1) = {}
      OBVIOUS
    <2> QED
      BY <1>2, <2>1 DEF Carry
  <1>3. ASSUME Carry(x, y, b), b \in x \/ b \in y PROVE Carry(x, y, b + 1)
    <2>1. PICK k \in x \cap y : k < b /\ \A j \in (k + 1) .. (b - 1) : j \in x \cup y
      BY <1>3 DEF Carry
    <2>2. k \in Nat /\ k < b + 1
      BY <2>1
    <2>3. \A j \in (k + 1) .. ((b + 1) - 1) : j \in (k + 1) .. (b - 1) \/ j = b
      BY <2>2
    <2> QED
      BY <1>3, <2>1, <2>2, <2>3 DEF Carry
  <1> QED
    BY <1>1, <1>2, <1>3

LEMMA NoCarryIn == ASSUME NEW x \in SUBSET Nat, NEW y PROVE ~Carry(x, y, 0)
  BY DEF Carry

\* A place of the sum.
LEMMA SumBit ==
  ASSUME NEW n \in Nat, NEW x \in SUBSET Nat, NEW y \in SUBSET Nat, NEW b \in 0 .. n - 1
  PROVE  Bit(b \in x) + Bit(b \in y) + Bit(Carry(x, y, b))
           = Bit(b \in Plus(x, y, n)) + 2 * Bit(Carry(x, y, b + 1))
  <1>1. b \in Plus(x, y, n) <=> (b \in x <=> (b \in y <=> Carry(x, y, b)))
    BY DEF Plus, Bits
  <1>2. Carry(x, y, b + 1) <=> \/ b \in x /\ b \in y
                               \/ Carry(x, y, b) /\ (b \in x \/ b \in y)
    BY Ripple
  <1>3. CASE b \in x /\ b \in y
    BY <1>1, <1>2, <1>3 DEF Bit
  <1>4. CASE b \in x /\ b \notin y
    BY <1>1, <1>2, <1>4 DEF Bit
  <1>5. CASE b \notin x /\ b \in y
    BY <1>1, <1>2, <1>5 DEF Bit
  <1>6. CASE b \notin x /\ b \notin y
    BY <1>1, <1>2, <1>6 DEF Bit
  <1> QED
    BY <1>3, <1>4, <1>5, <1>6

\* The words add up as numbers do: the sum of x and y is theirs, and what does not
\* fit into n bits is the carry out of the highest.
THEOREM PlusAdds ==
  ASSUME NEW n \in Nat, NEW x \in SUBSET Nat, NEW y \in SUBSET Nat
  PROVE  Number(x, n) + Number(y, n)
           = Number(Plus(x, y, n), n) + (IF Carry(x, y, n) THEN Power(n) ELSE 0)
  <1> DEFINE s == Plus(x, y, n)
             c == [b \in 0 .. n |-> Bit(Carry(x, y, b))]
  <1>1. PICK vx : Runs(vx, x, n) /\ Number(x, n) = vx[n]
    BY ValueRuns
  <1>2. PICK vy : Runs(vy, y, n) /\ Number(y, n) = vy[n]
    BY ValueRuns
  <1>3. PICK vs : Runs(vs, s, n) /\ Number(s, n) = vs[n]
    BY ValueRuns
  <1>4. PICK p \in [0 .. n -> Nat] : p[0] = 1 /\ (\A k \in 1 .. n : p[k] = 2 * p[k - 1])
                                       /\ Power(n) = p[n]
    BY PowerRuns
  <1> DEFINE out == [k \in 0 .. n |-> IF Carry(x, y, n) THEN p[k] ELSE 0]
             S == {k \in 0 .. n : vx[k] + vy[k] + c[n - k] = vs[k] + out[k]}
  <1>5. \A b \in 0 .. n - 1 :
          Bit(b \in x) + Bit(b \in y) + c[b] = Bit(b \in s) + 2 * c[b + 1]
    <2> TAKE b \in 0 .. n - 1
    <2>1. b \in 0 .. n /\ b + 1 \in 0 .. n
      OBVIOUS
    <2> QED
      BY <2>1, SumBit
  <1>6. 0 \in S
    <2>1. vx[0] = 0 /\ vy[0] = 0 /\ vs[0] = 0 /\ n - 0 = n
      BY <1>1, <1>2, <1>3 DEF Runs
    <2> QED
      BY <1>4, <2>1 DEF Bit
  <1>7. ASSUME NEW k \in S, k < n PROVE k + 1 \in S
    <2> DEFINE b == n - (k + 1)
    <2>1. k \in 0 .. n /\ k + 1 \in 1 .. n /\ (k + 1) - 1 = k /\ b \in 0 .. n - 1 /\ b + 1 = n - k
          /\ k + 1 \in 0 .. n
      BY <1>7
    <2> DEFINE bx == Bit(b \in x)   ax == vx[k]
               by == Bit(b \in y)   ay == vy[k]
               bs == Bit(b \in s)   sum == vs[k]
               low == c[b]           carry == c[n - k]   over == out[k]
    <2>2. vx[k + 1] = 2 * ax + bx /\ ax \in Nat
      BY <1>1, <2>1 DEF Runs
    <2>3. vy[k + 1] = 2 * ay + by /\ ay \in Nat
      BY <1>2, <2>1 DEF Runs
    <2>4. vs[k + 1] = 2 * sum + bs /\ sum \in Nat
      <3> HIDE DEF s
      <3> QED
        BY <1>3, <2>1 DEF Runs
    <2>5. out[k + 1] = 2 * over /\ over \in Nat
      BY <1>4, <2>1
    <2>6. ax + ay + carry = sum + over
      BY <1>7
    <2>7. bx + by + low = bs + 2 * carry
      BY <1>5, <2>1
    <2>8. low \in Nat /\ carry \in Nat /\ bx \in Nat /\ by \in Nat /\ bs \in Nat
      BY <2>1 DEF Bit
    <2>9. (2 * ax + bx) + (2 * ay + by) + low = (2 * sum + bs) + 2 * over
      <3>1. ax \in Nat /\ ay \in Nat /\ sum \in Nat /\ over \in Nat
        BY <2>2, <2>3, <2>4, <2>5
      <3> HIDE DEF bx, by, bs, ax, ay, sum, low, carry, over, S
      <3> QED
        BY <2>6, <2>7, <2>8, <3>1
    <2>10. vx[k + 1] + vy[k + 1] + low = vs[k + 1] + out[k + 1]
      <3> HIDE DEF bx, by, bs, ax, ay, sum, low, over, out
      <3> QED
        BY <2>2, <2>3, <2>4, <2>5, <2>9
    <2> QED
      BY <2>1, <2>10
  <1>8. n \in S
    <2>1. S \in SUBSET Nat /\ n \in 0 .. n
      OBVIOUS
    <2> HIDE DEF S
    <2> QED
      BY <1>6, <1>7, <2>1, UpTo
  <1>9. c[n - n] = 0
    BY NoCarryIn DEF Bit
  <1>10. vx[n] \in Nat /\ vy[n] \in Nat
    BY <1>1, <1>2 DEF Runs
  <1>11. vx[n] + vy[n] = vs[n] + out[n]
    BY <1>8, <1>9, <1>10
  <1> QED
    BY <1>1, <1>2, <1>3, <1>4, <1>11

\* The complement of x is what x lacks of all ones.
LEMMA NotValue ==
  ASSUME NEW n \in Nat, NEW x
  PROVE  Number(x, n) + Number(Not(x, n), n) = Power(n) - 1
  <1> DEFINE y == Not(x, n)
  <1>1. PICK vx : Runs(vx, x, n) /\ Number(x, n) = vx[n]
    BY ValueRuns
  <1>2. PICK vy : Runs(vy, y, n) /\ Number(y, n) = vy[n]
    BY ValueRuns
  <1>3. PICK p \in [0 .. n -> Nat] : p[0] = 1 /\ (\A k \in 1 .. n : p[k] = 2 * p[k - 1])
                                       /\ Power(n) = p[n]
    BY PowerRuns
  <1> DEFINE S == {k \in 0 .. n : vx[k] + vy[k] = p[k] - 1}
  <1>4. 0 \in S
    BY <1>1, <1>2, <1>3 DEF Runs
  <1>5. ASSUME NEW k \in S, k < n PROVE k + 1 \in S
    <2> DEFINE b == n - (k + 1)
    <2>1. k \in 0 .. n /\ k + 1 \in 1 .. n /\ (k + 1) - 1 = k /\ b \in 0 .. n - 1 /\ k + 1 \in 0 .. n
      BY <1>5
    <2>2. b \in y <=> b \notin x
      BY <2>1 DEF Not, Bits
    <2> HIDE DEF y
    <2> DEFINE bx == Bit(b \in x)   ax == vx[k]
               by == Bit(b \in y)   ay == vy[k]   ap == p[k]
    <2>3. bx + by = 1 /\ bx \in Nat /\ by \in Nat
      BY <2>2 DEF Bit
    <2>4. vx[k + 1] = 2 * ax + bx /\ ax \in Nat
      BY <1>1, <2>1 DEF Runs
    <2>5. vy[k + 1] = 2 * ay + by /\ ay \in Nat
      BY <1>2, <2>1 DEF Runs
    <2>6. p[k + 1] = 2 * ap /\ ap \in Nat
      BY <1>3, <2>1
    <2>7. ax + ay = ap - 1
      BY <1>5
    <2>8. vx[k + 1] + vy[k + 1] = p[k + 1] - 1
      <3> HIDE DEF bx, by, ax, ay, ap
      <3> QED
        BY <2>3, <2>4, <2>5, <2>6, <2>7
    <2> QED
      BY <2>1, <2>8
  <1>6. n \in S
    <2>1. S \in SUBSET Nat /\ n \in 0 .. n
      OBVIOUS
    <2> HIDE DEF S
    <2> QED
      BY <1>4, <1>5, <2>1, UpTo
  <1> QED
    BY <1>1, <1>2, <1>3, <1>6

\* The comparison of words is that of their numbers, and words that differ are
\* different numbers.
THEOREM LessCompares ==
  ASSUME NEW n \in Nat, NEW x \in SUBSET Bits(n), NEW y \in SUBSET Bits(n)
  PROVE  /\ Less(x, y, n) <=> Number(x, n) < Number(y, n)
         /\ x = y <=> Number(x, n) = Number(y, n)
  <1>1. PICK vx : Runs(vx, x, n) /\ Number(x, n) = vx[n]
    BY ValueRuns
  <1>2. PICK vy : Runs(vy, y, n) /\ Number(y, n) = vy[n]
    BY ValueRuns
  <1> DEFINE Same(k) == \A j \in k .. n - 1 : j \in x <=> j \in y
             Below(k) == \E b \in y \ x : k <= b /\ Same(b + 1)
             S == {k \in 0 .. n : /\ Below(n - k) <=> vx[k] < vy[k]
                                  /\ Same(n - k) <=> vx[k] = vy[k]}
  <1>0. x \subseteq 0 .. n - 1 /\ y \subseteq 0 .. n - 1
    BY DEF Bits
  <1>3. 0 \in S
    <2>1. vx[0] = 0 /\ vy[0] = 0 /\ n - 0 = n
      BY <1>1, <1>2 DEF Runs
    <2>2. ~Below(n) /\ Same(n)
      BY <1>0
    <2> HIDE DEF Below, Same
    <2> QED
      BY <2>1, <2>2
  <1>4. ASSUME NEW k \in S, k < n PROVE k + 1 \in S
    <2> DEFINE b == n - (k + 1)
    <2>1. k \in 0 .. n /\ k + 1 \in 1 .. n /\ (k + 1) - 1 = k /\ b \in 0 .. n - 1 /\ b + 1 = n - k
          /\ k + 1 \in 0 .. n
      BY <1>4
    <2>2. Same(b) <=> Same(n - k) /\ (b \in x <=> b \in y)
      <3>1. \A j \in b .. n - 1 : j = b \/ j \in b + 1 .. n - 1
        BY <2>1
      <3>2. b \in b .. n - 1 /\ \A j \in b + 1 .. n - 1 : j \in b .. n - 1
        BY <2>1
      <3> QED
        BY <2>1, <3>1, <3>2
    <2>3. Below(b) <=> Below(n - k) \/ (b \in y \ x /\ Same(n - k))
      <3>1. ASSUME Below(b) PROVE Below(n - k) \/ (b \in y \ x /\ Same(n - k))
        <4>1. PICK c \in y \ x : b <= c /\ Same(c + 1)
          BY <3>1
        <4>2. c \in 0 .. n - 1
          BY <1>0
        <4>3. CASE c = b
          BY <2>1, <4>1, <4>3
        <4>4. CASE c # b
          <5>1. n - k <= c
            BY <2>1, <4>1, <4>2, <4>4
          <5> QED
            BY <4>1, <5>1
        <4> QED
          BY <4>3, <4>4
      <3>2. ASSUME Below(n - k) PROVE Below(b)
        <4>1. PICK c \in y \ x : n - k <= c /\ Same(c + 1)
          BY <3>2
        <4>2. c \in 0 .. n - 1 /\ b <= c
          BY <1>0, <2>1, <4>1
        <4> QED
          BY <4>1, <4>2
      <3>3. ASSUME b \in y \ x, Same(n - k) PROVE Below(b)
        <4>1. b <= b /\ Same(b + 1)
          BY <2>1, <3>3
        <4> QED
          BY <3>3, <4>1
      <3> QED
        BY <3>1, <3>2, <3>3
    <2> DEFINE bx == Bit(b \in x)   ax == vx[k]
               by == Bit(b \in y)   ay == vy[k]
    <2>4. vx[k + 1] = 2 * ax + bx /\ ax \in Nat
      BY <1>1, <2>1 DEF Runs
    <2>5. vy[k + 1] = 2 * ay + by /\ ay \in Nat
      BY <1>2, <2>1 DEF Runs
    <2>6. bx \in {0, 1} /\ by \in {0, 1} /\ (b \in x <=> bx = 1) /\ (b \in y <=> by = 1)
      BY DEF Bit
    <2>7. (Below(n - k) <=> ax < ay) /\ (Same(n - k) <=> ax = ay)
      BY <1>4
    <2>8. (Below(b) <=> vx[k + 1] < vy[k + 1]) /\ (Same(b) <=> vx[k + 1] = vy[k + 1])
      <3>1. \/ ax < ay /\ 2 * ax + bx < 2 * ay + by
            \/ ax > ay /\ 2 * ax + bx > 2 * ay + by
            \/ ax = ay
        <4> HIDE DEF bx, by, ax, ay
        <4> QED
          BY <2>4, <2>5, <2>6
      <3> HIDE DEF bx, by, ax, ay, Below, Same, b
      <3>2. CASE ax < ay /\ 2 * ax + bx < 2 * ay + by
        BY <2>2, <2>3, <2>4, <2>5, <2>6, <2>7, <3>2
      <3>3. CASE ax > ay /\ 2 * ax + bx > 2 * ay + by
        BY <2>2, <2>3, <2>4, <2>5, <2>6, <2>7, <3>3
      <3>4. CASE ax = ay
        BY <2>2, <2>3, <2>4, <2>5, <2>6, <2>7, <3>4
      <3> QED
        BY <3>1, <3>2, <3>3, <3>4
    <2> HIDE DEF Below, Same
    <2> QED
      BY <2>1, <2>8
  <1>5. n \in S
    <2>1. S \in SUBSET Nat /\ n \in 0 .. n
      OBVIOUS
    <2> HIDE DEF S
    <2> QED
      BY <1>3, <1>4, <2>1, UpTo
  <1>6. Below(0) <=> Less(x, y, n)
    BY <1>0 DEF Less
  <1>7. Same(0) <=> x = y
    BY <1>0
  <1>8. n - n = 0
    OBVIOUS
  <1> HIDE DEF Below, Same
  <1> QED
    BY <1>1, <1>2, <1>5, <1>6, <1>7, <1>8

LEMMA FourBits ==
  ASSUME NEW n \in Nat, NEW x, NEW v, Runs(v, x, n), NEW k \in Nat, k + 4 <= n
  PROVE  /\ v[k] \in Nat
         /\ v[k + 4] = 16 * v[k] + 8 * Bit(n - k - 1 \in x) + 4 * Bit(n - k - 2 \in x)
                         + 2 * Bit(n - k - 3 \in x) + Bit(n - k - 4 \in x)
  <1>1. /\ k + 1 \in 1 .. n /\ (k + 1) - 1 = k /\ n - (k + 1) = n - k - 1
        /\ k + 2 \in 1 .. n /\ (k + 2) - 1 = k + 1 /\ n - (k + 2) = n - k - 2
        /\ k + 3 \in 1 .. n /\ (k + 3) - 1 = k + 2 /\ n - (k + 3) = n - k - 3
        /\ k + 4 \in 1 .. n /\ (k + 4) - 1 = k + 3 /\ n - (k + 4) = n - k - 4
        /\ k \in 0 .. n
    OBVIOUS
  <1> DEFINE b1 == Bit(n - k - 1 \in x)
             b2 == Bit(n - k - 2 \in x)
             b3 == Bit(n - k - 3 \in x)
             b4 == Bit(n - k - 4 \in x)
             w == v[k]
  <1>2. w \in Nat /\ b1 \in Nat /\ b2 \in Nat /\ b3 \in Nat /\ b4 \in Nat
    BY <1>1 DEF Runs, Bit
  <1>3. /\ v[k + 1] = 2 * w + b1 /\ v[k + 2] = 2 * v[k + 1] + b2
        /\ v[k + 3] = 2 * v[k + 2] + b3 /\ v[k + 4] = 2 * v[k + 3] + b4
    BY <1>1 DEF Runs
  <1>4. v[k + 4] = 16 * w + 8 * b1 + 4 * b2 + 2 * b3 + b4
    <2> HIDE DEF w, b1, b2, b3, b4
    <2>1. v[k + 2] = 4 * w + 2 * b1 + b2
      BY <1>2, <1>3
    <2>2. v[k + 3] = 8 * w + 4 * b1 + 2 * b2 + b3
      BY <1>2, <1>3, <2>1
    <2> QED
      BY <1>2, <1>3, <2>2
  <1> QED
    BY <1>2, <1>4

\* The number in bits b .. b + 3.
Digit(x, b) ==
  8 * Bit(b + 3 \in x) + 4 * Bit(b + 2 \in x) + 2 * Bit(b + 1 \in x) + Bit(b \in x)

LEMMA DigitRange == \A x, b : Digit(x, b) \in 0 .. 15
  BY DEF Digit, Bit

LEMMA ByteValue == ASSUME NEW x PROVE Number(x, 8) = 16 * Digit(x, 4) + Digit(x, 0)
  <1>1. PICK v : Runs(v, x, 8) /\ Number(x, 8) = v[8]
    BY ValueRuns
  <1>2. v[0] = 0
    BY <1>1 DEF Runs
  <1>3. v[0 + 4] = 16 * v[0] + 8 * Bit(8 - 0 - 1 \in x) + 4 * Bit(8 - 0 - 2 \in x)
                     + 2 * Bit(8 - 0 - 3 \in x) + Bit(8 - 0 - 4 \in x)
    BY <1>1, FourBits
  <1>4. v[4 + 4] = 16 * v[4] + 8 * Bit(8 - 4 - 1 \in x) + 4 * Bit(8 - 4 - 2 \in x)
                     + 2 * Bit(8 - 4 - 3 \in x) + Bit(8 - 4 - 4 \in x)
    BY <1>1, FourBits
  <1>5. v[4] = Digit(x, 4)
    BY <1>2, <1>3 DEF Digit, Bit
  <1>6. v[8] = 16 * v[4] + Digit(x, 0)
    <2>1. v[4] \in Nat
      BY <1>5, DigitRange
    <2> QED
      BY <1>4, <2>1 DEF Digit, Bit
  <1> QED
    BY <1>1, <1>5, <1>6

LEMMA WordValue ==
  ASSUME NEW x
  PROVE  Number(x, 16) = 4096 * Digit(x, 12) + 256 * Digit(x, 8) + 16 * Digit(x, 4) + Digit(x, 0)
  <1>1. PICK v : Runs(v, x, 16) /\ Number(x, 16) = v[16]
    BY ValueRuns
  <1>2. v[0] = 0
    BY <1>1 DEF Runs
  <1>3. ASSUME NEW k \in {0, 4, 8, 12} PROVE v[k + 4] = 16 * v[k] + Digit(x, 12 - k)
    <2>1. v[k] \in Nat
          /\ v[k + 4] = 16 * v[k] + 8 * Bit(16 - k - 1 \in x) + 4 * Bit(16 - k - 2 \in x)
                          + 2 * Bit(16 - k - 3 \in x) + Bit(16 - k - 4 \in x)
      BY <1>1, FourBits
    <2>2. 16 - k - 1 = 12 - k + 3 /\ 16 - k - 2 = 12 - k + 2 /\ 16 - k - 3 = 12 - k + 1
          /\ 16 - k - 4 = 12 - k
      OBVIOUS
    <2> QED
      BY <2>1, <2>2 DEF Digit, Bit
  <1>4. v[4] = Digit(x, 12) /\ v[8] = 16 * v[4] + Digit(x, 8)
        /\ v[12] = 16 * v[8] + Digit(x, 4) /\ v[16] = 16 * v[12] + Digit(x, 0)
    BY <1>2, <1>3, DigitRange
  <1> QED
    BY <1>1, <1>4, DigitRange

LEMMA ValueRange ==
  ASSUME NEW x
  PROVE  Number(x, 8) \in Nat /\ Number(x, 8) < 256 /\ Number(x, 16) \in Nat /\ Number(x, 16) < 65536
  <1> DEFINE d == Digit(x, 12)   c == Digit(x, 8)   b == Digit(x, 4)   a == Digit(x, 0)
  <1>1. d \in 0 .. 15 /\ c \in 0 .. 15 /\ b \in 0 .. 15 /\ a \in 0 .. 15
    BY DigitRange
  <1>2. Number(x, 8) = 16 * b + a /\ Number(x, 16) = 4096 * d + 256 * c + 16 * b + a
    BY ByteValue, WordValue
  <1> HIDE DEF a, b, c, d
  <1> QED
    BY <1>1, <1>2

LEMMA PowerDoubles == ASSUME NEW n \in Nat PROVE Power(n + 1) = 2 * Power(n) /\ Power(n) \in Nat
  <1>1. PICK p \in [0 .. n -> Nat] : p[0] = 1 /\ (\A k \in 1 .. n : p[k] = 2 * p[k - 1])
                                       /\ Power(n) = p[n]
    BY PowerRuns
  <1>2. PICK q \in [0 .. n + 1 -> Nat] :
          q[0] = 1 /\ (\A k \in 1 .. n + 1 : q[k] = 2 * q[k - 1]) /\ Power(n + 1) = q[n + 1]
    <2>1. n + 1 \in Nat
      OBVIOUS
    <2> QED
      BY <2>1, PowerRuns
  <1> DEFINE S == {k \in 0 .. n : p[k] = q[k]}
  <1>3. 0 \in S /\ S \in SUBSET Nat
    BY <1>1, <1>2
  <1>4. ASSUME NEW k \in S, k < n PROVE k + 1 \in S
    <2>1. k + 1 \in 1 .. n /\ k + 1 \in 1 .. n + 1 /\ (k + 1) - 1 = k /\ k + 1 \in 0 .. n
      BY <1>4
    <2>2. p[k + 1] = 2 * p[k] /\ q[k + 1] = 2 * q[k] /\ p[k] = q[k]
      BY <1>1, <1>2, <1>4, <2>1
    <2> QED
      BY <2>1, <2>2
  <1>5. p[n] = q[n]
    <2>1. \A k \in 0 .. n : k \in S
      <3> HIDE DEF S
      <3> QED
        BY <1>3, <1>4, UpTo
    <2>2. n \in S
      BY <2>1
    <2> QED
      BY <2>2
  <1>6. n + 1 \in 1 .. n + 1 /\ (n + 1) - 1 = n
    OBVIOUS
  <1> QED
    BY <1>1, <1>2, <1>5, <1>6

LEMMA Powers == Power(0) = 1 /\ Power(8) = 256 /\ Power(16) = 65536
  <1>1. Power(0) = 1
    <2>1. PICK p \in [0 .. 0 -> Nat] : p[0] = 1 /\ Power(0) = p[0]
      BY PowerRuns
    <2> QED
      BY <2>1
  <1>2. Power(1) = 2 /\ Power(2) = 4 /\ Power(3) = 8 /\ Power(4) = 16
    <2>1. Power(0 + 1) = 2 * Power(0) /\ Power(1 + 1) = 2 * Power(1)
          /\ Power(2 + 1) = 2 * Power(2) /\ Power(3 + 1) = 2 * Power(3)
      BY PowerDoubles
    <2> QED
      BY <1>1, <2>1
  <1>3. Power(5) = 32 /\ Power(6) = 64 /\ Power(7) = 128 /\ Power(8) = 256
    <2>1. Power(4 + 1) = 2 * Power(4) /\ Power(5 + 1) = 2 * Power(5)
          /\ Power(6 + 1) = 2 * Power(6) /\ Power(7 + 1) = 2 * Power(7)
      BY PowerDoubles
    <2> QED
      BY <1>2, <2>1
  <1>4. Power(9) = 512 /\ Power(10) = 1024 /\ Power(11) = 2048 /\ Power(12) = 4096
    <2>1. Power(8 + 1) = 2 * Power(8) /\ Power(9 + 1) = 2 * Power(9)
          /\ Power(10 + 1) = 2 * Power(10) /\ Power(11 + 1) = 2 * Power(11)
      BY PowerDoubles
    <2> QED
      BY <1>3, <2>1
  <1>5. Power(13) = 8192 /\ Power(14) = 16384 /\ Power(15) = 32768 /\ Power(16) = 65536
    <2>1. Power(12 + 1) = 2 * Power(12) /\ Power(13 + 1) = 2 * Power(13)
          /\ Power(14 + 1) = 2 * Power(14) /\ Power(15 + 1) = 2 * Power(15)
      BY PowerDoubles
    <2> QED
      BY <1>4, <2>1
  <1> QED
    BY <1>1, <1>3, <1>5

\* A number is below the power of its width.
LEMMA NumberRange == ASSUME NEW n \in Nat, NEW x PROVE Number(x, n) \in Nat /\ Number(x, n) < Power(n)
  <1>1. Number(x, n) \in Nat /\ Number(Not(x, n), n) \in Nat
    <2>1. \A y : Number(y, n) \in Nat
      <3> TAKE y
      <3>1. PICK v : Runs(v, y, n) /\ Number(y, n) = v[n]
        BY ValueRuns
      <3>2. n \in 0 .. n
        OBVIOUS
      <3> QED
        BY <3>1, <3>2 DEF Runs
    <2> QED
      BY <2>1
  <1>2. Number(x, n) + Number(Not(x, n), n) = Power(n) - 1 /\ Power(n) \in Nat
    BY NotValue, PowerDoubles
  <1> DEFINE a == Number(x, n)   b == Number(Not(x, n), n)   p == Power(n)
  <1> HIDE DEF a, b, p
  <1>3. a \in Nat /\ b \in Nat /\ p \in Nat /\ a + b = p - 1
    BY <1>1, <1>2 DEF a, b, p
  <1>4. a \in Nat /\ a < p
    BY <1>3
  <1> QED
    BY <1>4 DEF a, p

\* A difference is the one of the numbers, and what it lacks is the borrow.
THEOREM MinusSubtracts ==
  ASSUME NEW n \in Nat, NEW x \in SUBSET Bits(n), NEW y \in SUBSET Bits(n)
  PROVE  Number(x, n) + (IF Less(x, y, n) THEN Power(n) ELSE 0)
           = Number(y, n) + Number(Minus(x, y, n), n)
  <1> DEFINE w == Not(x, n)   s == Plus(w, y, n)   q == Carry(w, y, n)   l == Less(x, y, n)
             a == Number(x, n)   b == Number(y, n)   d == Number(w, n)
             e == Number(s, n)   r == Number(Minus(x, y, n), n)   p == Power(n)
  <1>1. w \in SUBSET Nat /\ y \in SUBSET Nat
    BY DEF Not, Bits
  <1>2. d + b = e + (IF q THEN p ELSE 0)
    <2> HIDE DEF w
    <2> QED
      BY <1>1, PlusAdds
  <1>3. a + d = p - 1
    BY NotValue
  <1>4. e + r = p - 1
    <2>1. Minus(x, y, n) = Not(s, n)
      BY DEF Minus
    <2> HIDE DEF s
    <2> QED
      BY <2>1, NotValue
  <1>5. l <=> a < b
    BY LessCompares
  <1>6. /\ a \in Nat /\ b \in Nat /\ d \in Nat /\ e \in Nat /\ r \in Nat /\ p \in Nat
        /\ a < p /\ b < p /\ r < p
    BY NumberRange, PowerDoubles
  <1>7. a + (IF l THEN p ELSE 0) = b + r
    <2> HIDE DEF w, s, q, l, a, b, d, e, r, p
    <2> QED
      BY <1>2, <1>3, <1>4, <1>5, <1>6
  <1> QED
    BY <1>7

\* The highest bit of a number, and the rest of it.
LEMMA HighestBit ==
  ASSUME NEW n \in Nat, NEW x
  PROVE  Number(x, n + 1) = Number(x, n) + (IF n \in x THEN Power(n) ELSE 0)
  <1>1. n + 1 \in Nat
    OBVIOUS
  <1>2. PICK v : Runs(v, x, n) /\ Number(x, n) = v[n]
    BY ValueRuns
  <1>3. PICK w : Runs(w, x, n + 1) /\ Number(x, n + 1) = w[n + 1]
    BY <1>1, ValueRuns
  <1>4. PICK p \in [0 .. n -> Nat] : p[0] = 1 /\ (\A k \in 1 .. n : p[k] = 2 * p[k - 1])
                                       /\ Power(n) = p[n]
    BY PowerRuns
  <1> DEFINE out == [k \in 0 .. n |-> IF n \in x THEN p[k] ELSE 0]
             S == {k \in 0 .. n : w[k + 1] = v[k] + out[k]}
  <1>5. 0 \in S
    <2>1. 1 \in 1 .. n + 1 /\ 0 \in 0 .. n /\ (n + 1) - 1 = n /\ 1 - 1 = 0 /\ 0 + 1 = 1
      OBVIOUS
    <2>2. w[1] = 2 * w[0] + Bit(n \in x) /\ w[0] = 0 /\ v[0] = 0
      BY <1>2, <1>3, <2>1 DEF Runs
    <2>3. out[0] = Bit(n \in x)
      BY <1>4, <2>1 DEF Bit
    <2>4. w[1] = v[0] + out[0]
      <3> HIDE DEF out
      <3> QED
        BY <2>2, <2>3 DEF Bit
    <2> QED
      BY <2>1, <2>4
  <1>6. ASSUME NEW k \in S, k < n PROVE k + 1 \in S
    <2>1. /\ k \in 0 .. n /\ k + 1 \in 1 .. n /\ (k + 1) - 1 = k /\ k + 1 \in 0 .. n
          /\ (k + 1) + 1 \in 1 .. n + 1 /\ ((k + 1) + 1) - 1 = k + 1
          /\ (n + 1) - ((k + 1) + 1) = n - (k + 1)
      BY <1>6
    <2> DEFINE b == Bit(n - (k + 1) \in x)   low == v[k]   high == out[k]   all == w[k + 1]
    <2>2. v[k + 1] = 2 * low + b /\ low \in Nat
      BY <1>2, <2>1 DEF Runs
    <2>3. w[(k + 1) + 1] = 2 * all + b
      BY <1>3, <2>1 DEF Runs
    <2>4. out[k + 1] = 2 * high /\ high \in Nat
      BY <1>4, <2>1
    <2>5. all = low + high
      BY <1>6
    <2>6. b \in Nat
      BY DEF Bit
    <2>7. w[(k + 1) + 1] = v[k + 1] + out[k + 1]
      <3> HIDE DEF b, low, high, all, out, S
      <3> QED
        BY <2>2, <2>3, <2>4, <2>5, <2>6
    <2> QED
      BY <2>1, <2>7
  <1>7. n \in S
    <2>1. S \in SUBSET Nat /\ n \in 0 .. n
      OBVIOUS
    <2> HIDE DEF S
    <2> QED
      BY <1>5, <1>6, <2>1, UpTo
  <1> QED
    BY <1>2, <1>3, <1>4, <1>7

\* The number of a two's complement.
Signed(x, n) == Number(x, n) - (IF n - 1 \in x THEN Power(n) ELSE 0)

\* Bits above the width do not matter.
LEMMA NumberOf ==
  ASSUME NEW n \in Nat, NEW x, NEW y, \A b \in Bits(n) : b \in x <=> b \in y
  PROVE  Number(x, n) = Number(y, n)
  <1> DEFINE S == {k \in 0 .. n : Number(x, k) = Number(y, k)}
  <1>1. 0 \in S
    <2>1. \A z : Number(z, 0) = 0
      <3> TAKE z
      <3>1. PICK v : Runs(v, z, 0) /\ Number(z, 0) = v[0]
        BY ValueRuns
      <3> QED
        BY <3>1 DEF Runs
    <2> QED
      BY <2>1
  <1>2. ASSUME NEW k \in S, k < n PROVE k + 1 \in S
    <2>1. k \in Nat /\ k \in Bits(n) /\ k + 1 \in 0 .. n
      BY <1>2 DEF Bits
    <2>2. /\ Number(x, k + 1) = Number(x, k) + (IF k \in x THEN Power(k) ELSE 0)
          /\ Number(y, k + 1) = Number(y, k) + (IF k \in y THEN Power(k) ELSE 0)
      BY <2>1, HighestBit
    <2> QED
      BY <1>2, <2>1, <2>2
  <1>3. n \in S
    <2>1. S \in SUBSET Nat /\ n \in 0 .. n
      OBVIOUS
    <2> HIDE DEF S
    <2> QED
      BY <1>1, <1>2, <2>1, UpTo
  <1> QED
    BY <1>3

\* The comparison of two's complements is that of their numbers.
THEOREM SignedLessCompares ==
  ASSUME NEW n \in Nat \ {0}, NEW x \in SUBSET Bits(n), NEW y \in SUBSET Bits(n)
  PROVE  SignedLess(x, y, n) <=> Signed(x, n) < Signed(y, n)
  <1> DEFINE top == n - 1   p == Power(top)
  <1>1. top \in Nat /\ top + 1 = n /\ n \in Nat
    OBVIOUS
  <1>2. Power(n) = 2 * p /\ p \in Nat
    <2> HIDE DEF top
    <2>1. Power(top + 1) = 2 * Power(top) /\ Power(top) \in Nat
      BY <1>1, PowerDoubles
    <2> QED
      BY <1>1, <2>1
  <1>3. ASSUME NEW z \in SUBSET Bits(n)
        PROVE  Number(Xor(z, {top}), n) = Signed(z, n) + p
    <2> DEFINE f == Xor(z, {top})   low == Number(z, top)
    <2>1. top \in f <=> top \notin z
      BY DEF Xor
    <2>2. Number(f, top) = low
      <3>1. \A b \in Bits(top) : b \in f <=> b \in z
        BY <1>1 DEF Xor, Bits
      <3> HIDE DEF f, top
      <3> QED
        BY <1>1, <3>1, NumberOf
    <2>3. Number(f, top + 1) = Number(f, top) + (IF top \in f THEN p ELSE 0)
      <3> HIDE DEF f, top
      <3> QED
        BY <1>1, HighestBit DEF p
    <2>4. Number(z, top + 1) = low + (IF top \in z THEN p ELSE 0)
      <3> HIDE DEF top
      <3> QED
        BY <1>1, HighestBit DEF p, low
    <2>5. low \in Nat
      <3> HIDE DEF top
      <3> QED
        BY <1>1, NumberRange
    <2>6. Signed(z, n) = Number(z, top + 1) - (IF top \in z THEN 2 * p ELSE 0)
      BY <1>1, <1>2 DEF Signed
    <2>7. Number(f, n) = Signed(z, n) + p
      <3>1. Number(f, n) = low + (IF top \in z THEN 0 ELSE p)
        <4> HIDE DEF f, low, p, top
        <4> QED
          BY <1>1, <2>1, <2>2, <2>3
      <3>2. Signed(z, n) = low + (IF top \in z THEN p - 2 * p ELSE 0)
        <4> HIDE DEF low, p, top
        <4> QED
          BY <1>2, <2>4, <2>5, <2>6
      <3> HIDE DEF f, low, p, top
      <3> QED
        BY <1>2, <2>5, <3>1, <3>2
    <2> QED
      BY <2>7
  <1>4. Xor(x, {top}) \in SUBSET Bits(n) /\ Xor(y, {top}) \in SUBSET Bits(n)
    BY <1>1 DEF Xor, Bits
  <1>5. SignedLess(x, y, n) <=> Number(Xor(x, {top}), n) < Number(Xor(y, {top}), n)
    BY <1>4, LessCompares DEF SignedLess
  <1>6. \A z : Signed(z, n) \in Int
    <2> TAKE z
    <2>1. Number(z, n) \in Nat /\ Power(n) \in Nat
      BY NumberRange, PowerDoubles
    <2> QED
      BY <2>1 DEF Signed
  <1> DEFINE a == Signed(x, n)   b == Signed(y, n)
  <1>7. a + p < b + p <=> a < b
    <2>1. a \in Int /\ b \in Int
      BY <1>6
    <2> HIDE DEF a, b, p
    <2> QED
      BY <1>2, <2>1
  <1> HIDE DEF top, p
  <1> QED
    BY <1>3, <1>5, <1>7

\* A word whose sign is extended keeps its number.
THEOREM SignExtendKeeps ==
  ASSUME NEW n \in Nat, NEW m \in 1 .. n, NEW x \in SUBSET Bits(m)
  PROVE  Signed(SignExtend(x, m, n), n) = Signed(x, m)
  <1> DEFINE e == SignExtend(x, m, n)
             S == {j \in 0 .. n : j < m \/ Signed(e, j) = Signed(x, m)}
  <1>1. \A b \in Bits(m) : b \in e <=> b \in x
    BY DEF SignExtend, Bits
  <1>2. \A j \in m - 1 .. n - 1 : j \in e <=> m - 1 \in x
    BY DEF SignExtend, Bits
  <1> HIDE DEF e
  <1>3. Signed(e, m) = Signed(x, m)
    <2>1. m \in Nat /\ m - 1 \in Bits(m)
      BY DEF Bits
    <2>2. Number(e, m) = Number(x, m)
      BY <1>1, <2>1, NumberOf
    <2> QED
      BY <1>1, <2>1, <2>2 DEF Signed
  <1>4. ASSUME NEW j \in S, j < n PROVE j + 1 \in S
    <2>1. j \in 0 .. n /\ j \in Nat /\ j + 1 \in 0 .. n /\ (j + 1) - 1 = j
      BY <1>4
    <2>2. CASE j + 1 < m
      BY <2>1, <2>2
    <2>3. CASE j + 1 = m
      BY <1>3, <2>1, <2>3
    <2>4. CASE m <= j
      <3> DEFINE low == Number(e, j)   all == Number(e, j + 1)   p == Power(j)
                 sign == m - 1 \in x
      <3>1. j \in m - 1 .. n - 1 /\ j - 1 \in m - 1 .. n - 1
        BY <1>4, <2>1, <2>4
      <3>2. (j \in e <=> sign) /\ (j - 1 \in e <=> sign)
        BY <1>2, <3>1
      <3>3. all = low + (IF sign THEN p ELSE 0)
        BY <2>1, <3>2, HighestBit
      <3>4. Power(j + 1) = 2 * p /\ p \in Nat /\ low \in Nat
        BY <2>1, PowerDoubles, NumberRange
      <3>5. Signed(e, j + 1) = all - (IF sign THEN 2 * p ELSE 0)
        BY <2>1, <3>2, <3>4 DEF Signed
      <3>6. Signed(e, j) = low - (IF sign THEN p ELSE 0)
        BY <3>2 DEF Signed
      <3>7. Signed(e, j + 1) = Signed(e, j)
        <4> HIDE DEF low, all, p, sign
        <4> QED
          BY <3>3, <3>4, <3>5, <3>6
      <3> QED
        BY <1>4, <2>1, <2>4, <3>7
    <2> QED
      BY <2>1, <2>2, <2>3, <2>4
  <1>5. n \in S
    <2>1. S \in SUBSET Nat /\ n \in 0 .. n /\ 0 \in S
      OBVIOUS
    <2> HIDE DEF S
    <2> QED
      BY <1>4, <2>1, UpTo
  <1> QED
    BY <1>5 DEF e

\* A shift to the left by one is a sum with itself, and one to the right its half.
THEOREM ShiftsDouble ==
  ASSUME NEW n \in Nat, NEW x \in SUBSET Bits(n)
  PROVE  /\ Number(Shl(x, 1, n), n) + (IF n - 1 \in x THEN Power(n) ELSE 0) = 2 * Number(x, n)
         /\ 2 * Number(Shr(x, 1), n) + Bit(0 \in x) = Number(x, n)
  <1>1. ASSUME NEW z \in SUBSET Bits(n)
        PROVE  Number(Shl(z, 1, n), n) + (IF n - 1 \in z THEN Power(n) ELSE 0) = 2 * Number(z, n)
    <2>1. z \subseteq Nat /\ \A b \in z : b <= n - 1
      BY DEF Bits
    <2>2. ASSUME NEW b \in 0 .. n PROVE Carry(z, z, b) <=> b - 1 \in z
      <3>1. ASSUME Carry(z, z, b) PROVE b - 1 \in z
        <4>1. PICK k \in z : k < b /\ \A j \in (k + 1) .. (b - 1) : j \in z
          BY <3>1 DEF Carry
        <4>2. k \in Nat
          BY <2>1
        <4>3. k = b - 1 \/ b - 1 \in (k + 1) .. (b - 1)
          BY <4>1, <4>2
        <4> QED
          BY <4>1, <4>3
      <3>2. ASSUME b - 1 \in z PROVE Carry(z, z, b)
        <4>1. b - 1 < b /\ ((b - 1) + 1) .. (b - 1) = {}
          OBVIOUS
        <4> QED
          BY <3>2, <4>1 DEF Carry
      <3> QED
        BY <3>1, <3>2
    <2>3. \A b \in Bits(n) : b \in Shl(z, 1, n) <=> b - 1 \in z
      BY <2>1 DEF Shl, Bits
    <2>4. Shl(z, 1, n) = Plus(z, z, n)
      <3>1. \A b \in Bits(n) : b \in Plus(z, z, n) <=> b - 1 \in z
        BY <2>2 DEF Plus, Bits
      <3> QED
        BY <2>3, <3>1 DEF Shl, Plus
    <2>5. Number(z, n) + Number(z, n)
            = Number(Plus(z, z, n), n) + (IF Carry(z, z, n) THEN Power(n) ELSE 0)
      BY <2>1, PlusAdds
    <2>6. Carry(z, z, n) <=> n - 1 \in z
      BY <2>2
    <2> DEFINE a == Number(z, n)
    <2>7. a + a = 2 * a
      <3>1. a \in Nat
        BY NumberRange
      <3> HIDE DEF a
      <3> QED
        BY <3>1
    <2> QED
      BY <2>4, <2>5, <2>6, <2>7
  <1>2. 2 * Number(Shr(x, 1), n) + Bit(0 \in x) = Number(x, n)
    <2> DEFINE h == Shr(x, 1)   d == Shl(h, 1, n)
    <2>1. \A b \in Nat : b \in h <=> b + 1 \in x
      <3> TAKE b \in Nat
      <3>1. ASSUME b \in h PROVE b + 1 \in x
        <4> PICK c \in x : 1 <= c /\ b = c - 1
          BY <3>1 DEF Shr
        <4>1. c \in Int
          BY DEF Bits
        <4> QED
          BY <4>1
      <3>2. ASSUME b + 1 \in x PROVE b \in h
        <4>1. 1 <= b + 1 /\ b = (b + 1) - 1
          OBVIOUS
        <4> QED
          BY <3>2, <4>1 DEF Shr
      <3> QED
        BY <3>1, <3>2
    <2>2. h \in SUBSET Bits(n) /\ n - 1 \notin h
      BY DEF Shr, Bits
    <2>3. Number(d, n) = 2 * Number(h, n)
      <3>1. Number(d, n) + 0 = 2 * Number(h, n)
        BY <1>1, <2>2
      <3>2. Number(d, n) \in Nat
        BY NumberRange
      <3> QED
        BY <3>1, <3>2
    <2>4. \A b \in Bits(n) : b \in d <=> b \in x /\ b # 0
      <3> TAKE b \in Bits(n)
      <3>1. b \in d <=> b - 1 \in h
        <4>1. \A c \in h : c \in Nat
          BY <2>2 DEF Bits
        <4> HIDE DEF h
        <4> QED
          BY <4>1 DEF Shl, Bits
      <3>2. b \in Nat
        BY DEF Bits
      <3>3. CASE b = 0
        <4>1. b - 1 \notin h
          BY <2>2, <3>3 DEF Bits
        <4> QED
          BY <3>1, <3>3, <4>1
      <3>4. CASE b # 0
        <4>1. b - 1 \in Nat /\ (b - 1) + 1 = b
          BY <3>2, <3>4
        <4> QED
          BY <2>1, <3>1, <3>4, <4>1
      <3> QED
        BY <3>3, <3>4
    <2>5. Number(x, n) = Number(d, n) + Bit(0 \in x)
      <3> HIDE DEF d, h
      <3> DEFINE S == {k \in 0 .. n : Number(x, k) = Number(d, k) + (IF k = 0 THEN 0 ELSE Bit(0 \in x))}
      <3>1. \A z : Number(z, 0) = 0
        <4> TAKE z
        <4>1. PICK v : Runs(v, z, 0) /\ Number(z, 0) = v[0]
          BY ValueRuns
        <4> QED
          BY <4>1 DEF Runs
      <3>2. 0 \in S
        BY <3>1
      <3>3. ASSUME NEW k \in S, k < n PROVE k + 1 \in S
        <4>1. k \in Nat /\ k \in Bits(n) /\ k + 1 \in 0 .. n /\ k + 1 # 0
          BY <3>3 DEF Bits
        <4>2. /\ Number(x, k + 1) = Number(x, k) + (IF k \in x THEN Power(k) ELSE 0)
              /\ Number(d, k + 1) = Number(d, k) + (IF k \in d THEN Power(k) ELSE 0)
          BY <4>1, HighestBit
        <4>3. k \in d <=> k \in x /\ k # 0
          BY <2>4, <4>1
        <4>4. Number(d, k) \in Nat /\ Power(k) \in Nat /\ Number(x, k) \in Nat
          BY <4>1, NumberRange, PowerDoubles
        <4>5. CASE k = 0
          <5>1. Power(0) = 1
            BY Powers
          <5>2. Number(x, 0) = 0 /\ Number(d, 0) = 0
            BY <3>1
          <5> QED
            BY <4>1, <4>2, <4>3, <4>5, <5>1, <5>2 DEF Bit
        <4>6. CASE k # 0
          <5>1. Number(x, k) = Number(d, k) + Bit(0 \in x)
            BY <3>3, <4>6
          <5>2. Number(x, k + 1) = Number(d, k + 1) + Bit(0 \in x)
            <6> DEFINE a == Number(x, k)   b == Number(d, k)   p == Power(k)   c == Bit(0 \in x)
            <6>1. c \in Nat
              BY DEF Bit
            <6> HIDE DEF a, b, p, c
            <6>2. a = b + c /\ a \in Nat /\ b \in Nat /\ p \in Nat
              BY <4>4, <5>1 DEF a, b, p, c
            <6>3. Number(x, k + 1) = a + (IF k \in x THEN p ELSE 0)
                  /\ Number(d, k + 1) = b + (IF k \in x THEN p ELSE 0)
              BY <4>2, <4>3, <4>6 DEF a, b, p
            <6>4. Number(x, k + 1) = Number(d, k + 1) + c
              BY <6>1, <6>2, <6>3
            <6> QED
              BY <6>4 DEF c
          <5> QED
            BY <4>1, <5>2
        <4> QED
          BY <4>5, <4>6
      <3>4. n \in S
        <4>1. S \in SUBSET Nat /\ n \in 0 .. n
          OBVIOUS
        <4> HIDE DEF S
        <4> QED
          BY <3>2, <3>3, <4>1, UpTo
      <3>5. CASE n = 0
        <4>1. 0 \notin x
          BY <3>5 DEF Bits
        <4> QED
          BY <3>1, <3>5, <4>1 DEF Bit
      <3> QED
        BY <3>4, <3>5
    <2> QED
      BY <2>3, <2>5
  <1> QED
    BY <1>1, <1>2

-----------------------------------------------------------------------------
(* Types *)

\* What the instruction loads before it does anything.
LEMMA Loaded ==
  ASSUME TypeOK
  PROVE  /\ \A a, before : Peek(a, mem, loc, before) \in Byte
         /\ Op \in Byte /\ limm \in Byte /\ imm \in Pair /\ HL \in Pair
  <1>1. \A a, before : Peek(a, mem, loc, before) \in Byte
    <2>1. {0} \in Byte /\ {} \in Byte
      BY DEF Byte, Bits
    <2> QED
      BY <2>1, Masks DEF Peek, TypeOK
  <1>2. HL \in Pair
    <2>1. regs[RegL] \in Pair
      BY Registers, Pairs DEF TypeOK
    <2> QED
      BY <2>1, Pairs DEF HL, Pair
  <1> QED
    BY <1>1, <1>2, Pairs DEF Op, limm, imm

LEMMA RegisterTypes ==
  ASSUME TypeOK
  PROVE  /\ \A r \in SUBSET (0 .. 2) : \A before : RWReg(r, before) \in Byte
         /\ \A d \in {{}, {0}, {1}, {0, 1}} : RDReg(d) \in Pair /\ RDRegPsw(d) \in Pair
         /\ regs[RegA] \in Byte
  <1>1. ASSUME NEW r \in SUBSET (0 .. 2), NEW before PROVE RWReg(r, before) \in Byte
    BY Loaded DEF RWReg, TypeOK, Reg
  <1>2. \A h \in Byte, l \in Byte : Both(h, l) \in Pair
    BY Pairs DEF Both, Pair, Byte, Bits
  <1>3. ASSUME NEW d \in {{}, {0}, {1}} PROVE Both(regs[HighOf(d)], regs[LowOf(d)]) \in Pair
    BY <1>2, PairRegisters DEF TypeOK
  <1>4. ToPsw(flags) \in Byte
    BY DEF ToPsw, FlagBit, TypeOK, Flags, Byte, Bits
  <1>5. regs[RegA] \in Byte
    BY Registers DEF TypeOK
  <1>6. \A d \in {{}, {0}, {1}, {0, 1}} : RDReg(d) \in Pair
    BY <1>3 DEF RDReg, TypeOK
  <1>7. Both(regs[RegA], ToPsw(flags)) \in Pair
    BY <1>2, <1>4, <1>5
  <1> QED
    BY <1>1, <1>5, <1>6, <1>7 DEF RDRegPsw

LEMMA StoreTypes ==
  ASSUME TypeOK
  PROVE  /\ \A a, v : StoreU8(a, v) /\ v \in Byte =>
                mem' \in [Address -> Byte] /\ loc' \in Byte
         /\ \A a, v : StoreU16(a, v) => mem' \in [Address -> Byte] /\ loc' \in Byte
         /\ NoStore => mem' \in [Address -> Byte] /\ loc' \in Byte
  <1>1. \A x : x \cap Bits(8) \in Byte
    BY DEF Byte
  <1>2. \A a, v : StoreU8(a, v) /\ v \in Byte => mem' \in [Address -> Byte] /\ loc' \in Byte
    BY Masks DEF StoreU8, TypeOK
  <1>3. \A a, v : StoreU16(a, v) => mem' \in [Address -> Byte] /\ loc' \in Byte
    <2>1. ASSUME NEW a, NEW v
          PROVE  StoreBytes(mem, a, 2, v, RAM_BITS) \in [Address -> Byte]
      BY <1>1 DEF StoreBytes, TypeOK
    <2> QED
      BY <2>1 DEF StoreU16, TypeOK
  <1> QED
    BY <1>2, <1>3 DEF NoStore, TypeOK

LEMMA WWRegTypes ==
  ASSUME TypeOK, NEW r \in SUBSET (0 .. 2), NEW v \in Byte, WWReg(r, v)
  PROVE  regs' \in [Reg -> Byte] /\ mem' \in [Address -> Byte] /\ loc' \in Byte
  <1>1. CASE r = RegM
    BY <1>1, StoreTypes DEF WWReg, TypeOK
  <1>2. CASE r # RegM
    BY <1>2, StoreTypes DEF WWReg, TypeOK
  <1> QED
    BY <1>1, <1>2

LEMMA WritePairType ==
  ASSUME NEW q \in [Reg -> Byte], NEW d, NEW v PROVE WritePair(q, d, v) \in [Reg -> Byte]
  BY Bytes DEF WritePair

LEMMA SetAType ==
  ASSUME TypeOK, NEW v \in Byte, SetA(v) PROVE regs' \in [Reg -> Byte]
  BY DEF SetA, TypeOK

LEMMA FlagTypes ==
  /\ \A f, x : SetSZP(f, x) \in SUBSET Flags
  /\ \A v : FromPsw(v) \in SUBSET Flags
  /\ \A p : If("cy", p) \in SUBSET Flags
  BY DEF SetSZP, If, FromPsw, Flags

\* The operations are eight.
LEMMA Operations ==
  /\ \A op \in SUBSET (0 .. 2) : op \in {ADD, ADC, SUB, SBB, ANA, XRA, ORA, CMP}
  /\ ADD \notin {ADC, SUB, SBB, ANA, XRA, ORA, CMP} /\ ADC \notin {SUB, SBB, ANA, XRA, ORA, CMP}
  /\ SUB \notin {SBB, ANA, XRA, ORA, CMP} /\ SBB \notin {ANA, XRA, ORA, CMP}
  /\ ANA \notin {XRA, ORA, CMP} /\ XRA \notin {ORA, CMP} /\ ORA # CMP
  <1>1. /\ 0 \notin ADD /\ 1 \notin ADD /\ 2 \notin ADD /\ 0 \in ADC /\ 1 \notin ADC /\ 2 \notin ADC
        /\ 0 \notin SUB /\ 1 \in SUB /\ 2 \notin SUB /\ 0 \in SBB /\ 1 \in SBB /\ 2 \notin SBB
        /\ 0 \notin ANA /\ 1 \notin ANA /\ 2 \in ANA /\ 0 \in XRA /\ 1 \notin XRA /\ 2 \in XRA
        /\ 0 \notin ORA /\ 1 \in ORA /\ 2 \in ORA /\ 0 \in CMP /\ 1 \in CMP /\ 2 \in CMP
    BY DEF ADD, ADC, SUB, SBB, ANA, XRA, ORA, CMP
  <1>2. \A op \in SUBSET (0 .. 2) : op \in {ADD, ADC, SUB, SBB, ANA, XRA, ORA, CMP}
    BY ThreeBits DEF ADD, ADC, SUB, SBB, ANA, XRA, ORA, CMP
  <1> QED
    BY <1>1, <1>2

\* A comparison is a subtraction that keeps A.
LEMMA Compare ==
  ASSUME NEW x, NEW y
  PROVE  Alu(CMP, x, y).a = x /\ Alu(CMP, x, y).flags = Subtract(x, y).flags
  <1>1. Alu(CMP, x, y) = [Subtract(x, y) EXCEPT !.a = x]
    BY Operations DEF Alu
  <1>2. PICK l, f : Subtract(x, y) = [a |-> l, flags |-> f]
    BY DEF Subtract, Result
  <1>3. Alu(CMP, x, y) = [[a |-> l, flags |-> f] EXCEPT !.a = x]
    BY <1>1, <1>2
  <1> QED
    BY <1>2, <1>3

LEMMA AluTypes ==
  ASSUME NEW x \in Byte, NEW y \in Byte, NEW op \in SUBSET (0 .. 2)
  PROVE  /\ Alu(op, x, y).a \in Byte /\ Alu(op, x, y).flags \in SUBSET Flags
         /\ Add(x, y).a \in Byte /\ Add(x, y).flags \in SUBSET Flags
  <1>1. \A z, cy, ac :
          /\ Result(z, cy, ac).a = z
          /\ Result(z, cy, ac).flags \in SUBSET Flags
    BY FlagTypes DEF Result
  <1>2. \A u, v : Add(u, v).a \in Byte /\ Add(u, v).flags \in SUBSET Flags
    BY <1>1, Bytes DEF Add
  <1>3. \A u, v : Subtract(u, v).a \in Byte /\ Subtract(u, v).flags \in SUBSET Flags
    BY <1>1, Bytes DEF Subtract
  <1>4. x \cap y \in Byte /\ Xor(x, y) \in Byte /\ x \cup y \in Byte
    BY DEF Xor, Byte
  <1>5. CASE op \in {ADD, ADC}
    <2>1. Alu(op, x, y) = Add(x, IF op = ADD THEN y ELSE WithCarry(y))
      BY <1>5, Operations DEF Alu
    <2> QED
      BY <1>2, <2>1
  <1>6. CASE op \in {SUB, SBB}
    <2>1. CASE op = SUB
      <3>1. Alu(op, x, y) = Subtract(x, y)
        BY <2>1, Operations DEF Alu
      <3> QED
        BY <1>2, <1>3, <3>1
    <2>2. CASE op = SBB
      <3>1. Alu(op, x, y) = Subtract(x, WithCarry(y))
        BY <2>2, Operations DEF Alu
      <3> QED
        BY <1>2, <1>3, <3>1
    <2> QED
      BY <1>6, <2>1, <2>2
  <1>7. CASE op \in {ANA, XRA, ORA}
    <2> DEFINE w == IF op = ANA THEN x \cap y ELSE IF op = XRA THEN Xor(x, y) ELSE x \cup y
    <2>1. Alu(op, x, y) = Result(w, FALSE, FALSE)
      BY <1>7, Operations DEF Alu
    <2>2. w \in Byte
      BY <1>4
    <2> HIDE DEF w
    <2> QED
      BY <1>2, <2>1, <2>2, FlagTypes DEF Result
  <1>8. CASE op = CMP
    BY <1>2, <1>3, <1>8, Compare
  <1> QED
    BY <1>5, <1>6, <1>7, <1>8, Operations

LEMMA AdjustTypes ==
  ASSUME TypeOK
  PROVE  DecimalAdjust.a \in Byte /\ DecimalAdjust.flags \in SUBSET Flags
  <1>1. \A p : (IF p THEN {1, 2} ELSE {}) \in SUBSET {1, 2}
    OBVIOUS
  <1>2. \A p, q : (IF p THEN {1, 2} ELSE {}) \cup (IF q THEN {5, 6} ELSE {}) \in Byte
    BY DEF Byte, Bits
  <1>3. \E y \in Byte : DecimalAdjust = Add(regs[RegA], y)
    BY <1>2 DEF DecimalAdjust
  <1>4. {} \in SUBSET (0 .. 2)
    OBVIOUS
  <1> QED
    BY <1>3, <1>4, AluTypes, RegisterTypes

\* The parts every instruction has.
LEMMA FetchTypes ==
  ASSUME TypeOK, Fetch
  PROVE  ir' \in Byte /\ steps' \in 0 .. MaxSteps /\ ascii' \in Byte /\ ended' \in BOOLEAN
  BY Loaded, Intel8080Assumption DEF Fetch, TypeOK

LEMMA LoadsType == ASSUME TypeOK, NEW o, Loads(o) PROVE ready' \in BOOLEAN
  BY DEF Loads, TypeOK

LEMMA GoesType == ASSUME NEW n, Goes(n) PROVE pc' \in Pair
  BY Pairs DEF Goes

LEMMA NothingType == Nothing \in Saved
  BY DEF Nothing, Saved, Pair, Byte, Bits

LEMMA ForgetType == ASSUME TypeOK, Forget PROVE saved' \in Saved
  BY NothingType DEF Forget, TypeOK

LEMMA PushTypes ==
  ASSUME TypeOK, NEW v, NEW kind \in {"call", "pair"}, NEW pair \in SUBSET {0, 1},
         NEW from \in Pair, PushWord(v, kind, pair, from)
  PROVE  /\ sp' \in Pair /\ mar' \in Offset /\ saved' \in Saved
         /\ mem' \in [Address -> Byte] /\ loc' \in Byte
  <1>1. sp' \in Pair /\ mar' \in Offset
    BY Pairs DEF PushWord
  <1>2. mem' \in [Address -> Byte] /\ loc' \in Byte
    BY StoreTypes DEF PushWord
  <1>3. saved' \in Saved
    BY <1>1 DEF PushWord, Saved, TypeOK
  <1> QED
    BY <1>1, <1>2, <1>3

-----------------------------------------------------------------------------

LEMMA WDRegTypes ==
  ASSUME TypeOK, NEW d \in {{}, {0}, {1}, {0, 1}}, NEW v \in Pair, WDReg(d, v)
  PROVE  regs' \in [Reg -> Byte] /\ sp' \in Pair
  BY WritePairType DEF WDReg, TypeOK

LEMMA InnerTypes ==
  ASSUME TypeOK, NEW g, Inner(g)
  PROVE  /\ ir' \in Byte /\ steps' \in 0 .. MaxSteps /\ ascii' \in Byte /\ ended' \in BOOLEAN
         /\ ready' \in BOOLEAN /\ mem' \in [Address -> Byte] /\ loc' \in Byte
         /\ saved' \in Saved
  <1>1. Fetch /\ Loads(FetchedAt) /\ NoStore /\ saved' = saved
    BY DEF Inner
  <1> QED
    BY <1>1, FetchTypes, LoadsType, StoreTypes DEF TypeOK

LEMMA CountTypes == ASSUME TypeOK, Count PROVE TypeOK'
  <1>1. Fetch /\ Forget /\ Goes(1) /\ sp' = sp /\ mar' = mar
    BY DEF Count
  <1>2. PICK new \in Byte : WWReg(wdest, new)
    BY Bytes DEF Count
  <1>3. flags' \in SUBSET Flags
    BY FlagTypes DEF Count
  <1>4. ready' \in BOOLEAN
    BY LoadsType DEF Count
  <1>5. regs' \in [Reg -> Byte] /\ mem' \in [Address -> Byte] /\ loc' \in Byte
    BY <1>2, WWRegTypes, Fields
  <1> QED
    BY <1>1, <1>3, <1>4, <1>5, FetchTypes, GoesType, ForgetType DEF TypeOK

LEMMA MoveTypes == ASSUME TypeOK, MoveImmediate \/ Move PROVE TypeOK'
  <1>1. Fetch /\ Forget /\ sp' = sp /\ mar' = mar /\ flags' = flags
    BY DEF MoveImmediate, Move
  <1>2. pc' \in Pair
    BY GoesType DEF MoveImmediate, Move
  <1>3. ready' \in BOOLEAN
    BY LoadsType DEF MoveImmediate, Move
  <1>4. PICK v \in Byte : WWReg(wdest, v)
    BY Loaded, RegisterTypes, Fields DEF MoveImmediate, Move
  <1>5. regs' \in [Reg -> Byte] /\ mem' \in [Address -> Byte] /\ loc' \in Byte
    BY <1>4, WWRegTypes, Fields
  <1> QED
    BY <1>1, <1>2, <1>3, <1>5, FetchTypes, ForgetType DEF TypeOK

LEMMA ArithmeticTypes == ASSUME TypeOK, Arithmetic PROVE TypeOK'
  <1>1. Fetch /\ NoStore /\ sp' = sp /\ mar' = mar /\ saved' = saved
    BY DEF Arithmetic
  <1>2. pc' \in Pair
    BY GoesType DEF Arithmetic
  <1>3. ready' \in BOOLEAN
    BY LoadsType DEF Arithmetic
  <1>4. PICK y \in Byte :
          SetA(Alu(wdest, regs[RegA], y).a) /\ flags' = Alu(wdest, regs[RegA], y).flags
    BY Bytes, RegisterTypes, Fields DEF Arithmetic
  <1>5. regs' \in [Reg -> Byte] /\ flags' \in SUBSET Flags
    BY <1>4, AluTypes, SetAType, RegisterTypes, Fields
  <1> QED
    BY <1>1, <1>2, <1>3, <1>5, FetchTypes, StoreTypes DEF TypeOK

LEMMA PushPopTypes == ASSUME TypeOK, Push \/ Pop PROVE TypeOK'
  <1>1. Fetch /\ Goes(1) /\ Loads(FetchedAt)
    BY DEF Push, Pop
  <1>2. ASSUME Push PROVE TypeOK'
    <2>1. PushWord(RDRegPsw(dsrc), "pair", dsrc, {}) /\ regs' = regs /\ flags' = flags
      BY <1>2 DEF Push
    <2>2. dsrc \in SUBSET {0, 1} /\ {} \in Pair
      BY Fields DEF Pair
    <2> QED
      BY <1>1, <2>1, <2>2, FetchTypes, GoesType, LoadsType, PushTypes DEF TypeOK
  <1>3. ASSUME Pop PROVE TypeOK'
    <2>1. NoStore /\ saved' = saved /\ sp' = Plus(sp, {1}, 16) /\ mar' = sp'
      BY <1>3 DEF Pop
    <2>2. PICK v : \/ SetA(High(v)) /\ flags' = FromPsw(v)
                   \/ regs' = WritePair(regs, dsrc, v) /\ flags' = flags
      BY <1>3 DEF Pop
    <2>3. regs' \in [Reg -> Byte] /\ flags' \in SUBSET Flags
      BY <2>2, Bytes, SetAType, WritePairType, FlagTypes DEF TypeOK
    <2> QED
      BY <1>1, <2>1, <2>3, FetchTypes, GoesType, LoadsType, StoreTypes, Pairs DEF TypeOK
  <1> QED
    BY <1>2, <1>3

LEMMA PairTypes == ASSUME TypeOK, AddPairs \/ LoadPair \/ CountPair PROVE TypeOK'
  <1>1. PICK g : Inner(g)
    BY DEF AddPairs, LoadPair, CountPair
  <1>2. pc' \in Pair /\ mar' = mar
    BY GoesType DEF AddPairs, LoadPair, CountPair
  <1>3. ASSUME AddPairs PROVE regs' \in [Reg -> Byte] /\ sp' \in Pair /\ flags' \in SUBSET Flags
    BY <1>3, WritePairType, FlagTypes DEF AddPairs, TypeOK
  <1>4. ASSUME LoadPair \/ CountPair
        PROVE  regs' \in [Reg -> Byte] /\ sp' \in Pair /\ flags' = flags
    <2>1. PICK v \in Pair : WDReg(dsrc, v)
      BY <1>4, Loaded, Pairs DEF LoadPair, CountPair
    <2> QED
      BY <1>4, <2>1, WDRegTypes, Fields DEF LoadPair, CountPair
  <1> QED
    BY <1>1, <1>2, <1>3, <1>4, InnerTypes DEF TypeOK

\* The instructions on A and the flags alone.
LEMMA SimpleTypes ==
  ASSUME TypeOK, CarryFlag \/ Complement \/ Adjust \/ Rotate \/ NoOperation \/ Illegal
  PROVE  TypeOK'
  <1>1. PICK g : Inner(g)
    BY DEF CarryFlag, Complement, Adjust, Rotate, NoOperation, Illegal
  <1>2. pc' \in Pair /\ sp' = sp /\ mar' = mar
    BY GoesType DEF CarryFlag, Complement, Adjust, Rotate, NoOperation, Illegal, TypeOK
  <1>3. ASSUME Rotate PROVE regs' \in [Reg -> Byte] /\ flags' \in SUBSET Flags
    <2>1. PICK p, v, i : SetA(v \cup If(i, p)) /\ v \in Byte /\ i \in {0, 7}
      <3>1. Shr(regs[RegA], 1) \in Byte
        BY RegisterTypes DEF Shr, Byte, Bits
      <3> QED
        BY <1>3, <3>1, Bytes DEF Rotate
    <2>2. v \cup If(i, p) \in Byte
      BY <2>1 DEF If, Byte, Bits
    <2>3. flags' \in SUBSET Flags
      BY <1>3, FlagTypes DEF Rotate, TypeOK
    <2> QED
      BY <2>1, <2>2, <2>3, SetAType
  <1>4. ASSUME CarryFlag \/ Complement \/ Adjust
        PROVE  regs' \in [Reg -> Byte] /\ flags' \in SUBSET Flags
    BY <1>4, Bytes, SetAType, AdjustTypes
    DEF CarryFlag, Complement, Adjust, Xor, Flags, TypeOK
  <1>5. ASSUME NoOperation \/ Illegal PROVE regs' \in [Reg -> Byte] /\ flags' \in SUBSET Flags
    BY <1>5 DEF NoOperation, Illegal, TypeOK
  <1> QED
    BY <1>1, <1>2, <1>3, <1>4, <1>5, InnerTypes DEF TypeOK

LEMMA ExchangeTypes == ASSUME TypeOK, Exchange \/ StackFromHL \/ ExchangeTop PROVE TypeOK'
  <1>1. ASSUME Exchange \/ StackFromHL PROVE TypeOK'
    <2>1. PICK g : Inner(g)
      BY <1>1 DEF Exchange, StackFromHL
    <2>2. pc' \in Pair /\ flags' = flags /\ mar' = mar
      BY <1>1, GoesType DEF Exchange, StackFromHL
    <2>3. regs' \in [Reg -> Byte] /\ sp' \in Pair
      BY <1>1, WritePairType, Loaded DEF Exchange, StackFromHL, TypeOK
    <2> QED
      BY <2>1, <2>2, <2>3, InnerTypes DEF TypeOK
  <1>2. ASSUME ExchangeTop PROVE TypeOK'
    BY <1>2, WritePairType, StoreTypes, FetchTypes, GoesType, LoadsType, ForgetType
    DEF ExchangeTop, TypeOK
  <1> QED
    BY <1>1, <1>2

LEMMA MemoryTypes == ASSUME TypeOK, StoreA \/ LoadA \/ StoreHL \/ LoadHL PROVE TypeOK'
  <1>1. Fetch /\ sp' = sp /\ flags' = flags
    BY DEF StoreA, LoadA, StoreHL, LoadHL
  <1>2. pc' \in Pair
    BY GoesType DEF StoreA, LoadA, StoreHL, LoadHL
  <1>3. ready' \in BOOLEAN
    BY LoadsType DEF StoreA, LoadA, StoreHL, LoadHL
  <1>4. mar' \in Offset
    <2>1. RDReg(dsrc) \in Pair
      BY RegisterTypes, Fields
    <2> QED
      BY <2>1, Loaded, Pairs DEF StoreA, LoadA, StoreHL, LoadHL
  <1>5. ASSUME StoreA \/ StoreHL PROVE TypeOK'
    <2>1. regs' = regs /\ Forget
      BY <1>5 DEF StoreA, StoreHL
    <2>2. mem' \in [Address -> Byte] /\ loc' \in Byte
      BY <1>5, StoreTypes, RegisterTypes DEF StoreA, StoreHL
    <2> QED
      BY <1>1, <1>2, <1>3, <1>4, <2>1, <2>2, FetchTypes, ForgetType DEF TypeOK
  <1>6. ASSUME LoadA \/ LoadHL PROVE TypeOK'
    <2>1. NoStore /\ saved' = saved
      BY <1>6 DEF LoadA, LoadHL
    <2>2. CASE LoadA
      <3>1. PICK a : SetA(LoadedA(a))
        BY <2>2 DEF LoadA
      <3>2. regs' \in [Reg -> Byte]
        BY <3>1, Loaded, SetAType DEF LoadedA
      <3> QED
        BY <1>1, <1>2, <1>3, <1>4, <2>1, <3>2, FetchTypes, StoreTypes DEF TypeOK
    <2>3. CASE LoadHL
      <3>1. PICK h \in Byte, l \in Byte : regs' = [regs EXCEPT ![RegH] = h, ![RegL] = l]
        BY <2>3, Loaded DEF LoadHL
      <3>2. regs' \in [Reg -> Byte]
        BY <3>1 DEF TypeOK
      <3> QED
        BY <1>1, <1>2, <1>3, <1>4, <2>1, <3>2, FetchTypes, StoreTypes DEF TypeOK
    <2> QED
      BY <1>6, <2>2, <2>3
  <1> QED
    BY <1>5, <1>6

LEMMA JumpTypes == ASSUME TypeOK, Jump \/ Call \/ Restart \/ Return PROVE TypeOK'
  <1>1. pc' \in Pair
    <2>1. Op \cap {3, 4, 5} \in Pair
      BY DEF Pair, Bits
    <2> QED
      BY <2>1, GoesType, Loaded, Pairs DEF Jump, Call, Restart, Return
  <1>2. regs' = regs /\ flags' = flags
    BY DEF Jump, Call, Restart, Return
  <1>3. ASSUME Jump \/ Return PROVE TypeOK'
    <2>1. PICK g : Inner(g)
      BY <1>3 DEF Jump, Return
    <2>2. sp' \in Pair /\ mar' = mar
      BY <1>3, Pairs DEF Jump, Return, TypeOK
    <2> QED
      BY <1>1, <1>2, <2>1, <2>2, InnerTypes DEF TypeOK
  <1>4. ASSUME Call \/ Restart PROVE TypeOK'
    <2>1. Fetch /\ Loads(FetchedAt)
      BY <1>4 DEF Call, Restart
    <2>2. \/ \E v, from \in Pair : PushWord(v, "call", {}, from)
          \/ NoStore /\ sp' = sp /\ mar' = mar /\ saved' = saved
      BY <1>4, Pairs DEF Call, Restart, Behind
    <2>3. /\ sp' \in Pair /\ mar' \in Offset /\ saved' \in Saved
          /\ mem' \in [Address -> Byte] /\ loc' \in Byte
      BY <2>2, PushTypes, StoreTypes DEF TypeOK
    <2> QED
      BY <1>1, <1>2, <2>1, <2>3, FetchTypes, LoadsType DEF TypeOK
  <1> QED
    BY <1>3, <1>4

\* The variables of the processor keep their types, for every opcode.
THEOREM TypeCorrect == Spec => []TypeOK
  <1>1. Init => TypeOK
    <2> SUFFICES ASSUME Init PROVE TypeOK
      OBVIOUS
    <2>1. PICK m \in Machine :
            regs = m.regs /\ sp = m.sp /\ pc = m.pc /\ flags = m.flags /\ mem = m.mem
      BY Intel8080Assumption DEF Init
    <2>2. {} \in Byte /\ {} \in Offset /\ 0 \in 0 .. MaxSteps
      BY Intel8080Assumption DEF Byte, Offset
    <2> QED
      BY <2>1, <2>2, NothingType DEF Init, TypeOK, Machine
  <1>2. TypeOK /\ [Next]_vars => TypeOK'
    <2> SUFFICES ASSUME TypeOK, [Next]_vars PROVE TypeOK'
      OBVIOUS
    <2>1. CASE Intel8080_Step
      BY <2>1, CountTypes, MoveTypes, ArithmeticTypes, PushPopTypes, PairTypes, SimpleTypes,
         ExchangeTypes, MemoryTypes, JumpTypes
      DEF Intel8080_Step
    <2>2. CASE Overrun
      BY <2>2 DEF Overrun, TypeOK, cpu, tty
    <2>3. CASE \E key \in Keys : SysTick(key)
      BY <2>3, Intel8080Assumption DEF SysTick, TypeOK, cpu, Byte, Bits
    <2>4. CASE Terminated \/ UNCHANGED vars
      BY <2>4 DEF Terminated, vars, cpu, tty, TypeOK
    <2> QED
      BY <2>1, <2>2, <2>3, <2>4 DEF Next
  <1> QED
    BY <1>1, <1>2, PTL DEF Spec

-----------------------------------------------------------------------------
(* The stack *)

\* The word that was put there, and where it lies in memory.
SavedWord ==
  IF saved.kind = "call" THEN saved.pc
  ELSE IF saved.pair = {0, 1} THEN Both(saved.regs[RegA], ToPsw(saved.flags))
  ELSE Both(saved.regs[HighOf(saved.pair)], saved.regs[LowOf(saved.pair)])

StackHolds == saved.kind # "nothing" => LoadU16(saved.at) = SavedWord

\* The two cells of a word differ in bit 0.
LEMMA TwoCells ==
  ASSUME NEW a \in Address
  PROVE  /\ Cell(a, 0, RAM_BITS) \in Address /\ Cell(a, 1, RAM_BITS) \in Address
         /\ Cell(a, 0, RAM_BITS) # Cell(a, 1, RAM_BITS)
  <1>1. \A i : Cell(a, i, RAM_BITS) \in Address
    BY DEF Cell, Plus, Address
  <1>2. 0 \in Bits(RAM_BITS)
    BY Intel8080Assumption DEF Bits
  <1>3. ~Carry(a, {}, 0) /\ ~Carry(a, {0}, 0)
    BY DEF Carry
  <1>4. ASSUME NEW y, ~Carry(a, y, 0)
        PROVE  0 \in Plus(a, y, RAM_BITS) <=> ~(0 \in a <=> 0 \in y)
    BY <1>2, <1>4 DEF Plus
  <1>5. 0 \in Cell(a, 0, RAM_BITS) <=> 0 \in a
    <2>1. Cell(a, 0, RAM_BITS) = Plus(a, {}, RAM_BITS)
      BY DEF Cell, Num
    <2> QED
      BY <1>3, <1>4, <2>1
  <1>6. 0 \in Cell(a, 1, RAM_BITS) <=> 0 \notin a
    <2>1. Cell(a, 1, RAM_BITS) = Plus(a, {0}, RAM_BITS)
      BY DEF Cell, Num
    <2> QED
      BY <1>3, <1>4, <2>1
  <1> QED
    BY <1>1, <1>5, <1>6

\* A word that was stored is loaded back.
LEMMA StoreLoad ==
  ASSUME NEW m \in [Address -> Byte], NEW a \in Address, NEW v \in Pair
  PROVE  LoadBytes(StoreBytes(m, a, 2, v, RAM_BITS), a, 2, RAM_BITS) = v
  <1> DEFINE s == StoreBytes(m, a, 2, v, RAM_BITS)
             C(i) == Cell(a, i, RAM_BITS)
  <1>1. ASSUME NEW i \in {0, 1} PROVE s[C(i)] = Shr(v, 8 * i) \cap Bits(8)
    <2>1. C(i) \in Address /\ i \in 0 .. 1
      BY TwoCells
    <2>2. \A k \in 0 .. 1 : C(i) = C(k) => k = i
      BY TwoCells
    <2>3. Lane(C(i), a, 2, RAM_BITS) = i
      BY <2>1, <2>2 DEF Lane
    <2> QED
      BY <2>1, <2>3 DEF StoreBytes
  <1>2. ASSUME NEW b \in Bits(16) PROVE b % 8 \in s[C(b \div 8)] <=> b \in v
    <2>1. PICK k \in {0, 1}, r \in Bits(8) : b \div 8 = k /\ b % 8 = r /\ b = 8 * k + r
      <3>1. b \in Int /\ 0 <= b /\ b < 16
        BY DEF Bits
      <3>2. b \div 8 \in {0, 1} /\ b % 8 \in 0 .. 7 /\ b = 8 * (b \div 8) + (b % 8)
        BY <3>1
      <3> QED
        BY <3>2 DEF Bits
    <2>2. r \in s[C(k)] <=> r \in Shr(v, 8 * k)
      BY <1>1
    <2>3. r \in Shr(v, 8 * k) <=> r + 8 * k \in v
      <3>1. r \in Nat /\ 8 * k \in Nat
        BY DEF Bits
      <3> QED
        BY <3>1, ShrBits
    <2> QED
      BY <2>1, <2>2, <2>3
  <1> HIDE DEF s
  <1>3. v \subseteq Bits(16)
    BY DEF Pair
  <1>4. LoadBytes(s, a, 2, RAM_BITS) = {b \in Bits(16) : b % 8 \in s[C(b \div 8)]}
    BY DEF LoadBytes
  <1>5. LoadBytes(s, a, 2, RAM_BITS) = v
    BY <1>2, <1>3, <1>4
  <1> QED
    BY <1>5 DEF s

LEMMA Halves ==
  ASSUME NEW h \in Byte, NEW l \in Byte
  PROVE  High(Both(h, l)) = h /\ LowByte(Both(h, l)) = l
  <1>1. \A b \in Bits(16) : b \in Shl(h, 8, 16) <=> b >= 8 /\ b - 8 \in h
    BY DEF Shl, Byte, Bits
  <1>2. Shl(h, 8, 16) \subseteq Bits(16)
    BY DEF Shl
  <1>3. LowByte(Both(h, l)) = l
    <2>1. ASSUME NEW b \in Bits(8) PROVE b \notin Shl(h, 8, 16)
      BY <1>1 DEF Bits
    <2> QED
      BY <2>1 DEF LowByte, Both, Byte
  <1>4. ASSUME NEW b \in Bits(8) PROVE b \in Shr(Both(h, l), 8) <=> b \in h
    <2>1. b \in Shr(Both(h, l), 8) <=> b + 8 \in Both(h, l)
      <3>1. Both(h, l) \in Pair /\ b \in Nat
        <4>1. l \subseteq Bits(16)
          BY DEF Byte, Bits
        <4> QED
          <5>1. b \in Nat
            BY DEF Bits
          <5>2. Both(h, l) \subseteq Bits(16)
            BY <1>2, <4>1 DEF Both
          <5> QED
            BY <5>1, <5>2 DEF Pair
      <3> QED
        BY <3>1, ShrBits
    <2>2. b + 8 \in Both(h, l) <=> b \in h
      BY <1>1 DEF Both, Byte, Bits
    <2> QED
      BY <2>1, <2>2
  <1> QED
    BY <1>3, <1>4 DEF High, Byte

LEMMA PswRoundTrip ==
  ASSUME NEW a \in Byte, NEW f \in SUBSET Flags
  PROVE  FromPsw(Both(a, ToPsw(f))) = f
  <1>1. ToPsw(f) \in Byte
    BY DEF ToPsw, FlagBit, Flags, Byte, Bits
  <1>2. \A b \in Bits(8) : b \in Both(a, ToPsw(f)) <=> b \in ToPsw(f)
    BY <1>1, Halves DEF LowByte
  <1>3. \A x \in Flags : FlagBit[x] \in ToPsw(f) <=> x \in f
    BY DEF ToPsw, FlagBit, Flags
  <1>4. \A x \in Flags : FlagBit[x] \in Bits(8)
    BY DEF FlagBit, Flags, Bits
  <1> QED
    BY <1>2, <1>3, <1>4 DEF FromPsw

\* The word of a push is there.
LEMMA PushHolds ==
  ASSUME TypeOK, NEW v \in Pair, NEW kind, NEW pair, NEW from, PushWord(v, kind, pair, from)
  PROVE  /\ LoadU16(saved.at)' = v
         /\ saved' = [kind |-> kind, pair |-> pair, at |-> sp', regs |-> regs,
                      flags |-> flags, pc |-> from]
  BY StoreLoad, Masks DEF PushWord, StoreU16, LoadU16, TypeOK

\* Nothing is stored over it, or it is forgotten.
LEMMA KeepHolds ==
  ASSUME TypeOK, StackHolds, (mem' = mem /\ saved' = saved) \/ Forget
  PROVE  StackHolds'
  <1>1. CASE mem' = mem /\ saved' = saved
    BY <1>1 DEF StackHolds, SavedWord, LoadU16
  <1>2. CASE Forget /\ saved' = Nothing
    BY <1>2 DEF StackHolds, Nothing
  <1>3. CASE Forget /\ saved' # Nothing
    <2>1. saved' = saved
      BY <1>3 DEF Forget
    <2>2. \A i \in {0, 1} :
            LET c == Cell(Masked(saved.at), i, RAM_BITS) IN mem'[c] = mem[c]
      BY <1>3 DEF Forget
    <2>3. \A b \in Bits(16) : b \div 8 \in {0, 1}
      BY DEF Bits
    <2>4. LoadU16(saved.at)' = LoadU16(saved.at)
      BY <2>1, <2>2, <2>3 DEF LoadU16, LoadBytes
    <2> QED
      BY <2>1, <2>4 DEF StackHolds, SavedWord
  <1> QED
    BY <1>1, <1>2, <1>3

LEMMA StackStep ==
  ASSUME TypeOK, StackHolds, [Next]_vars PROVE StackHolds'
  <1>1. CASE Push
    <2>1. PushWord(RDRegPsw(dsrc), "pair", dsrc, {})
      BY <1>1 DEF Push
    <2>2. RDRegPsw(dsrc) \in Pair
      BY RegisterTypes, Fields
    <2>3. LoadU16(saved.at)' = RDRegPsw(dsrc) /\ saved'.kind = "pair" /\ saved'.pair = dsrc
          /\ saved'.regs = regs /\ saved'.flags = flags
      BY <2>1, <2>2, PushHolds
    <2> QED
      BY <2>3 DEF StackHolds, SavedWord, RDRegPsw, RDReg
  <1>2. CASE Call \/ Restart
    <2>1. \/ \E from \in Pair : PushWord(from, "call", {}, from)
          \/ NoStore /\ saved' = saved
      BY <1>2, Pairs DEF Call, Restart, Behind
    <2>2. ASSUME NEW from \in Pair, PushWord(from, "call", {}, from) PROVE StackHolds'
      <3>1. LoadU16(saved.at)' = from /\ saved'.kind = "call" /\ saved'.pc = from
        BY <2>2, PushHolds
      <3> QED
        BY <3>1 DEF StackHolds, SavedWord
    <2> QED
      BY <2>1, <2>2, KeepHolds DEF NoStore
  <1>3. CASE Count \/ MoveImmediate \/ Move \/ ExchangeTop \/ StoreA \/ StoreHL
    <2>1. Forget
      BY <1>3 DEF Count, MoveImmediate, Move, ExchangeTop, StoreA, StoreHL
    <2> QED
      BY <2>1, KeepHolds
  <1>4. CASE Arithmetic \/ Pop \/ LoadA \/ LoadHL
    <2>1. mem' = mem /\ saved' = saved
      BY <1>4 DEF Arithmetic, Pop, LoadA, LoadHL, NoStore
    <2> QED
      BY <2>1, KeepHolds
  <1>5. CASE \E g : Inner(g)
    <2>1. mem' = mem /\ saved' = saved
      BY <1>5 DEF Inner, NoStore
    <2> QED
      BY <2>1, KeepHolds
  <1>6. CASE \/ AddPairs \/ LoadPair \/ CountPair \/ NoOperation \/ CarryFlag \/ Complement
             \/ Adjust \/ Rotate \/ Exchange \/ StackFromHL \/ Jump \/ Return \/ Illegal
    <2>1. \E g : Inner(g)
      BY <1>6 DEF AddPairs, LoadPair, CountPair, NoOperation, CarryFlag, Complement, Adjust,
                  Rotate, Exchange, StackFromHL, Jump, Return, Illegal
    <2> QED
      BY <2>1, <1>5
  <1>7. CASE Overrun \/ (\E key \in Keys : SysTick(key)) \/ Terminated \/ UNCHANGED vars
    <2>1. mem' = mem /\ saved' = saved
      BY <1>7 DEF Overrun, SysTick, Terminated, vars
    <2> QED
      BY <2>1, KeepHolds
  <1> QED
    BY <1>1, <1>2, <1>3, <1>4, <1>6, <1>7 DEF Next, Intel8080_Step

\* What is saved lies on the stack, until something is stored over it.
THEOREM StackIsKept == Spec => [](TypeOK /\ StackHolds)
  <1>1. Init => StackHolds
    BY DEF Init, StackHolds, Nothing
  <1>2. TypeOK /\ StackHolds /\ [Next]_vars => StackHolds'
    BY StackStep
  <1> QED
    BY <1>1, <1>2, TypeCorrect, PTL DEF Spec

\* The groups of opcodes are disjoint: a POP and a return are executed by one action.
LEMMA OnlyPop == ASSUME Next, Steps, Low4(Op) = POP PROVE Pop
  <1>1. /\ 0 \in Op /\ 6 \in Op /\ 7 \in Op
        /\ 1 \notin Op /\ 2 \notin Op /\ 3 \notin Op
    BY DEF Low4, POP
  <1>2. ~Count /\ ~MoveImmediate /\ ~Restart /\ ~Call
    BY <1>1 DEF Count, MoveImmediate, Restart, Call, Low, INR, DCR, MVI, RST, CALL, CCC
  <1>3. ~Move /\ ~Arithmetic
    BY <1>1 DEF Move, Arithmetic, MOV, ALU, ALUI, Low
  <1>4. ~Push /\ ~AddPairs /\ ~LoadPair /\ ~CountPair
    BY <1>1 DEF Push, AddPairs, LoadPair, CountPair, Inner, Low4, PUSH, DAD, LXI, INX, DCX
  <1>5. ~CarryFlag /\ ~Complement /\ ~Adjust /\ ~Rotate /\ ~Exchange /\ ~StackFromHL
    BY <1>1 DEF CarryFlag, Complement, Adjust, Rotate, Exchange, StackFromHL, Inner,
                CMC, STC, CMA, DAA, RLC, RRC, RAL, RAR, XCHG, SPHL
  <1>6. ~ExchangeTop /\ ~StoreA /\ ~LoadA /\ ~StoreHL /\ ~LoadHL
    BY <1>1 DEF ExchangeTop, StoreA, LoadA, StoreHL, LoadHL, XTHL, STAX, STA, LDAX, LDA, SHLD, LHLD
  <1>7. ~Jump /\ ~Return /\ ~NoOperation
    BY <1>1 DEF Jump, Return, NoOperation, Inner, Low, PCHL, JMP, JCC, RET, RCC,
                NOP, EI, DI, IN_PORT, OUT_PORT
  <1>8. ~Illegal
    BY DEF Illegal, Inner, Known
  <1>9. ~Overrun /\ ~Terminated /\ ~(\E key \in Keys : SysTick(key))
    BY DEF Overrun, Terminated, SysTick, vars, Steps
  <1> QED
    BY <1>2, <1>3, <1>4, <1>5, <1>6, <1>7, <1>8, <1>9 DEF Next, Intel8080_Step

LEMMA OnlyReturn == ASSUME Next, Steps, Returns PROVE Return
  <1>1. Op = RET \/ Low(Op) = RCC
    BY DEF Returns
  <1>2. 6 \in Op /\ 7 \in Op /\ 1 \notin Op /\ 2 \notin Op
    BY <1>1 DEF RET, RCC, Low
  <1>3. ~(0 \in Op /\ 3 \notin Op)
    BY <1>1 DEF RET, RCC, Low
  <1>4. ~(0 \in Op /\ 5 \in Op)
    BY <1>1 DEF RET, RCC, Low
  <1>a. ~Count /\ ~MoveImmediate /\ ~Restart /\ ~Call
    BY <1>2 DEF Count, MoveImmediate, Restart, Call, Low, INR, DCR, MVI, RST, CALL, CCC
  <1>b. ~Move /\ ~Arithmetic
    BY <1>2 DEF Move, Arithmetic, MOV, ALU, ALUI, Low
  <1>c. ~Push /\ ~AddPairs /\ ~LoadPair /\ ~CountPair
    BY <1>2 DEF Push, AddPairs, LoadPair, CountPair, Inner, Low4, PUSH, DAD, LXI, INX, DCX
  <1>d. ~Pop
    BY <1>3 DEF Pop, Low4, POP
  <1>e. ~CarryFlag /\ ~Complement /\ ~Adjust /\ ~Rotate /\ ~Exchange /\ ~StackFromHL
    BY <1>2, <1>4 DEF CarryFlag, Complement, Adjust, Rotate, Exchange, StackFromHL, Inner,
                CMC, STC, CMA, DAA, RLC, RRC, RAL, RAR, XCHG, SPHL
  <1>f. ~ExchangeTop /\ ~StoreA /\ ~LoadA /\ ~StoreHL /\ ~LoadHL
    BY <1>2 DEF ExchangeTop, StoreA, LoadA, StoreHL, LoadHL, XTHL, STAX, STA, LDAX, LDA, SHLD, LHLD
  <1>g. ~Jump /\ ~NoOperation
    BY <1>2, <1>4 DEF Jump, NoOperation, Inner, Low, PCHL, JMP, JCC, NOP, EI, DI, IN_PORT, OUT_PORT
  <1>h. ~Illegal
    BY <1>1 DEF Illegal, Inner, Known
  <1>i. ~Overrun /\ ~Terminated /\ ~(\E key \in Keys : SysTick(key))
    BY DEF Overrun, Terminated, SysTick, vars, Steps
  <1> QED
    BY <1>a, <1>b, <1>c, <1>d, <1>e, <1>f, <1>g, <1>h, <1>i DEF Next, Intel8080_Step

\* A pair comes back from the stack, or A with all flags.
LEMMA PopStep ==
  ASSUME TypeOK, StackHolds, Pop, sp = saved.at, saved.kind = "pair", saved.pair = dsrc
  PROVE  IF dsrc = {0, 1}
         THEN regs'[RegA] = saved.regs[RegA] /\ flags' = saved.flags
         ELSE \A r \in {HighOf(dsrc), LowOf(dsrc)} : regs'[r] = saved.regs[r]
  <1>1. LoadU16(sp) = SavedWord
    BY DEF StackHolds
  <1>2. saved.regs \in [Reg -> Byte] /\ saved.flags \in SUBSET Flags
    BY DEF TypeOK, Saved
  <1>3. CASE dsrc = {0, 1}
    <2>1. LoadU16(sp) = Both(saved.regs[RegA], ToPsw(saved.flags))
      BY <1>1, <1>3 DEF SavedWord
    <2>2. saved.regs[RegA] \in Byte /\ ToPsw(saved.flags) \in Byte
      <3>1. ToPsw(saved.flags) \in Byte
        BY <1>2 DEF ToPsw, FlagBit, Flags, Byte, Bits
      <3> QED
        BY <1>2, <3>1, Registers
    <2>3. SetA(High(LoadU16(sp))) /\ flags' = FromPsw(LoadU16(sp))
      BY <1>3 DEF Pop
    <2>4. flags' = saved.flags
      BY <2>1, <2>2, <2>3, <1>2, PswRoundTrip
    <2>5. regs'[RegA] = saved.regs[RegA]
      BY <2>1, <2>2, <2>3, Halves, Registers DEF SetA, TypeOK
    <2> QED
      BY <1>3, <2>4, <2>5
  <1>4. CASE dsrc # {0, 1}
    <2>1. dsrc \in {{}, {0}, {1}}
      BY <1>4, Fields
    <2>2. HighOf(dsrc) \in Reg /\ LowOf(dsrc) \in Reg /\ HighOf(dsrc) # LowOf(dsrc)
      BY <2>1, PairRegisters
    <2>3. LoadU16(sp) = Both(saved.regs[HighOf(dsrc)], saved.regs[LowOf(dsrc)])
      BY <1>1, <1>4 DEF SavedWord
    <2>4. regs' = WritePair(regs, dsrc, LoadU16(sp))
      BY <1>4 DEF Pop
    <2>5. High(LoadU16(sp)) = saved.regs[HighOf(dsrc)] /\ LowByte(LoadU16(sp)) = saved.regs[LowOf(dsrc)]
      BY <2>2, <2>3, <1>2, Halves
    <2>6. regs'[HighOf(dsrc)] = High(LoadU16(sp)) /\ regs'[LowOf(dsrc)] = LowByte(LoadU16(sp))
      BY <2>2, <2>4 DEF WritePair, TypeOK
    <2> QED
      BY <1>4, <2>5, <2>6
  <1> QED
    BY <1>3, <1>4

\* What is on top of the stack comes back, whatever the program did in between.
THEOREM PopsRestore == Spec => PopRestores
  <1>1. ASSUME TypeOK, StackHolds, Next, Steps, sp = saved.at
        PROVE  /\ Low4(Op) = POP /\ saved.kind = "pair" /\ saved.pair = dsrc =>
                    IF dsrc = {0, 1}
                    THEN regs'[RegA] = saved.regs[RegA] /\ flags' = saved.flags
                    ELSE \A r \in {HighOf(dsrc), LowOf(dsrc)} : regs'[r] = saved.regs[r]
               /\ Returns /\ saved.kind = "call" => pc' = saved.pc
    <2>1. ASSUME Returns, saved.kind = "call" PROVE pc' = saved.pc
      <3>1. pc' = LoadU16(sp)
        BY <1>1, <2>1, OnlyReturn DEF Return
      <3> QED
        BY <1>1, <2>1, <3>1 DEF StackHolds, SavedWord
    <2> QED
      BY <1>1, <2>1, OnlyPop, PopStep
  <1>2. TypeOK /\ StackHolds /\ [Next]_vars =>
          [ Steps /\ sp = saved.at =>
              /\ Low4(Op) = POP /\ saved.kind = "pair" /\ saved.pair = dsrc =>
                   IF dsrc = {0, 1}
                   THEN regs'[RegA] = saved.regs[RegA] /\ flags' = saved.flags
                   ELSE \A r \in {HighOf(dsrc), LowOf(dsrc)} : regs'[r] = saved.regs[r]
              /\ Returns /\ saved.kind = "call" => pc' = saved.pc
          ]_vars
    BY <1>1
  <1> QED
    BY <1>2, StackIsKept, PTL DEF Spec, PopRestores

-----------------------------------------------------------------------------
(* The flag of a key *)

\* Who takes the flag: loads of the fetch, of HL, and of an instruction that is
\* there to load.
LEMMA FlagStep ==
  ASSUME TypeOK, Next, ready, ~ready'
  PROVE  \/ regs'[RegA] = {0}
         \/ Op = LHLD
         \/ Tty.ready \in FetchedAt \cup {HL, regs'[RegL] \cup Shl(regs'[RegH], 8, 16)}
  <1>1. \A o : Loads(o) => Tty.ready \in o
    BY DEF Loads
  <1>2. CASE Count
    BY <1>1, <1>2 DEF Count
  <1>3. CASE MoveImmediate \/ Move \/ Arithmetic
    BY <1>1, <1>3 DEF MoveImmediate, Move, Arithmetic, MLoad, HL
  <1>4. CASE LoadA
    <2>1. PICK a : SetA(LoadedA(a)) /\ Loads(FetchedAt \cup {a})
      BY <1>4 DEF LoadA
    <2>2. CASE Tty.ready \in FetchedAt
      BY <2>2
    <2>3. CASE Tty.ready \notin FetchedAt
      <3>1. a = Tty.ready
        BY <1>1, <2>1, <2>3
      <3>2. LoadedA(a) = {0}
        BY <2>3, <3>1 DEF LoadedA, Peek
      <3> QED
        BY <2>1, <3>2, Registers DEF SetA, TypeOK
    <2> QED
      BY <2>2, <2>3
  <1>5. CASE LoadHL
    BY <1>5 DEF LoadHL
  <1>6. CASE Push \/ Pop \/ ExchangeTop \/ StoreA \/ StoreHL \/ Call \/ Restart
    BY <1>1, <1>6 DEF Push, Pop, ExchangeTop, StoreA, StoreHL, Call, Restart
  <1>7. CASE \/ AddPairs \/ LoadPair \/ CountPair \/ NoOperation \/ CarryFlag \/ Complement
             \/ Adjust \/ Rotate \/ Exchange \/ StackFromHL \/ Jump \/ Return \/ Illegal
    <2>1. \E g : Inner(g)
      BY <1>7 DEF AddPairs, LoadPair, CountPair, NoOperation, CarryFlag, Complement, Adjust,
                  Rotate, Exchange, StackFromHL, Jump, Return, Illegal
    <2> QED
      BY <1>1, <2>1 DEF Inner
  <1>8. ~Overrun /\ ~Terminated /\ ~(\E key \in Keys : SysTick(key))
    BY DEF Overrun, SysTick, Terminated, vars, tty
  <1> QED
    BY <1>2, <1>3, <1>4, <1>5, <1>6, <1>7, <1>8 DEF Next, Intel8080_Step

\* A key is lost only to a program that sees it, or to a load that nobody asked for.
THEOREM FlagsAreSeen == Spec => FlagIsSeen
  <1>1. TypeOK /\ [Next]_vars =>
          [ ready /\ ~ready' =>
              \/ regs'[RegA] = {0}
              \/ Op = LHLD
              \/ Tty.ready \in FetchedAt \cup {HL, regs'[RegL] \cup Shl(regs'[RegH], 8, 16)}
          ]_vars
    BY FlagStep
  <1> QED
    BY <1>1, TypeCorrect, PTL DEF Spec, FlagIsSeen

-----------------------------------------------------------------------------
(* The arithmetic unit *)

LEMMA ByteNumbers ==
  ASSUME NEW x \in Byte
  PROVE  /\ x = {} <=> Number(x, 8) = 0
         /\ 7 \in x <=> Number(x, 8) >= 128
  <1>1. Number(x, 8) = 16 * Digit(x, 4) + Digit(x, 0) /\ Number({}, 8) = 16 * Digit({}, 4) + Digit({}, 0)
    BY ByteValue
  <1>2. Number({}, 8) = 0
    BY <1>1 DEF Digit, Bit
  <1>3. x = {} <=> Number(x, 8) = Number({}, 8)
    <2>1. 8 \in Nat /\ x \in SUBSET Bits(8) /\ {} \in SUBSET Bits(8)
      BY DEF Byte
    <2> QED
      BY <2>1, LessCompares
  <1>4. 7 \in x <=> Digit(x, 4) >= 8
    BY DEF Digit, Bit
  <1>5. Digit(x, 4) \in 0 .. 15 /\ Digit(x, 0) \in 0 .. 15
    BY DigitRange
  <1>6. Number(x, 8) >= 128 <=> Digit(x, 4) >= 8
    <2> DEFINE b == Digit(x, 4)   a == Digit(x, 0)
    <2> HIDE DEF a, b
    <2> QED
      BY <1>1, <1>5
  <1> QED
    BY <1>2, <1>3, <1>4, <1>6

\* The value of a word in 8 bits is that of its low byte.
LEMMA LowValue == \A x : Number(LowByte(x), 8) = Number(x, 8)
  <1> TAKE x
  <1>1. \A b \in {0, 1, 2, 3, 4, 5, 6, 7} : b \in LowByte(x) <=> b \in x
    BY DEF LowByte, Bits
  <1>2. Digit(LowByte(x), 4) = Digit(x, 4) /\ Digit(LowByte(x), 0) = Digit(x, 0)
    BY <1>1 DEF Digit
  <1> QED
    BY <1>2, ByteValue

\* A sum of nine bits is one of eight, and the carry out of them.
LEMMA NineBits ==
  ASSUME NEW x \in SUBSET Nat, NEW y \in SUBSET Nat
  PROVE  /\ LowByte(Plus(x, y, 9)) = Plus(x, y, 8)
         /\ 8 \in Plus(x, y, 9) <=> (8 \in x <=> (8 \in y <=> Carry(x, y, 8)))
  <1>1. Bits(9) \cap Bits(8) = Bits(8) /\ 8 \in Bits(9)
    BY DEF Bits
  <1> QED
    BY <1>1 DEF LowByte, Plus

\* What fits into a byte, and the carry, of a sum of numbers.
LEMMA AddValue ==
  ASSUME NEW x \in Byte, NEW y \in Byte
  PROVE  LET sum == Plus(x, y, 9)  full == Number(x, 8) + Number(y, 8)
         IN Number(LowByte(sum), 8) = full % 256 /\ (8 \in sum <=> full # full % 256)
  <1> DEFINE r == Number(Plus(x, y, 8), 8)   a == Number(x, 8)   b == Number(y, 8)
             c == Carry(x, y, 8)
  <1>1. x \in SUBSET Nat /\ y \in SUBSET Nat /\ 8 \notin x /\ 8 \notin y
    BY DEF Byte, Bits
  <1>2. LowByte(Plus(x, y, 9)) = Plus(x, y, 8) /\ (8 \in Plus(x, y, 9) <=> c)
    BY <1>1, NineBits
  <1>3. a + b = r + (IF c THEN 256 ELSE 0)
    BY <1>1, PlusAdds, Powers
  <1>4. a \in Nat /\ a < 256 /\ b \in Nat /\ b < 256 /\ r \in Nat /\ r < 256
    BY ValueRange
  <1>5. r = (a + b) % 256 /\ (c <=> a + b # (a + b) % 256)
    <2> HIDE DEF a, b, c, r
    <2> QED
      BY <1>3, <1>4
  <1> QED
    BY <1>2, <1>5

\* What fits into a byte, and the borrow, of a difference.
LEMMA SubtractValue ==
  ASSUME NEW x \in Byte, NEW y \in Byte
  PROVE  LET sum == Plus(Plus(x, Not(y, 8), 9), {0}, 9)  full == Number(x, 8) - Number(y, 8)
         IN Number(LowByte(sum), 8) = full % 256 /\ (8 \notin sum <=> full # full % 256)
  <1> DEFINE w == Not(y, 8)   u == Plus(x, w, 9)   sum == Plus(u, {0}, 9)
             a == Number(x, 8)   b == Number(y, 8)   d == Number(w, 8)
             e == Number(Plus(x, w, 8), 8)   r == Number(Plus(u, {0}, 8), 8)
             p == Carry(x, w, 8)   q == Carry(u, {0}, 8)
  <1>1. x \in SUBSET Nat /\ w \in SUBSET Nat /\ u \in SUBSET Nat /\ {0} \in SUBSET Nat
        /\ 8 \notin x /\ 8 \notin w /\ 8 \notin {0}
    BY DEF Byte, Bits, Not, Plus
  <1>2. LowByte(u) = Plus(x, w, 8) /\ (8 \in u <=> p)
    BY <1>1, NineBits
  <1>3. LowByte(sum) = Plus(u, {0}, 8) /\ (8 \in sum <=> (8 \in u <=> ~q))
    <2> HIDE DEF u
    <2> QED
      BY <1>1, NineBits
  <1>4. Number(u, 8) = e
    BY <1>2, LowValue
  <1>5. Number({0}, 8) = 1
    <2>1. Number({0}, 8) = 16 * Digit({0}, 4) + Digit({0}, 0)
      BY ByteValue
    <2>2. Digit({0}, 4) = 0 /\ Digit({0}, 0) = 1
      BY DEF Digit, Bit
    <2> QED
      BY <2>1, <2>2
  <1>6. a + d = e + (IF p THEN 256 ELSE 0)
    <2> HIDE DEF w
    <2> QED
      BY <1>1, PlusAdds, Powers
  <1>7. e + 1 = r + (IF q THEN 256 ELSE 0)
    <2> HIDE DEF u
    <2> QED
      BY <1>1, <1>4, <1>5, PlusAdds, Powers
  <1>8. b + d = 255
    BY NotValue, Powers
  <1>9. /\ a \in Nat /\ a < 256 /\ b \in Nat /\ b < 256 /\ d \in Nat
        /\ e \in Nat /\ e < 256 /\ r \in Nat /\ r < 256
    BY ValueRange
  <1>10. r = (a - b) % 256 /\ ((p <=> q) <=> a - b # (a - b) % 256)
    <2> HIDE DEF a, b, d, e, r, p, q
    <2>1. (a - b) + 256 = r + (IF p THEN 256 ELSE 0) + (IF q THEN 256 ELSE 0)
      BY <1>6, <1>7, <1>8, <1>9
    <2>2. ~(p /\ q)
      BY <1>6, <1>7, <1>8, <1>9
    <2>3. CASE p \/ q
      <3>1. a - b = r
        BY <2>1, <2>2, <2>3, <1>9
      <3> QED
        BY <1>9, <2>2, <2>3, <3>1
    <2>4. CASE ~p /\ ~q
      <3>1. a - b = r - 256
        BY <2>1, <2>4, <1>9
      <3> QED
        BY <1>9, <2>4, <3>1
    <2> QED
      BY <2>3, <2>4
  <1> HIDE DEF sum, w, u, r, a, b, d, e, p, q
  <1> QED
    BY <1>2, <1>3, <1>10 DEF sum, w, u, r, a, b

\* The binary digits of the number in a byte are its bits.
LEMMA DigitsOf ==
  ASSUME NEW x
  PROVE  /\ BinaryDigit(Number(x, 8), 1) = Bit(0 \in x)
         /\ BinaryDigit(Number(x, 8), 2) = Bit(1 \in x)
         /\ BinaryDigit(Number(x, 8), 4) = Bit(2 \in x)
         /\ BinaryDigit(Number(x, 8), 8) = Bit(3 \in x)
         /\ BinaryDigit(Number(x, 8), 16) = Bit(4 \in x)
         /\ BinaryDigit(Number(x, 8), 32) = Bit(5 \in x)
         /\ BinaryDigit(Number(x, 8), 64) = Bit(6 \in x)
         /\ BinaryDigit(Number(x, 8), 128) = Bit(7 \in x)
  <1> DEFINE n  == Number(x, 8)
             b0 == Bit(0 \in x)  b1 == Bit(1 \in x)  b2 == Bit(2 \in x)  b3 == Bit(3 \in x)
             b4 == Bit(4 \in x)  b5 == Bit(5 \in x)  b6 == Bit(6 \in x)  b7 == Bit(7 \in x)
  <1>1. n = 128 * b7 + 64 * b6 + 32 * b5 + 16 * b4 + 8 * b3 + 4 * b2 + 2 * b1 + b0
    BY ByteValue DEF Digit, Bit
  <1>2. /\ b0 \in 0 .. 1 /\ b1 \in 0 .. 1 /\ b2 \in 0 .. 1 /\ b3 \in 0 .. 1
        /\ b4 \in 0 .. 1 /\ b5 \in 0 .. 1 /\ b6 \in 0 .. 1 /\ b7 \in 0 .. 1
    BY DEF Bit
  <1>3. /\ (n \div 1) % 2 = b0 /\ (n \div 2) % 2 = b1 /\ (n \div 4) % 2 = b2
        /\ (n \div 8) % 2 = b3 /\ (n \div 16) % 2 = b4 /\ (n \div 32) % 2 = b5
        /\ (n \div 64) % 2 = b6 /\ (n \div 128) % 2 = b7
    <2> HIDE DEF n, b0, b1, b2, b3, b4, b5, b6, b7
    <2> QED
      BY <1>1, <1>2
  <1> QED
    BY <1>3 DEF BinaryDigit

LEMMA OneMore ==
  ASSUME NEW x \in Byte, NEW k \in 0 .. 7
  PROVE  /\ IsFiniteSet(x \cap Bits(k)) /\ Cardinality(x \cap Bits(k)) \in Nat
         /\ Cardinality(x \cap Bits(k + 1)) = Cardinality(x \cap Bits(k)) + Bit(k \in x)
  <1> DEFINE low == x \cap Bits(k)
  <1>1. IsFiniteSet(Bits(k))
    BY FS_Interval DEF Bits
  <1>2. IsFiniteSet(low)
    BY <1>1, FS_Subset
  <1>3. Cardinality(low) \in Nat
    BY <1>2, FS_CardinalityType
  <1>4. k \notin low /\ Bits(k + 1) = Bits(k) \cup {k}
    BY DEF Bits
  <1>5. CASE k \in x
    <2>1. x \cap Bits(k + 1) = low \cup {k}
      BY <1>4, <1>5
    <2> HIDE DEF low
    <2>2. Cardinality(low \cup {k}) = Cardinality(low) + 1
      BY <1>2, <1>4, FS_AddElement
    <2> QED
      BY <1>2, <1>3, <1>5, <2>1, <2>2 DEF Bit, low
  <1>6. CASE k \notin x
    <2>1. x \cap Bits(k + 1) = low
      BY <1>4, <1>6
    <2>2. Bit(k \in x) = 0
      BY <1>6 DEF Bit
    <2>3. Cardinality(low) + 0 = Cardinality(low)
      BY <1>3
    <2> QED
      BY <1>2, <1>3, <2>1, <2>2, <2>3
  <1> QED
    BY <1>5, <1>6

\* The ones of a byte are its elements.
LEMMA Ones ==
  ASSUME NEW x \in Byte
  PROVE  EvenOnes(Number(x, 8)) <=> Cardinality(x) % 2 = 0
  <1> DEFINE n(k) == Cardinality(x \cap Bits(k))
             b0 == Bit(0 \in x)  b1 == Bit(1 \in x)  b2 == Bit(2 \in x)  b3 == Bit(3 \in x)
             b4 == Bit(4 \in x)  b5 == Bit(5 \in x)  b6 == Bit(6 \in x)  b7 == Bit(7 \in x)
  <1>1. n(0) = 0
    <2>1. x \cap Bits(0) = {}
      BY DEF Bits
    <2> QED
      BY <2>1, FS_EmptySet
  <1>2. \A k \in 0 .. 7 : n(k + 1) = n(k) + Bit(k \in x)
    BY OneMore
  <1>3. /\ n(1) = n(0) + b0 /\ n(2) = n(1) + b1 /\ n(3) = n(2) + b2 /\ n(4) = n(3) + b3
        /\ n(5) = n(4) + b4 /\ n(6) = n(5) + b5 /\ n(7) = n(6) + b6 /\ n(8) = n(7) + b7
    <2> HIDE DEF n
    <2>1. 0 + 1 = 1 /\ 1 + 1 = 2 /\ 2 + 1 = 3 /\ 3 + 1 = 4 /\ 4 + 1 = 5 /\ 5 + 1 = 6
          /\ 6 + 1 = 7 /\ 7 + 1 = 8
      OBVIOUS
    <2> QED
      BY <1>2, <2>1
  <1>4. x \cap Bits(8) = x
    BY DEF Byte
  <1>5. /\ b0 \in 0 .. 1 /\ b1 \in 0 .. 1 /\ b2 \in 0 .. 1 /\ b3 \in 0 .. 1
        /\ b4 \in 0 .. 1 /\ b5 \in 0 .. 1 /\ b6 \in 0 .. 1 /\ b7 \in 0 .. 1
    BY DEF Bit
  <1>6. n(8) = b0 + b1 + b2 + b3 + b4 + b5 + b6 + b7
    <2> HIDE DEF n, b0, b1, b2, b3, b4, b5, b6, b7
    <2> QED
      BY <1>1, <1>3, <1>5
  <1>7. EvenOnes(Number(x, 8)) <=> (b0 + b1 + b2 + b3 + b4 + b5 + b6 + b7) % 2 = 0
    <2> HIDE DEF b0, b1, b2, b3, b4, b5, b6, b7
    <2> QED
      BY DigitsOf DEF EvenOnes, b0, b1, b2, b3, b4, b5, b6, b7
  <1> QED
    BY <1>4, <1>6, <1>7

\* An operation with its flags, against numbers.
LEMMA ResultFlags ==
  ASSUME NEW x \in Byte, NEW cy \in BOOLEAN, NEW ac
  PROVE  /\ Result(x, cy, ac).a = x
         /\ ("cy" \in Result(x, cy, ac).flags) = cy
         /\ ("z" \in Result(x, cy, ac).flags) = (Number(x, 8) = 0)
         /\ ("s" \in Result(x, cy, ac).flags) = (Number(x, 8) >= 128)
         /\ ("p" \in Result(x, cy, ac).flags) = EvenOnes(Number(x, 8))
  <1>1. /\ "cy" \in Result(x, cy, ac).flags <=> cy
        /\ "z" \in Result(x, cy, ac).flags <=> x = {}
        /\ "s" \in Result(x, cy, ac).flags <=> 7 \in x
        /\ "p" \in Result(x, cy, ac).flags <=> Cardinality(x) % 2 = 0
    BY DEF Result, SetSZP, If
  <1>2. EvenOnes(Number(x, 8)) \in BOOLEAN
    BY DEF EvenOnes
  <1> QED
    BY <1>1, <1>2, ByteNumbers, Ones DEF Result

LEMMA WithCarryValue ==
  ASSUME NEW y \in Byte, Number(y, 8) # 255 \/ "cy" \notin flags
  PROVE  /\ WithCarry(y) \in Byte
         /\ Number(WithCarry(y), 8) = Number(y, 8) + (IF "cy" \in flags THEN 1 ELSE 0)
  <1> DEFINE z == If(0, "cy" \in flags)   c == IF "cy" \in flags THEN 1 ELSE 0
             b == Number(y, 8)   r == Number(Plus(y, z, 8), 8)   q == Carry(y, z, 8)
  <1>1. Number(z, 8) = c
    <2>1. Number(z, 8) = 16 * Digit(z, 4) + Digit(z, 0)
      BY ByteValue
    <2>2. Digit(z, 4) = 0 /\ Digit(z, 0) = c
      BY DEF Digit, Bit, If
    <2> QED
      BY <2>1, <2>2
  <1>2. y \in SUBSET Nat /\ z \in SUBSET Nat
    BY DEF Byte, Bits, If
  <1>3. b + c = r + (IF q THEN 256 ELSE 0)
    <2> HIDE DEF z, c
    <2> QED
      BY <1>1, <1>2, PlusAdds, Powers
  <1>4. b \in Nat /\ b < 256 /\ r \in Nat /\ r < 256
    BY ValueRange
  <1>5. r = b + c
    <2>1. c \in {0, 1} /\ ~(b = 255 /\ c = 1)
      OBVIOUS
    <2> HIDE DEF b, c, r, q
    <2> QED
      BY <1>3, <1>4, <2>1
  <1> QED
    BY <1>5, Bytes DEF WithCarry

\* The sum and the difference, with the flags.
LEMMA AddExact ==
  ASSUME NEW x \in Byte, NEW y \in Byte
  PROVE  LET full == Number(x, 8) + Number(y, 8)  low == full % 256
         IN /\ Number(Add(x, y).a, 8) = low
            /\ ("cy" \in Add(x, y).flags) = (full # low)
            /\ ("z" \in Add(x, y).flags) = (low = 0)
            /\ ("s" \in Add(x, y).flags) = (low >= 128)
            /\ ("p" \in Add(x, y).flags) = EvenOnes(low)
  <1> DEFINE sum == Plus(x, y, 9)
  <1>1. Add(x, y) = Result(LowByte(sum), 8 \in sum, 3 \in x)
    BY DEF Add
  <1>2. LowByte(sum) \in Byte /\ (8 \in sum) \in BOOLEAN
    BY Bytes
  <1> DEFINE full == Number(x, 8) + Number(y, 8)   carry == 8 \in sum
  <1>3. Number(LowByte(sum), 8) = full % 256 /\ carry = (full # full % 256)
    BY AddValue
  <1>4. /\ Add(x, y).a = LowByte(sum)
        /\ ("cy" \in Add(x, y).flags) = carry
        /\ ("z" \in Add(x, y).flags) = (Number(LowByte(sum), 8) = 0)
        /\ ("s" \in Add(x, y).flags) = (Number(LowByte(sum), 8) >= 128)
        /\ ("p" \in Add(x, y).flags) = EvenOnes(Number(LowByte(sum), 8))
    <2> HIDE DEF sum, carry
    <2>1. carry \in BOOLEAN
      BY DEF carry
    <2>2. Add(x, y) = Result(LowByte(sum), carry, 3 \in x)
      BY <1>1 DEF carry
    <2> QED
      BY <1>2, <2>1, <2>2, ResultFlags
  <1> HIDE DEF sum, carry, full
  <1> QED
    BY <1>3, <1>4 DEF full

LEMMA SubtractExact ==
  ASSUME NEW x \in Byte, NEW y \in Byte
  PROVE  LET full == Number(x, 8) - Number(y, 8)  low == full % 256
         IN /\ Number(Subtract(x, y).a, 8) = low
            /\ ("cy" \in Subtract(x, y).flags) = (full # low)
            /\ ("z" \in Subtract(x, y).flags) = (low = 0)
            /\ ("s" \in Subtract(x, y).flags) = (low >= 128)
            /\ ("p" \in Subtract(x, y).flags) = EvenOnes(low)
  <1> DEFINE sum == Plus(Plus(x, Not(y, 8), 9), {0}, 9)
  <1>1. Subtract(x, y) = Result(LowByte(sum), 8 \notin sum, 3 \in x)
    BY DEF Subtract
  <1>2. LowByte(sum) \in Byte /\ (8 \notin sum) \in BOOLEAN
    BY Bytes
  <1> DEFINE full == Number(x, 8) - Number(y, 8)   carry == 8 \notin sum
  <1>3. Number(LowByte(sum), 8) = full % 256 /\ carry = (full # full % 256)
    BY SubtractValue
  <1>4. /\ Subtract(x, y).a = LowByte(sum)
        /\ ("cy" \in Subtract(x, y).flags) = carry
        /\ ("z" \in Subtract(x, y).flags) = (Number(LowByte(sum), 8) = 0)
        /\ ("s" \in Subtract(x, y).flags) = (Number(LowByte(sum), 8) >= 128)
        /\ ("p" \in Subtract(x, y).flags) = EvenOnes(Number(LowByte(sum), 8))
    <2> HIDE DEF sum, carry
    <2>1. carry \in BOOLEAN
      BY DEF carry
    <2>2. Subtract(x, y) = Result(LowByte(sum), carry, 3 \in x)
      BY <1>1 DEF carry
    <2> QED
      BY <1>2, <2>1, <2>2, ResultFlags
  <1> HIDE DEF sum, carry, full
  <1> QED
    BY <1>3, <1>4 DEF full

\* The number a sum or a difference stands for, before it is cut off to a byte.
Full(op, x, y) ==
  LET c == IF op \in {ADC, SBB} /\ "cy" \in flags THEN 1 ELSE 0
  IN IF op \in {ADD, ADC} THEN Number(x, 8) + Number(y, 8) + c
     ELSE Number(x, 8) - Number(y, 8) - c

\* r is the byte of the number full, and f its flags.
Exactly(full, r, f) ==
  LET low == full % 256
  IN /\ r = low
     /\ ("cy" \in f) = (full # low)
     /\ ("z" \in f) = (low = 0)
     /\ ("s" \in f) = (low >= 128)
     /\ ("p" \in f) = EvenOnes(low)

\* A logical operation works on the binary digits.
LEMMA LogicValue ==
  ASSUME NEW x \in Byte, NEW y \in Byte, NEW op \in {ANA, XRA, ORA}
  PROVE  LET r == Alu(op, x, y)  n == Number(r.a, 8)
         IN /\ \A w \in Weights :
                 BinaryDigit(n, w)
                   = OnDigits(op, BinaryDigit(Number(x, 8), w), BinaryDigit(Number(y, 8), w))
            /\ ("cy" \in r.flags) = FALSE
            /\ ("z" \in r.flags) = (n = 0)
            /\ ("s" \in r.flags) = (n >= 128)
            /\ ("p" \in r.flags) = EvenOnes(n)
  <1> DEFINE w == IF op = ANA THEN x \cap y ELSE IF op = XRA THEN Xor(x, y) ELSE x \cup y
  <1>1. Alu(op, x, y) = Result(w, FALSE, FALSE)
    BY Operations DEF Alu
  <1>2. w \in Byte
    BY DEF Xor, Byte
  <1>3. \A b \in 0 .. 7 : Bit(b \in w) = OnDigits(op, Bit(b \in x), Bit(b \in y))
    <2> TAKE b \in 0 .. 7
    <2>1. CASE op = ANA
      BY <2>1, Operations DEF OnDigits, Bit
    <2>2. CASE op = XRA
      BY <2>2, Operations DEF OnDigits, Bit, Xor
    <2>3. CASE op = ORA
      BY <2>3, Operations DEF OnDigits, Bit
    <2> QED
      BY <2>1, <2>2, <2>3
  <1> HIDE DEF w
  <1>4. \A v \in Weights :
          BinaryDigit(Number(w, 8), v)
            = OnDigits(op, BinaryDigit(Number(x, 8), v), BinaryDigit(Number(y, 8), v))
    <2> TAKE v \in Weights
    <2>1. PICK b \in 0 .. 7 : \A u : BinaryDigit(Number(u, 8), v) = Bit(b \in u)
      <3>1. v \in {1, 2, 4, 8, 16, 32, 64, 128}
        BY DEF Weights
      <3>2. \E b \in {0, 1, 2, 3, 4, 5, 6, 7} : \A u : BinaryDigit(Number(u, 8), v) = Bit(b \in u)
        BY <3>1, DigitsOf
      <3> QED
        BY <3>2
    <2> QED
      BY <1>3, <2>1
  <1> DEFINE r == Result(w, FALSE, FALSE)   n == Number(w, 8)
  <1>5. r.a = w
    BY DEF Result
  <1>6. ("cy" \in r.flags) = FALSE /\ ("z" \in r.flags) = (n = 0) /\ ("s" \in r.flags) = (n >= 128)
    BY <1>2, ByteNumbers DEF Result, SetSZP, If
  <1>7. ("p" \in r.flags) = EvenOnes(n)
    <2>1. "p" \in r.flags <=> Cardinality(w) % 2 = 0
      BY DEF Result, SetSZP, If
    <2>2. EvenOnes(n) \in BOOLEAN
      BY DEF EvenOnes
    <2>3. EvenOnes(n) <=> Cardinality(w) % 2 = 0
      BY <1>2, Ones
    <2> HIDE DEF r, n
    <2> QED
      BY <2>1, <2>2, <2>3
  <1> HIDE DEF r
  <1> QED
    BY <1>1, <1>4, <1>5, <1>6, <1>7 DEF r

LEMMA AluValue ==
  ASSUME NEW x \in Byte, NEW y \in Byte, NEW op \in (SUBSET (0 .. 2)) \ {ANA, XRA, ORA},
         op \in {ADC, SBB} /\ "cy" \in flags => Number(y, 8) # 255
  PROVE  Exactly(Full(op, x, y),
                 IF op = CMP THEN Full(op, x, y) % 256 ELSE Number(Alu(op, x, y).a, 8),
                 Alu(op, x, y).flags)
  <1> DEFINE r == Alu(op, x, y)   v == WithCarry(y)   a == Number(x, 8)   b == Number(y, 8)
             c == IF "cy" \in flags THEN 1 ELSE 0
  <1>1. \A u \in Byte : Exactly(a + Number(u, 8), Number(Add(x, u).a, 8), Add(x, u).flags)
    BY AddExact DEF Exactly
  <1>2. \A u \in Byte : Exactly(a - Number(u, 8), Number(Subtract(x, u).a, 8), Subtract(x, u).flags)
    BY SubtractExact DEF Exactly
  <1>3. a \in Nat /\ b \in Nat /\ c \in Nat
    BY ValueRange
  <1>4. CASE op = ADD
    <2>1. r = Add(x, y) /\ op # CMP
      BY <1>4, Operations DEF Alu
    <2>2. Full(op, x, y) = a + b + 0
      BY <1>4, Operations DEF Full
    <2>3. a + b + 0 = a + b
      BY <1>3
    <2> QED
      BY <1>1, <2>1, <2>2, <2>3
  <1>5. CASE op = SUB
    <2>1. r = Subtract(x, y) /\ op # CMP
      BY <1>5, Operations DEF Alu
    <2>2. Full(op, x, y) = a - b - 0
      BY <1>5, Operations DEF Full
    <2>3. a - b - 0 = a - b
      BY <1>3
    <2> QED
      BY <1>2, <2>1, <2>2, <2>3
  <1>6. ASSUME op \in {ADC, SBB} PROVE v \in Byte /\ Number(v, 8) = b + c
    BY <1>6, WithCarryValue
  <1>7. CASE op = ADC
    <2>1. r = Add(x, v) /\ Full(op, x, y) = a + b + c /\ op # CMP
      BY <1>3, <1>7, Operations DEF Alu, Full
    <2>2. v \in Byte /\ a + Number(v, 8) = a + b + c
      <3> HIDE DEF a, b, c, v
      <3> QED
        BY <1>3, <1>6, <1>7
    <2> QED
      BY <1>1, <2>1, <2>2
  <1>8. CASE op = SBB
    <2>1. r = Subtract(x, v) /\ Full(op, x, y) = a - b - c /\ op # CMP
      BY <1>3, <1>8, Operations DEF Alu, Full
    <2>2. v \in Byte /\ a - Number(v, 8) = a - b - c
      <3> HIDE DEF a, b, c, v
      <3> QED
        BY <1>3, <1>6, <1>8
    <2> QED
      BY <1>2, <2>1, <2>2
  <1>9. CASE op = CMP
    <2>1. r.flags = Subtract(x, y).flags /\ Full(op, x, y) = a - b
      BY <1>3, <1>9, Compare, Operations DEF Full
    <2>2. Exactly(a - b, Number(Subtract(x, y).a, 8), Subtract(x, y).flags)
      BY <1>2
    <2>3. Exactly(a - b, (a - b) % 256, Subtract(x, y).flags)
      BY <2>2 DEF Exactly
    <2> QED
      BY <1>9, <2>1, <2>3
  <1> QED
    BY <1>4, <1>5, <1>7, <1>8, <1>9, Operations

LEMMA OnlyArithmetic ==
  ASSUME Next, Steps, Op \cap {6, 7} = ALU \/ Low(Op) = ALUI PROVE Arithmetic
  <1>1. 7 \in Op /\ (6 \in Op => 1 \in Op /\ 2 \in Op /\ 0 \notin Op)
    BY DEF ALU, ALUI, Low
  <1>2. ~Count /\ ~MoveImmediate /\ ~Restart /\ ~Call
    BY <1>1 DEF Count, MoveImmediate, Restart, Call, Low, INR, DCR, MVI, RST, CALL, CCC
  <1>3. ~Move
    BY <1>1 DEF Move, MOV
  <1>4. ~Push /\ ~Pop /\ ~AddPairs /\ ~LoadPair /\ ~CountPair
    BY <1>1 DEF Push, Pop, AddPairs, LoadPair, CountPair, Inner, Low4, PUSH, POP, DAD, LXI, INX, DCX
  <1>5. ~CarryFlag /\ ~Complement /\ ~Adjust /\ ~Rotate /\ ~Exchange /\ ~StackFromHL
    BY <1>1 DEF CarryFlag, Complement, Adjust, Rotate, Exchange, StackFromHL, Inner,
                CMC, STC, CMA, DAA, RLC, RRC, RAL, RAR, XCHG, SPHL
  <1>6. ~ExchangeTop /\ ~StoreA /\ ~LoadA /\ ~StoreHL /\ ~LoadHL
    BY <1>1 DEF ExchangeTop, StoreA, LoadA, StoreHL, LoadHL, XTHL, STAX, STA, LDAX, LDA, SHLD, LHLD
  <1>7. ~Jump /\ ~Return /\ ~NoOperation
    BY <1>1 DEF Jump, Return, NoOperation, Inner, Low, PCHL, JMP, JCC, RET, RCC,
                NOP, EI, DI, IN_PORT, OUT_PORT
  <1>8. ~Illegal
    BY DEF Illegal, Inner, Known
  <1>9. ~Overrun /\ ~Terminated /\ ~(\E key \in Keys : SysTick(key))
    BY DEF Overrun, Terminated, SysTick, vars, Steps
  <1> QED
    BY <1>2, <1>3, <1>4, <1>5, <1>6, <1>7, <1>8, <1>9 DEF Next, Intel8080_Step

LEMMA AluStepIsExact == ASSUME TypeOK, Next PROVE AluStep
  <1> DEFINE op == wdest
             x == regs[RegA]
             s2 == IF Low(Op) = ALUI THEN LowByte(imm) ELSE RWReg(wsrc, FetchedAt)
             c == IF op \in {ADC, SBB} /\ "cy" \in flags THEN 1 ELSE 0
             r == Alu(op, x, s2)
             n == Number(regs'[RegA], 8)
             logic == op \in {ANA, XRA, ORA}
             full == IF op \in {ADD, ADC} THEN Number(x, 8) + Number(s2, 8) + c
                     ELSE Number(x, 8) - Number(s2, 8) - c
             low == IF logic THEN n ELSE full % 256
  <1>1. SUFFICES ASSUME Steps, Op \cap {6, 7} = ALU \/ Low(Op) = ALUI,
                        ~(c = 1 /\ Number(s2, 8) = 255)
                 PROVE  /\ logic => \A w \in Weights :
                             BinaryDigit(n, w)
                               = OnDigits(op, BinaryDigit(Number(x, 8), w),
                                              BinaryDigit(Number(s2, 8), w))
                        /\ ~logic => n = IF op = CMP THEN Number(x, 8) ELSE low
                        /\ ("cy" \in flags') = (~logic /\ full # low)
                        /\ ("z" \in flags') = (low = 0)
                        /\ ("s" \in flags') = (low >= 128)
                        /\ ("p" \in flags') = EvenOnes(low)
    BY DEF AluStep
  <1>2. x \in Byte /\ s2 \in Byte /\ op \in SUBSET (0 .. 2)
    BY RegisterTypes, Fields, Bytes
  <1>3. Arithmetic
    BY <1>1, OnlyArithmetic
  <1>4. regs' = [regs EXCEPT ![RegA] = r.a] /\ flags' = r.flags
    BY <1>3 DEF Arithmetic, SetA
  <1>5. regs'[RegA] = r.a
    BY <1>4, Registers DEF TypeOK
  <1>6. full = Full(op, x, s2)
    BY DEF Full
  <1>7. ASSUME ~logic
        PROVE  Exactly(Full(op, x, s2),
                       IF op = CMP THEN Full(op, x, s2) % 256 ELSE Number(r.a, 8), r.flags)
    <2>1. op \in {ADC, SBB} /\ "cy" \in flags => Number(s2, 8) # 255
      BY <1>1
    <2>2. op \in (SUBSET (0 .. 2)) \ {ANA, XRA, ORA}
      BY <1>2, <1>7
    <2> HIDE DEF op, x, s2
    <2> QED
      BY <1>2, <2>1, <2>2, AluValue
  <1>8. op = CMP => r.a = x
    BY Compare
  <1>9. CASE logic
    <2>1. op \in {ANA, XRA, ORA}
      BY <1>9
    <2>2. low = n
      BY <1>9
    <2>3. /\ \A w \in Weights :
               BinaryDigit(n, w)
                 = OnDigits(op, BinaryDigit(Number(x, 8), w), BinaryDigit(Number(s2, 8), w))
          /\ ("cy" \in flags') = FALSE
          /\ ("z" \in flags') = (n = 0)
          /\ ("s" \in flags') = (n >= 128)
          /\ ("p" \in flags') = EvenOnes(n)
      <3> DEFINE m == Number(r.a, 8)
      <3>1. /\ \A w \in Weights :
                 BinaryDigit(m, w)
                   = OnDigits(op, BinaryDigit(Number(x, 8), w), BinaryDigit(Number(s2, 8), w))
            /\ ("cy" \in r.flags) = FALSE
            /\ ("z" \in r.flags) = (m = 0)
            /\ ("s" \in r.flags) = (m >= 128)
            /\ ("p" \in r.flags) = EvenOnes(m)
        <4> HIDE DEF op, x, s2
        <4> QED
          BY <1>2, <2>1, LogicValue
      <3>2. m = n /\ flags' = r.flags
        BY <1>4, <1>5
      <3> HIDE DEF op, x, s2, r, m, n
      <3> QED
        BY <3>1, <3>2
    <2> HIDE DEF op, x, s2, r, full, logic, low, n
    <2> QED
      BY <1>9, <2>2, <2>3
  <1>10. CASE ~logic
    <2>1. Exactly(full, IF op = CMP THEN full % 256 ELSE Number(r.a, 8), flags')
      BY <1>4, <1>6, <1>7, <1>10
    <2>2. low = full % 256
      BY <1>10
    <2> HIDE DEF op, x, s2, r, full, logic, low
    <2> QED
      BY <1>5, <1>8, <1>10, <2>1, <2>2 DEF Exactly
  <1> QED
    BY <1>9, <1>10

\* The accumulator, cy, z, s and p are what the numbers say, for every pair of
\* operands and each of the eight operations: sums and differences, and the binary
\* digits of the logical ones (s2 + cy that is cut off aside).
THEOREM AluIsExact == Spec => AluExact
  <1>1. TypeOK /\ [Next]_vars => [AluStep]_vars
    BY AluStepIsExact
  <1> QED
    BY <1>1, TypeCorrect, PTL DEF Spec, AluExact

-----------------------------------------------------------------------------
(* Decimal digits *)

LEMMA Above ==
  ASSUME NEW x
  PROVE  /\ OnesAbove(x) <=> Digit(x, 0) > 9
         /\ TensAbove(x) <=> Digit(x, 4) > 9
         /\ NineTens(x) <=> Digit(x, 4) >= 9
  BY DEF OnesAbove, TensAbove, NineTens, Digit, Bit

\* What DAA adds, as a number.
LEMMA CorrectionValue ==
  ASSUME NEW six \in BOOLEAN, NEW sixty \in BOOLEAN
  PROVE  LET y == (IF six THEN {1, 2} ELSE {}) \cup (IF sixty THEN {5, 6} ELSE {})
         IN y \in Byte /\ Number(y, 8) = (IF six THEN 6 ELSE 0) + (IF sixty THEN 96 ELSE 0)
  <1> DEFINE y == (IF six THEN {1, 2} ELSE {}) \cup (IF sixty THEN {5, 6} ELSE {})
  <1>1. y \in Byte
    BY DEF Byte, Bits
  <1>2. Digit(y, 0) = (IF six THEN 6 ELSE 0) /\ Digit(y, 4) = (IF sixty THEN 6 ELSE 0)
    <2>1. /\ 0 \notin y /\ (1 \in y) = six /\ (2 \in y) = six /\ 3 \notin y
          /\ 4 \notin y /\ (5 \in y) = sixty /\ (6 \in y) = sixty /\ 7 \notin y
      OBVIOUS
    <2> HIDE DEF y
    <2> QED
      BY <2>1 DEF Digit, Bit
  <1>3. Number(y, 8) = 16 * Digit(y, 4) + Digit(y, 0)
    BY ByteValue
  <1> QED
    BY <1>1, <1>2, <1>3

\* The two steps of the 8080 on h tens and l ones, with a carry a out of the ones and
\* a carry c out of the tens, and the one of intel8080.c.
First(h, l, a)     == 16 * h + l + (IF l > 9 \/ a THEN 6 ELSE 0)
Second(h, l, a, c) == First(h, l, a) + (IF First(h, l, a) \div 16 > 9 \/ c THEN 96 ELSE 0)

Corrected(h, l, a, c) ==
  16 * h + l + ((IF l > 9 \/ a THEN 6 ELSE 0)
                  + (IF h > 9 \/ (h >= 9 /\ l > 9) \/ c THEN 96 ELSE 0))

LEMMA DigitsCorrected ==
  ASSUME NEW h \in 0 .. 15, NEW l \in 0 .. 15, NEW a \in BOOLEAN, NEW c \in BOOLEAN
  PROVE  /\ Corrected(h, l, a, c) = Second(h, l, a, c)
         /\ Corrected(h, l, a, c) # Corrected(h, l, a, c) % 256 <=> First(h, l, a) \div 16 > 9
  <1> DEFINE f == First(h, l, a)   sum == Corrected(h, l, a, c)
  <1>1. f \in 0 .. 261 /\ (f \div 16 > 9 <=> f >= 160)
    <2>1. f \in 0 .. 261
      BY DEF First
    <2> HIDE DEF f
    <2> QED
      BY <2>1
  <1>2. f >= 160 <=> h > 9 \/ (h >= 9 /\ l > 9)
    BY DEF First
  <1>3. sum = f + (IF f >= 160 \/ c THEN 96 ELSE 0)
    BY <1>2 DEF First, Corrected
  <1>4. Second(h, l, a, c) = f + (IF f >= 160 \/ c THEN 96 ELSE 0)
    BY <1>1 DEF Second
  <1> HIDE DEF f, sum
  <1>5. sum # sum % 256 <=> f >= 160
    BY <1>1, <1>3
  <1> QED
    BY <1>1, <1>3, <1>4, <1>5 DEF f, sum

LEMMA OnlyAdjust == ASSUME Next, Steps, Op = DAA PROVE Adjust
  <1>1. /\ 0 \in Op /\ 1 \in Op /\ 2 \in Op /\ 3 \notin Op /\ 4 \notin Op /\ 5 \in Op
        /\ 6 \notin Op /\ 7 \notin Op
    BY DEF DAA
  <1>2. ~Count /\ ~MoveImmediate /\ ~Restart /\ ~Call
    BY <1>1 DEF Count, MoveImmediate, Restart, Call, Low, INR, DCR, MVI, RST, CALL, CCC
  <1>3. ~Move /\ ~Arithmetic
    BY <1>1 DEF Move, MOV, Arithmetic, ALU, ALUI, Low
  <1>4. ~Push /\ ~Pop /\ ~AddPairs /\ ~LoadPair /\ ~CountPair
    BY <1>1 DEF Push, Pop, AddPairs, LoadPair, CountPair, Inner, Low4, PUSH, POP, DAD, LXI, INX, DCX
  <1>5. ~CarryFlag /\ ~Complement /\ ~Rotate /\ ~Exchange /\ ~StackFromHL
    BY <1>1 DEF CarryFlag, Complement, Rotate, Exchange, StackFromHL, Inner,
                CMC, STC, CMA, RLC, RRC, RAL, RAR, XCHG, SPHL
  <1>6. ~ExchangeTop /\ ~StoreA /\ ~LoadA /\ ~StoreHL /\ ~LoadHL
    BY <1>1 DEF ExchangeTop, StoreA, LoadA, StoreHL, LoadHL, XTHL, STAX, STA, LDAX, LDA, SHLD, LHLD
  <1>7. ~Jump /\ ~Return /\ ~NoOperation
    BY <1>1 DEF Jump, Return, NoOperation, Inner, Low, PCHL, JMP, JCC, RET, RCC,
                NOP, EI, DI, IN_PORT, OUT_PORT
  <1>8. ~Illegal
    BY DEF Illegal, Inner, Known
  <1>9. ~Overrun /\ ~Terminated /\ ~(\E key \in Keys : SysTick(key))
    BY DEF Overrun, Terminated, SysTick, vars, Steps
  <1> QED
    BY <1>2, <1>3, <1>4, <1>5, <1>6, <1>7, <1>8, <1>9 DEF Next, Intel8080_Step

LEMMA AdjustIsExact == ASSUME TypeOK, Next PROVE DecimalStep
  <1> DEFINE x     == regs[RegA]
             n     == Number(x, 8)
             h     == Digit(x, 4)
             l     == Digit(x, 0)
             a     == "ac" \in flags
             c     == "cy" \in flags
             six   == OnesAbove(x) \/ a
             sixty == Hundred(x) \/ c
             y     == (IF six THEN {1, 2} ELSE {}) \cup (IF sixty THEN {5, 6} ELSE {})
             first == n + (IF n % 16 > 9 \/ a THEN 6 ELSE 0)
             tens  == first \div 16
             r     == Number(regs'[RegA], 8)
             sum   == n + Number(y, 8)
  <1>1. SUFFICES ASSUME Steps, Op = DAA
                 PROVE  /\ r = (first + (IF tens > 9 \/ c THEN 96 ELSE 0)) % 256
                        /\ ("cy" \in flags') = (tens > 9)
    BY DEF DecimalStep
  <1>2. Adjust
    BY <1>1, OnlyAdjust
  <1>3. regs' = [regs EXCEPT ![RegA] = Add(x, y).a] /\ flags' = Add(x, y).flags
    BY <1>2 DEF Adjust, SetA, DecimalAdjust
  <1>4. regs'[RegA] = Add(x, y).a
    BY <1>3, Registers DEF TypeOK
  <1>5. x \in Byte
    BY RegisterTypes
  <1>6. y \in Byte /\ Number(y, 8) = (IF six THEN 6 ELSE 0) + (IF sixty THEN 96 ELSE 0)
    <2>1. six \in BOOLEAN /\ sixty \in BOOLEAN
      BY DEF OnesAbove, Hundred, TensAbove
    <2> HIDE DEF six, sixty
    <2> QED
      BY <2>1, CorrectionValue
  <1>7. r = sum % 256 /\ ("cy" \in flags') = (sum # sum % 256)
    <2> HIDE DEF x, y
    <2> QED
      BY <1>3, <1>4, <1>5, <1>6, AddExact
  <1>8. h \in 0 .. 15 /\ l \in 0 .. 15 /\ n = 16 * h + l
    BY DigitRange, ByteValue
  <1>9. n % 16 = l
    <2> HIDE DEF n, h, l
    <2> QED
      BY <1>8
  <1>10. (six <=> l > 9 \/ a) /\ (sixty <=> h > 9 \/ (h >= 9 /\ l > 9) \/ c)
    BY Above DEF Hundred
  <1>11. a \in BOOLEAN /\ c \in BOOLEAN /\ six \in BOOLEAN /\ sixty \in BOOLEAN
    BY DEF OnesAbove, Hundred, TensAbove
  <1>12. first = First(h, l, a)
    <2> HIDE DEF n, h, l, a
    <2> QED
      BY <1>8, <1>9 DEF First
  <1>13. sum = Corrected(h, l, a, c)
    <2>1. sum = 16 * h + l + ((IF six THEN 6 ELSE 0) + (IF sixty THEN 96 ELSE 0))
      BY <1>6, <1>8
    <2> HIDE DEF h, l, a, c, six, sixty, sum
    <2> QED
      BY <1>10, <2>1 DEF Corrected
  <1>14. sum = first + (IF tens > 9 \/ c THEN 96 ELSE 0) /\ (sum # sum % 256 <=> tens > 9)
    <2> HIDE DEF h, l, a, c, first, sum
    <2> QED
      BY <1>8, <1>11, <1>12, <1>13, DigitsCorrected DEF Second
  <1>15. (sum # sum % 256) \in BOOLEAN /\ (tens > 9) \in BOOLEAN
    OBVIOUS
  <1> HIDE DEF first, tens, sum, r, c
  <1> QED
    BY <1>7, <1>14, <1>15

\* DAA leaves in A what the two steps of the 8080 leave, for every A and every flags,
\* and in cy whether its tens called for sixty.
THEOREM DecimalsAreExact == Spec => DecimalExact
  <1>1. TypeOK /\ [Next]_vars => [DecimalStep]_vars
    BY AdjustIsExact
  <1> QED
    BY <1>1, TypeCorrect, PTL DEF Spec, DecimalExact

-----------------------------------------------------------------------------
(* The program counter *)

\* An opcode in octal.
Top(x)    == 2 * Bit(7 \in x) + Bit(6 \in x)
Middle(x) == 4 * Bit(5 \in x) + 2 * Bit(4 \in x) + Bit(3 \in x)
Last(x)   == 4 * Bit(2 \in x) + 2 * Bit(1 \in x) + Bit(0 \in x)

LEMMA Octal ==
  ASSUME NEW x
  PROVE  /\ Number(x, 8) = 64 * Top(x) + 8 * Middle(x) + Last(x)
         /\ Top(x) \in 0 .. 3 /\ Middle(x) \in 0 .. 7 /\ Last(x) \in 0 .. 7
         /\ Number(x, 8) % 8 = Last(x)
         /\ Number(x, 8) >= 192 <=> Top(x) = 3
         /\ Number(x, 8) < 64 <=> Top(x) = 0
  <1>1. Number(x, 8) = 16 * Digit(x, 4) + Digit(x, 0)
    BY ByteValue
  <1> DEFINE t == Top(x)   m == Middle(x)   l == Last(x)   n == Number(x, 8)
  <1>2. n = 64 * t + 8 * m + l
    BY <1>1 DEF Digit, Top, Middle, Last, Bit
  <1>3. t \in 0 .. 3 /\ m \in 0 .. 7 /\ l \in 0 .. 7
    BY DEF Top, Middle, Last, Bit
  <1>4. n % 8 = l /\ (n >= 192 <=> t = 3) /\ (n < 64 <=> t = 0)
    <2> HIDE DEF n, t, m, l
    <2> QED
      BY <1>2, <1>3
  <1> QED
    BY <1>2, <1>3, <1>4

\* The groups of opcodes by their digits.
LEMMA Groups ==
  ASSUME NEW x
  PROVE  LET t == Top(x)  m == Middle(x)  l == Last(x)
         IN /\ Low(x) = INR <=> t = 0 /\ l = 4
            /\ Low(x) = DCR <=> t = 0 /\ l = 5
            /\ Low(x) = MVI <=> t = 0 /\ l = 6
            /\ Low(x) = ALUI <=> t = 3 /\ l = 6
            /\ Low(x) = RST <=> t = 3 /\ l = 7
            /\ Low(x) = JCC <=> t = 3 /\ l = 2
            /\ Low(x) = CCC <=> t = 3 /\ l = 4
            /\ Low(x) = RCC <=> t = 3 /\ l = 0
            /\ x \cap {6, 7} = MOV <=> t = 1
            /\ x \cap {6, 7} = ALU <=> t = 2
  <1>1. /\ Top(x) = 0 <=> 6 \notin x /\ 7 \notin x
        /\ Top(x) = 1 <=> 6 \in x /\ 7 \notin x
        /\ Top(x) = 2 <=> 6 \notin x /\ 7 \in x
        /\ Top(x) = 3 <=> 6 \in x /\ 7 \in x
    BY DEF Top, Bit
  <1>2. /\ Last(x) = 0 <=> 0 \notin x /\ 1 \notin x /\ 2 \notin x
        /\ Last(x) = 2 <=> 0 \notin x /\ 1 \in x /\ 2 \notin x
        /\ Last(x) = 4 <=> 0 \notin x /\ 1 \notin x /\ 2 \in x
        /\ Last(x) = 5 <=> 0 \in x /\ 1 \notin x /\ 2 \in x
        /\ Last(x) = 6 <=> 0 \notin x /\ 1 \in x /\ 2 \in x
        /\ Last(x) = 7 <=> 0 \in x /\ 1 \in x /\ 2 \in x
    BY DEF Last, Bit
  <1>3. /\ Low(x) = INR <=> Top(x) = 0 /\ Last(x) = 4
        /\ Low(x) = DCR <=> Top(x) = 0 /\ Last(x) = 5
    BY <1>1, <1>2 DEF Low, INR, DCR
  <1>4. /\ Low(x) = MVI <=> Top(x) = 0 /\ Last(x) = 6
        /\ Low(x) = ALUI <=> Top(x) = 3 /\ Last(x) = 6
    BY <1>1, <1>2 DEF Low, MVI, ALUI
  <1>5. /\ Low(x) = RST <=> Top(x) = 3 /\ Last(x) = 7
        /\ Low(x) = JCC <=> Top(x) = 3 /\ Last(x) = 2
    BY <1>1, <1>2 DEF Low, RST, JCC
  <1>6. /\ Low(x) = CCC <=> Top(x) = 3 /\ Last(x) = 4
        /\ Low(x) = RCC <=> Top(x) = 3 /\ Last(x) = 0
    BY <1>1, <1>2 DEF Low, CCC, RCC
  <1>7. /\ x \cap {6, 7} = MOV <=> Top(x) = 1
        /\ x \cap {6, 7} = ALU <=> Top(x) = 2
    BY <1>1 DEF MOV, ALU
  <1> QED
    BY <1>3, <1>4, <1>5, <1>6, <1>7

\* Those of the pairs: bit 3 tells two of them apart.
LEMMA PairGroups ==
  ASSUME NEW x
  PROVE  LET t == Top(x)  m == Middle(x)  l == Last(x)
         IN /\ Low4(x) = PUSH <=> t = 3 /\ l = 5 /\ m \in {0, 2, 4, 6}
            /\ Low4(x) = POP <=> t = 3 /\ l = 1 /\ m \in {0, 2, 4, 6}
            /\ Low4(x) = DAD <=> t = 0 /\ l = 1 /\ m \in {1, 3, 5, 7}
            /\ Low4(x) = LXI <=> t = 0 /\ l = 1 /\ m \in {0, 2, 4, 6}
            /\ Low4(x) = INX <=> t = 0 /\ l = 3 /\ m \in {0, 2, 4, 6}
            /\ Low4(x) = DCX <=> t = 0 /\ l = 3 /\ m \in {1, 3, 5, 7}
  <1>1. /\ Top(x) = 0 <=> 6 \notin x /\ 7 \notin x
        /\ Top(x) = 3 <=> 6 \in x /\ 7 \in x
    BY DEF Top, Bit
  <1>2. /\ Last(x) = 1 <=> 0 \in x /\ 1 \notin x /\ 2 \notin x
        /\ Last(x) = 3 <=> 0 \in x /\ 1 \in x /\ 2 \notin x
        /\ Last(x) = 5 <=> 0 \in x /\ 1 \notin x /\ 2 \in x
    BY DEF Last, Bit
  <1>3. /\ Middle(x) \in {0, 2, 4, 6} <=> 3 \notin x
        /\ Middle(x) \in {1, 3, 5, 7} <=> 3 \in x
    BY DEF Middle, Bit
  <1> DEFINE t == Top(x)   m == Middle(x)   l == Last(x)
  <1>4. /\ Low4(x) = PUSH <=> t = 3 /\ l = 5 /\ 3 \notin x
        /\ Low4(x) = POP <=> t = 3 /\ l = 1 /\ 3 \notin x
    BY <1>1, <1>2 DEF Low4, PUSH, POP
  <1>5. /\ Low4(x) = DAD <=> t = 0 /\ l = 1 /\ 3 \in x
        /\ Low4(x) = LXI <=> t = 0 /\ l = 1 /\ 3 \notin x
    BY <1>1, <1>2 DEF Low4, DAD, LXI
  <1>6. /\ Low4(x) = INX <=> t = 0 /\ l = 3 /\ 3 \notin x
        /\ Low4(x) = DCX <=> t = 0 /\ l = 3 /\ 3 \in x
    BY <1>1, <1>2 DEF Low4, INX, DCX
  <1> QED
    BY <1>3, <1>4, <1>5, <1>6

\* A byte is known by its number.
LEMMA Numbered ==
  ASSUME NEW x \in Byte, NEW y \in Byte PROVE x = y <=> Number(x, 8) = Number(y, 8)
  BY LessCompares DEF Byte

\* The numbers of the opcodes that are none of a group.
LEMMA Numbers ==
  ASSUME NEW x \in Byte
  PROVE  LET n == Number(x, 8) IN
         /\ (x = NOP <=> n = 0) /\ (x = CMC <=> n = 63) /\ (x = STC <=> n = 55)
         /\ (x = CMA <=> n = 47) /\ (x = DAA <=> n = 39) /\ (x = RLC <=> n = 7)
         /\ (x = RRC <=> n = 15) /\ (x = RAL <=> n = 23) /\ (x = RAR <=> n = 31)
         /\ (x = XCHG <=> n = 235) /\ (x = SPHL <=> n = 249) /\ (x = XTHL <=> n = 227)
         /\ (x = STA <=> n = 50) /\ (x = LDA <=> n = 58) /\ (x = SHLD <=> n = 34)
         /\ (x = LHLD <=> n = 42) /\ (x = PCHL <=> n = 233) /\ (x = JMP <=> n = 195)
         /\ (x = CALL <=> n = 205) /\ (x = RET <=> n = 201) /\ (x = EI <=> n = 251)
         /\ (x = DI <=> n = 243) /\ (x = IN_PORT <=> n = 219) /\ (x = OUT_PORT <=> n = 211)
         /\ (x = {1} <=> n = 2) /\ (x = {1, 4} <=> n = 18) /\ (x = {1, 3} <=> n = 10)
         /\ (x = {1, 3, 4} <=> n = 26)
  <1> DEFINE n == Number(x, 8)
  <1>1. /\ (x = NOP <=> n = 0) /\ (x = CMC <=> n = 63) /\ (x = STC <=> n = 55)
        /\ (x = CMA <=> n = 47) /\ (x = DAA <=> n = 39) /\ (x = RLC <=> n = 7)
    <2>1. Number(NOP, 8) = 0 /\ NOP \in Byte
      <3>1. Digit(NOP, 4) = 0 /\ Digit(NOP, 0) = 0 /\ NOP \in Byte
        BY DEF NOP, Digit, Bit, Byte, Bits
      <3> QED
        BY <3>1, ByteValue
    <2>2. Number(CMC, 8) = 63 /\ CMC \in Byte
      <3>1. Digit(CMC, 4) = 3 /\ Digit(CMC, 0) = 15 /\ CMC \in Byte
        BY DEF CMC, Digit, Bit, Byte, Bits
      <3> QED
        BY <3>1, ByteValue
    <2>3. Number(STC, 8) = 55 /\ STC \in Byte
      <3>1. Digit(STC, 4) = 3 /\ Digit(STC, 0) = 7 /\ STC \in Byte
        BY DEF STC, Digit, Bit, Byte, Bits
      <3> QED
        BY <3>1, ByteValue
    <2>4. Number(CMA, 8) = 47 /\ CMA \in Byte
      <3>1. Digit(CMA, 4) = 2 /\ Digit(CMA, 0) = 15 /\ CMA \in Byte
        BY DEF CMA, Digit, Bit, Byte, Bits
      <3> QED
        BY <3>1, ByteValue
    <2>5. Number(DAA, 8) = 39 /\ DAA \in Byte
      <3>1. Digit(DAA, 4) = 2 /\ Digit(DAA, 0) = 7 /\ DAA \in Byte
        BY DEF DAA, Digit, Bit, Byte, Bits
      <3> QED
        BY <3>1, ByteValue
    <2>6. Number(RLC, 8) = 7 /\ RLC \in Byte
      <3>1. Digit(RLC, 4) = 0 /\ Digit(RLC, 0) = 7 /\ RLC \in Byte
        BY DEF RLC, Digit, Bit, Byte, Bits
      <3> QED
        BY <3>1, ByteValue
    <2> QED
      BY <2>1, <2>2, <2>3, <2>4, <2>5, <2>6, Numbered
  <1>2. /\ (x = RRC <=> n = 15) /\ (x = RAL <=> n = 23) /\ (x = RAR <=> n = 31)
        /\ (x = XCHG <=> n = 235) /\ (x = SPHL <=> n = 249) /\ (x = XTHL <=> n = 227)
    <2>1. Number(RRC, 8) = 15 /\ RRC \in Byte
      <3>1. Digit(RRC, 4) = 0 /\ Digit(RRC, 0) = 15 /\ RRC \in Byte
        BY DEF RRC, Digit, Bit, Byte, Bits
      <3> QED
        BY <3>1, ByteValue
    <2>2. Number(RAL, 8) = 23 /\ RAL \in Byte
      <3>1. Digit(RAL, 4) = 1 /\ Digit(RAL, 0) = 7 /\ RAL \in Byte
        BY DEF RAL, Digit, Bit, Byte, Bits
      <3> QED
        BY <3>1, ByteValue
    <2>3. Number(RAR, 8) = 31 /\ RAR \in Byte
      <3>1. Digit(RAR, 4) = 1 /\ Digit(RAR, 0) = 15 /\ RAR \in Byte
        BY DEF RAR, Digit, Bit, Byte, Bits
      <3> QED
        BY <3>1, ByteValue
    <2>4. Number(XCHG, 8) = 235 /\ XCHG \in Byte
      <3>1. Digit(XCHG, 4) = 14 /\ Digit(XCHG, 0) = 11 /\ XCHG \in Byte
        BY DEF XCHG, Digit, Bit, Byte, Bits
      <3> QED
        BY <3>1, ByteValue
    <2>5. Number(SPHL, 8) = 249 /\ SPHL \in Byte
      <3>1. Digit(SPHL, 4) = 15 /\ Digit(SPHL, 0) = 9 /\ SPHL \in Byte
        BY DEF SPHL, Digit, Bit, Byte, Bits
      <3> QED
        BY <3>1, ByteValue
    <2>6. Number(XTHL, 8) = 227 /\ XTHL \in Byte
      <3>1. Digit(XTHL, 4) = 14 /\ Digit(XTHL, 0) = 3 /\ XTHL \in Byte
        BY DEF XTHL, Digit, Bit, Byte, Bits
      <3> QED
        BY <3>1, ByteValue
    <2> QED
      BY <2>1, <2>2, <2>3, <2>4, <2>5, <2>6, Numbered
  <1>3. /\ (x = STA <=> n = 50) /\ (x = LDA <=> n = 58) /\ (x = SHLD <=> n = 34)
        /\ (x = LHLD <=> n = 42) /\ (x = PCHL <=> n = 233) /\ (x = JMP <=> n = 195)
    <2>1. Number(STA, 8) = 50 /\ STA \in Byte
      <3>1. Digit(STA, 4) = 3 /\ Digit(STA, 0) = 2 /\ STA \in Byte
        BY DEF STA, Digit, Bit, Byte, Bits
      <3> QED
        BY <3>1, ByteValue
    <2>2. Number(LDA, 8) = 58 /\ LDA \in Byte
      <3>1. Digit(LDA, 4) = 3 /\ Digit(LDA, 0) = 10 /\ LDA \in Byte
        BY DEF LDA, Digit, Bit, Byte, Bits
      <3> QED
        BY <3>1, ByteValue
    <2>3. Number(SHLD, 8) = 34 /\ SHLD \in Byte
      <3>1. Digit(SHLD, 4) = 2 /\ Digit(SHLD, 0) = 2 /\ SHLD \in Byte
        BY DEF SHLD, Digit, Bit, Byte, Bits
      <3> QED
        BY <3>1, ByteValue
    <2>4. Number(LHLD, 8) = 42 /\ LHLD \in Byte
      <3>1. Digit(LHLD, 4) = 2 /\ Digit(LHLD, 0) = 10 /\ LHLD \in Byte
        BY DEF LHLD, Digit, Bit, Byte, Bits
      <3> QED
        BY <3>1, ByteValue
    <2>5. Number(PCHL, 8) = 233 /\ PCHL \in Byte
      <3>1. Digit(PCHL, 4) = 14 /\ Digit(PCHL, 0) = 9 /\ PCHL \in Byte
        BY DEF PCHL, Digit, Bit, Byte, Bits
      <3> QED
        BY <3>1, ByteValue
    <2>6. Number(JMP, 8) = 195 /\ JMP \in Byte
      <3>1. Digit(JMP, 4) = 12 /\ Digit(JMP, 0) = 3 /\ JMP \in Byte
        BY DEF JMP, Digit, Bit, Byte, Bits
      <3> QED
        BY <3>1, ByteValue
    <2> QED
      BY <2>1, <2>2, <2>3, <2>4, <2>5, <2>6, Numbered
  <1>4. /\ (x = CALL <=> n = 205) /\ (x = RET <=> n = 201) /\ (x = EI <=> n = 251)
        /\ (x = DI <=> n = 243) /\ (x = IN_PORT <=> n = 219) /\ (x = OUT_PORT <=> n = 211)
    <2>1. Number(CALL, 8) = 205 /\ CALL \in Byte
      <3>1. Digit(CALL, 4) = 12 /\ Digit(CALL, 0) = 13 /\ CALL \in Byte
        BY DEF CALL, Digit, Bit, Byte, Bits
      <3> QED
        BY <3>1, ByteValue
    <2>2. Number(RET, 8) = 201 /\ RET \in Byte
      <3>1. Digit(RET, 4) = 12 /\ Digit(RET, 0) = 9 /\ RET \in Byte
        BY DEF RET, Digit, Bit, Byte, Bits
      <3> QED
        BY <3>1, ByteValue
    <2>3. Number(EI, 8) = 251 /\ EI \in Byte
      <3>1. Digit(EI, 4) = 15 /\ Digit(EI, 0) = 11 /\ EI \in Byte
        BY DEF EI, Digit, Bit, Byte, Bits
      <3> QED
        BY <3>1, ByteValue
    <2>4. Number(DI, 8) = 243 /\ DI \in Byte
      <3>1. Digit(DI, 4) = 15 /\ Digit(DI, 0) = 3 /\ DI \in Byte
        BY DEF DI, Digit, Bit, Byte, Bits
      <3> QED
        BY <3>1, ByteValue
    <2>5. Number(IN_PORT, 8) = 219 /\ IN_PORT \in Byte
      <3>1. Digit(IN_PORT, 4) = 13 /\ Digit(IN_PORT, 0) = 11 /\ IN_PORT \in Byte
        BY DEF IN_PORT, Digit, Bit, Byte, Bits
      <3> QED
        BY <3>1, ByteValue
    <2>6. Number(OUT_PORT, 8) = 211 /\ OUT_PORT \in Byte
      <3>1. Digit(OUT_PORT, 4) = 13 /\ Digit(OUT_PORT, 0) = 3 /\ OUT_PORT \in Byte
        BY DEF OUT_PORT, Digit, Bit, Byte, Bits
      <3> QED
        BY <3>1, ByteValue
    <2> QED
      BY <2>1, <2>2, <2>3, <2>4, <2>5, <2>6, Numbered
  <1>5. /\ (x = {1} <=> n = 2) /\ (x = {1, 4} <=> n = 18) /\ (x = {1, 3} <=> n = 10)
        /\ (x = {1, 3, 4} <=> n = 26)
    <2>1. Number({1}, 8) = 2 /\ {1} \in Byte
      <3>1. Digit({1}, 4) = 0 /\ Digit({1}, 0) = 2 /\ {1} \in Byte
        BY DEF Digit, Bit, Byte, Bits
      <3> QED
        BY <3>1, ByteValue
    <2>2. Number({1, 4}, 8) = 18 /\ {1, 4} \in Byte
      <3>1. Digit({1, 4}, 4) = 1 /\ Digit({1, 4}, 0) = 2 /\ {1, 4} \in Byte
        BY DEF Digit, Bit, Byte, Bits
      <3> QED
        BY <3>1, ByteValue
    <2>3. Number({1, 3}, 8) = 10 /\ {1, 3} \in Byte
      <3>1. Digit({1, 3}, 4) = 0 /\ Digit({1, 3}, 0) = 10 /\ {1, 3} \in Byte
        BY DEF Digit, Bit, Byte, Bits
      <3> QED
        BY <3>1, ByteValue
    <2>4. Number({1, 3, 4}, 8) = 26 /\ {1, 3, 4} \in Byte
      <3>1. Digit({1, 3, 4}, 4) = 1 /\ Digit({1, 3, 4}, 0) = 10 /\ {1, 3, 4} \in Byte
        BY DEF Digit, Bit, Byte, Bits
      <3> QED
        BY <3>1, ByteValue
    <2> QED
      BY <2>1, <2>2, <2>3, <2>4, Numbered
  <1> QED
    BY <1>1, <1>2, <1>3, <1>4, <1>5

LEMMA GoesValue ==
  ASSUME pc \in Pair, NEW k \in {1, 2, 3}, Goes(k)
  PROVE  Number(pc', 16) = (Number(pc, 16) + k) % 65536
  <1> DEFINE y == Num(k)   a == Number(pc, 16)   b == Number(y, 16)
             r == Number(Plus(pc, y, 16), 16)   q == Carry(pc, y, 16)
  <1>1. y = IF k = 1 THEN {0} ELSE IF k = 2 THEN {1} ELSE {0, 1}
    BY DEF Num
  <1>2. b = k
    <2>1. b = 4096 * Digit(y, 12) + 256 * Digit(y, 8) + 16 * Digit(y, 4) + Digit(y, 0)
      BY WordValue
    <2>2. Digit(y, 12) = 0 /\ Digit(y, 8) = 0 /\ Digit(y, 4) = 0 /\ Digit(y, 0) = k
      BY <1>1 DEF Digit, Bit
    <2> QED
      BY <2>1, <2>2
  <1>3. pc \in SUBSET Nat /\ y \in SUBSET Nat
    BY <1>1 DEF Pair, Bits
  <1>4. a + b = r + (IF q THEN 65536 ELSE 0)
    <2> HIDE DEF y
    <2> QED
      BY <1>3, PlusAdds, Powers
  <1>5. a \in Nat /\ r \in Nat /\ r < 65536
    BY ValueRange
  <1>6. r = (a + k) % 65536
    <2> HIDE DEF a, b, r, q
    <2> QED
      BY <1>2, <1>4, <1>5
  <1> QED
    BY <1>6 DEF Goes

\* The instruction goes on behind its last byte.
LEMMA GoesOn ==
  ASSUME TypeOK, Goes(Length(Number(Op, 8))),
         Number(Op, 8) \notin Unknown, ~Leaves(Number(Op, 8))
  PROVE  PcStep
  <1>1. Length(Number(Op, 8)) \in {1, 2, 3}
    BY DEF Length
  <1>2. Number(pc', 16) = (Number(pc, 16) + Length(Number(Op, 8))) % 65536
    <2> DEFINE k == Length(Number(Op, 8))
    <2>1. pc \in Pair /\ k \in {1, 2, 3} /\ Goes(k)
      BY <1>1 DEF TypeOK
    <2> HIDE DEF k
    <2>2. Number(pc', 16) = (Number(pc, 16) + k) % 65536
      BY <2>1, GoesValue
    <2> QED
      BY <2>2 DEF k
  <1> QED
    BY <1>2 DEF PcStep

\* Opcodes of one byte that go on.
LEMMA OneByteCodes ==
  ASSUME NEW t \in 0 .. 3, NEW m \in 0 .. 7, NEW l \in 0 .. 7, NEW n,
         n = 64 * t + 8 * m + l,
         \/ t \in {1, 2}
         \/ t = 0 /\ l \in {3, 4, 5, 7}
         \/ t = 0 /\ l = 1 /\ m \in {1, 3, 5, 7}
         \/ t = 3 /\ l \in {1, 5} /\ m \in {0, 2, 4, 6}
         \/ t = 3 /\ l = 0
         \/ n \in {0, 2, 10, 18, 26, 227, 235, 243, 249, 251}
  PROVE  Length(n) = 1 /\ n \notin Unknown /\ ~Leaves(n)
  <1>1. n \in 0 .. 255 /\ n % 8 = l /\ (n >= 192 <=> t = 3) /\ (n < 64 <=> t = 0)
    OBVIOUS
  <1> QED
    BY <1>1 DEF Length, Unknown, Leaves

LEMMA PcOneByte ==
  ASSUME TypeOK,
         \/ Count \/ Move \/ Push \/ Pop \/ AddPairs \/ CountPair \/ CarryFlag \/ Complement
         \/ Adjust \/ Rotate \/ Exchange \/ StackFromHL \/ ExchangeTop
  PROVE  PcStep
  <1> DEFINE n == Number(Op, 8)   t == Top(Op)   m == Middle(Op)   l == Last(Op)
  <1>1. Goes(1)
    BY DEF Count, Move, Push, Pop, AddPairs, CountPair, CarryFlag, Complement, Adjust,
           Rotate, Exchange, StackFromHL, ExchangeTop
  <1>2. /\ n = 64 * t + 8 * m + l
        /\ t \in 0 .. 3 /\ m \in 0 .. 7 /\ l \in 0 .. 7
    BY Octal
  <1>3. \/ t \in {1, 2}
        \/ t = 0 /\ l \in {3, 4, 5, 7}
        \/ t = 0 /\ l = 1 /\ m \in {1, 3, 5, 7}
        \/ t = 3 /\ l \in {1, 5} /\ m \in {0, 2, 4, 6}
        \/ t = 3 /\ l = 0
        \/ n \in {0, 2, 10, 18, 26, 227, 235, 243, 249, 251}
    <2>1. CASE Count \/ Move
      BY <2>1, Groups DEF Count, Move
    <2>2. CASE Push \/ Pop \/ AddPairs \/ CountPair
      BY <2>2, PairGroups DEF Push, Pop, AddPairs, CountPair, Inner
    <2>3. CASE CarryFlag \/ Complement \/ Adjust \/ Rotate
      <3>1. n \in {63, 55, 47, 39, 7, 15, 23, 31}
        BY <2>3, Loaded, Numbers DEF CarryFlag, Complement, Adjust, Rotate, Inner
      <3> HIDE DEF n, t, m, l
      <3> QED
        BY <1>2, <3>1
    <2>4. CASE Exchange \/ StackFromHL \/ ExchangeTop
      BY <2>4, Loaded, Numbers DEF Exchange, StackFromHL, ExchangeTop, Inner
    <2> QED
      BY <2>1, <2>2, <2>3, <2>4
  <1>4. Length(n) = 1 /\ n \notin Unknown /\ ~Leaves(n)
    <2> HIDE DEF n, t, m, l
    <2> QED
      BY <1>2, <1>3, OneByteCodes
  <1> QED
    BY <1>1, <1>4, GoesOn

LEMMA PcOperand ==
  ASSUME TypeOK, MoveImmediate \/ Arithmetic \/ LoadPair \/ StoreHL \/ LoadHL
  PROVE  PcStep
  <1> DEFINE n == Number(Op, 8)   t == Top(Op)   m == Middle(Op)   l == Last(Op)
  <1>1. /\ n = 64 * t + 8 * m + l
        /\ t \in 0 .. 3 /\ m \in 0 .. 7 /\ l \in 0 .. 7
        /\ n % 8 = l /\ (n >= 192 <=> t = 3) /\ (n < 64 <=> t = 0)
    BY Octal
  <1>2. CASE MoveImmediate \/ (Arithmetic /\ Low(Op) = ALUI)
    <2>1. Goes(2) /\ t \in {0, 3} /\ l = 6
      BY <1>2, Groups DEF MoveImmediate, Arithmetic, OperandBytes
    <2>2. Length(n) = 2 /\ n \notin Unknown /\ ~Leaves(n)
      <3> HIDE DEF n, t, m, l
      <3> QED
        BY <1>1, <2>1 DEF Length, Unknown, Leaves
    <2> QED
      BY <2>1, <2>2, GoesOn
  <1>3. CASE Arithmetic /\ Low(Op) # ALUI
    <2>1. Goes(1) /\ t = 2
      BY <1>3, Groups DEF Arithmetic, OperandBytes
    <2>2. Length(n) = 1 /\ n \notin Unknown /\ ~Leaves(n)
      <3> HIDE DEF n, t, m, l
      <3> QED
        BY <1>1, <2>1 DEF Length, Unknown, Leaves
    <2> QED
      BY <2>1, <2>2, GoesOn
  <1>4. CASE LoadPair
    <2>1. Goes(3) /\ t = 0 /\ l = 1 /\ m \in {0, 2, 4, 6}
      BY <1>4, PairGroups DEF LoadPair, Inner
    <2>2. Length(n) = 3 /\ n \notin Unknown /\ ~Leaves(n)
      <3> HIDE DEF n, t, m, l
      <3> QED
        BY <1>1, <2>1 DEF Length, Unknown, Leaves
    <2> QED
      BY <2>1, <2>2, GoesOn
  <1>5. CASE StoreHL \/ LoadHL
    <2>1. Goes(3) /\ n \in {34, 42}
      BY <1>5, Loaded, Numbers DEF StoreHL, LoadHL
    <2>2. Length(n) = 3 /\ n \notin Unknown /\ ~Leaves(n)
      <3> HIDE DEF n
      <3> QED
        BY <2>1 DEF Length, Unknown, Leaves
    <2> QED
      BY <2>1, <2>2, GoesOn
  <1> QED
    BY <1>2, <1>3, <1>4, <1>5

LEMMA PcChoice ==
  ASSUME TypeOK, StoreA \/ LoadA \/ NoOperation
  PROVE  PcStep
  <1> DEFINE n == Number(Op, 8)
  <1>1. Op \in Byte
    BY Loaded
  <1>2. CASE StoreA \/ LoadA
    <2>1. CASE Op \in {STA, LDA}
      <3>1. Op \notin STAX \cup LDAX
        <4>1. 5 \in Op
          BY <2>1 DEF STA, LDA
        <4> QED
          BY <4>1 DEF STAX, LDAX
      <3>2. Goes(3)
        BY <1>2, <2>1, <3>1 DEF StoreA, LoadA
      <3>3. n \in {50, 58}
        BY <1>1, <2>1, Numbers
      <3>4. Length(n) = 3 /\ n \notin Unknown /\ ~Leaves(n)
        <4> HIDE DEF n
        <4> QED
          BY <3>3 DEF Length, Unknown, Leaves
      <3> QED
        BY <3>2, <3>4, GoesOn
    <2>2. CASE Op \notin {STA, LDA}
      <3>1. Goes(1) /\ Op \in STAX \cup LDAX
        BY <1>2, <2>2 DEF StoreA, LoadA
      <3>2. n \in {2, 18, 10, 26}
        BY <1>1, <3>1, Numbers DEF STAX, LDAX
      <3>3. Length(n) = 1 /\ n \notin Unknown /\ ~Leaves(n)
        <4> HIDE DEF n
        <4> QED
          BY <3>2 DEF Length, Unknown, Leaves
      <3> QED
        BY <3>1, <3>3, GoesOn
    <2> QED
      BY <2>1, <2>2
  <1>3. CASE NoOperation
    <2>1. CASE Op \in {IN_PORT, OUT_PORT}
      <3>1. Goes(2)
        BY <1>3, <2>1 DEF NoOperation
      <3>2. n \in {219, 211}
        BY <1>1, <2>1, Numbers
      <3>3. Length(n) = 2 /\ n \notin Unknown /\ ~Leaves(n)
        <4> HIDE DEF n
        <4> QED
          BY <3>2 DEF Length, Unknown, Leaves
      <3> QED
        BY <3>1, <3>3, GoesOn
    <2>2. CASE Op \notin {IN_PORT, OUT_PORT}
      <3>1. Goes(1) /\ Op \in {NOP, EI, DI}
        BY <1>3, <2>2 DEF NoOperation, Inner
      <3>2. n \in {0, 251, 243}
        BY <1>1, <3>1, Numbers
      <3>3. Length(n) = 1 /\ n \notin Unknown /\ ~Leaves(n)
        <4> HIDE DEF n
        <4> QED
          BY <3>2 DEF Length, Unknown, Leaves
      <3> QED
        BY <3>1, <3>3, GoesOn
    <2> QED
      BY <2>1, <2>2
  <1> QED
    BY <1>2, <1>3

LEMMA PcJump == ASSUME TypeOK, Jump \/ Call PROVE PcStep
  <1> DEFINE n == Number(Op, 8)   t == Top(Op)   m == Middle(Op)   l == Last(Op)
  <1>1. /\ n = 64 * t + 8 * m + l
        /\ t \in 0 .. 3 /\ m \in 0 .. 7 /\ l \in 0 .. 7
        /\ n % 8 = l /\ (n >= 192 <=> t = 3) /\ (n < 64 <=> t = 0)
    BY Octal
  <1>2. Op \in Byte
    BY Loaded
  <1>3. ASSUME Goes(3), Low(Op) = JCC \/ Low(Op) = CCC PROVE PcStep
    <2>1. t = 3 /\ l \in {2, 4}
      BY <1>3, Groups
    <2>2. Length(n) = 3 /\ n \notin Unknown /\ ~Leaves(n)
      <3> HIDE DEF n, t, m, l
      <3> QED
        BY <1>1, <2>1 DEF Length, Unknown, Leaves
    <2> QED
      BY <1>3, <2>2, GoesOn
  <1>4. ASSUME pc' = imm, Op = JMP \/ Op = CALL \/ Low(Op) = JCC \/ Low(Op) = CCC PROVE PcStep
    <2>1. n \in {195, 205} \/ (n >= 192 /\ n % 8 \in {2, 4})
      BY <1>1, <1>2, <1>4, Groups, Numbers
    <2> QED
      BY <1>4, <2>1 DEF PcStep
  <1>5. CASE Jump
    <2>1. Op \in {PCHL, JMP} \/ Low(Op) = JCC
      BY <1>5 DEF Jump, Inner
    <2>2. CASE Op = PCHL /\ pc' = HL
      <3>1. n = 233
        BY <1>2, <2>2, Numbers
      <3> QED
        BY <2>2, <3>1 DEF PcStep
    <2>3. CASE (Op = JMP \/ (Op # PCHL /\ Holds)) /\ pc' = imm
      BY <1>4, <2>1, <2>3, Numbers, <1>2
    <2>4. CASE Op \notin {PCHL, JMP} /\ ~Holds /\ Goes(3)
      BY <1>3, <2>1, <2>4
    <2> QED
      BY <1>5, <2>2, <2>3, <2>4 DEF Jump
  <1>6. CASE Call
    <2>1. Op = CALL \/ Low(Op) = CCC
      BY <1>6 DEF Call
    <2>2. CASE Calls /\ pc' = imm
      BY <1>4, <2>1, <2>2
    <2>3. CASE ~Calls /\ Goes(3)
      BY <1>3, <2>1, <2>3 DEF Calls
    <2> QED
      BY <1>6, <2>2, <2>3 DEF Call
  <1> QED
    BY <1>5, <1>6

LEMMA PcRestart == ASSUME TypeOK, Restart PROVE PcStep
  <1> DEFINE n == Number(Op, 8)   m == Middle(Op)   v == Op \cap {3, 4, 5}
  <1>1. Top(Op) = 3 /\ Last(Op) = 7 /\ pc' = v
    BY Groups DEF Restart
  <1>2. n >= 192 /\ n % 8 = 7 /\ n = 199 + 8 * m
    <2>1. /\ n = 64 * Top(Op) + 8 * m + Last(Op) /\ m \in 0 .. 7
          /\ n % 8 = Last(Op) /\ (n >= 192 <=> Top(Op) = 3)
      BY Octal
    <2> HIDE DEF n, m
    <2> QED
      BY <1>1, <2>1
  <1>3. Number(v, 16) = 8 * m
    <2>1. Number(v, 16) = 4096 * Digit(v, 12) + 256 * Digit(v, 8) + 16 * Digit(v, 4) + Digit(v, 0)
      BY WordValue
    <2>2. /\ Digit(v, 12) = 0 /\ Digit(v, 8) = 0
          /\ Digit(v, 4) = 2 * Bit(5 \in Op) + Bit(4 \in Op)
          /\ Digit(v, 0) = 8 * Bit(3 \in Op)
      BY DEF Digit, Bit
    <2>3. m = 4 * Bit(5 \in Op) + 2 * Bit(4 \in Op) + Bit(3 \in Op)
      BY DEF Middle
    <2> HIDE DEF v, m
    <2> QED
      BY <2>1, <2>2, <2>3 DEF Bit
  <1>4. Number(pc', 16) = n - 199
    <2>1. m \in 0 .. 7
      BY Octal
    <2> HIDE DEF n, m, v
    <2> QED
      BY <1>1, <1>2, <1>3, <2>1
  <1> QED
    BY <1>2, <1>4 DEF PcStep

LEMMA PcReturn == ASSUME TypeOK, Return PROVE PcStep
  <1> DEFINE n == Number(Op, 8)   t == Top(Op)   m == Middle(Op)   l == Last(Op)
  <1>1. /\ n = 64 * t + 8 * m + l
        /\ t \in 0 .. 3 /\ m \in 0 .. 7 /\ l \in 0 .. 7
    BY Octal
  <1>2. Op = RET \/ (t = 3 /\ l = 0)
    BY Groups DEF Return, Inner
  <1>3. CASE Returns /\ pc' = LoadU16(sp)
    <2>1. n = 201 \/ (t = 3 /\ l = 0)
      BY <1>2, Loaded, Numbers
    <2>2. n \in {192, 200, 201, 208, 216, 224, 232, 240, 248}
      <3> HIDE DEF n, t, m, l
      <3> QED
        BY <1>1, <2>1
    <2> QED
      BY <1>3, <2>2 DEF PcStep
  <1>4. CASE ~Returns /\ Goes(1)
    <2>1. t = 3 /\ l = 0
      BY <1>2, <1>4 DEF Returns
    <2>2. Length(n) = 1 /\ n \notin Unknown /\ ~Leaves(n)
      <3> HIDE DEF n, t, m, l
      <3> QED
        BY <1>1, <2>1, OneByteCodes
    <2> QED
      BY <1>4, <2>2, GoesOn
  <1> QED
    BY <1>3, <1>4 DEF Return

\* The opcodes that no case knows are twelve.
LEMMA PcIllegal == ASSUME TypeOK, Illegal PROVE PcStep
  <1> DEFINE n == Number(Op, 8)   t == Top(Op)   m == Middle(Op)   l == Last(Op)
  <1>1. /\ n = 64 * t + 8 * m + l
        /\ t \in 0 .. 3 /\ m \in 0 .. 7 /\ l \in 0 .. 7
    BY Octal
  <1>2. ~Known /\ pc' = pc
    BY DEF Illegal, Inner
  <1>3. /\ t \notin {1, 2} /\ ~(t = 0 /\ l \in {4, 5, 6}) /\ ~(t = 3 /\ l \in {0, 2, 4, 6, 7})
    BY <1>2, Groups DEF Known
  <1>4. /\ ~(t = 0 /\ l \in {1, 3})
        /\ ~(t = 3 /\ l \in {1, 5} /\ m \in {0, 2, 4, 6})
    <2> HIDE DEF n
    <2> QED
      BY <1>1, <1>2, PairGroups DEF Known
  <1>5. /\ n \notin {2, 18, 10, 26, 0, 63, 55, 47, 39, 7, 15, 23, 31, 235, 249, 227}
        /\ n \notin {50, 58, 34, 42, 233, 195, 205, 201, 251, 243, 219, 211}
    <2>1. Op \in Byte
      BY Loaded
    <2>2. Op \notin STAX \cup LDAX \cup {NOP, CMC, STC, CMA, DAA, RLC, RRC, RAL, RAR, XCHG, SPHL, XTHL}
          /\ Op \notin {STA, LDA, SHLD, LHLD, PCHL, JMP, CALL, RET, EI, DI, IN_PORT, OUT_PORT}
      BY <1>2 DEF Known
    <2> QED
      BY <2>1, <2>2, Numbers DEF STAX, LDAX
  <1>6. n \in Unknown
    <2> HIDE DEF n, t, m, l
    <2> QED
      BY <1>1, <1>3, <1>4, <1>5 DEF Unknown
  <1> QED
    BY <1>2, <1>6 DEF PcStep

\* The processor gets to the next instruction, or to what the instruction says, from
\* every place and for every opcode.
THEOREM PcStaysInStep == Spec => PcInStep
  <1>1. ASSUME TypeOK, Next PROVE PcStep
    <2>1. CASE Intel8080_Step
      BY <1>1, <2>1, PcOneByte, PcOperand, PcChoice, PcJump, PcRestart, PcReturn, PcIllegal
      DEF Intel8080_Step
    <2>2. CASE Overrun \/ (\E key \in Keys : SysTick(key)) \/ Terminated
      <3>1. ~Steps
        BY <2>2 DEF Overrun, SysTick, Terminated, vars, Steps
      <3> QED
        BY <3>1 DEF PcStep
    <2> QED
      BY <1>1, <2>1, <2>2 DEF Next
  <1>2. TypeOK /\ [Next]_vars => [PcStep]_vars
    BY <1>1
  <1> QED
    BY <1>2, TypeCorrect, PTL DEF Spec, PcInStep
=============================================================================
