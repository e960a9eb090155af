------------------------------- MODULE Words -------------------------------
(***************************************************************************)
(* C's unsigned arithmetic on words of n bits.  A word is the set of its   *)
(* bits, so that masks, shifts and ors are operations on sets; a sum is    *)
(* that of an adder with carry lookahead.                                  *)
(***************************************************************************)
EXTENDS Integers

Bits(n) == 0 .. n - 1

\* The numbers below 8.
Num(k) ==
  CASE k = 0 -> {}  [] k = 1 -> {0}    [] k = 2 -> {1}    [] k = 3 -> {0, 1}
    [] k = 4 -> {2} [] k = 5 -> {0, 2} [] k = 6 -> {1, 2} [] k = 7 -> {0, 1, 2}

\* Mutant: the result keeps the bits above.
ShlWide(w, k, n) == {b + k : b \in w}

\* w >> k, and w << k in n bits.
Shr(w, k)    == {b - k : b \in {c \in w : k <= c}}
Shl(w, k, n) == {b + k : b \in w} \cap Bits(n)

Xor(x, y) == (x \ y) \cup (y \ x)
Not(x, n) == Bits(n) \ x

\* The carry into bit b of x + y: it is generated below and propagated up to b.
Carry(x, y, b) ==
  \E k \in x \cap y : k < b /\ \A j \in (k + 1) .. (b - 1) : j \in x \cup y

\* Bit b of the sum is set when one of the three bits is, or all of them.
Plus(x, y, n)  == {b \in Bits(n) : b \in x <=> (b \in y <=> Carry(x, y, b))}
Minus(x, y, n) == Not(Plus(Not(x, n), y, n), n)

\* x < y: the highest bit in which they differ is one of y.
Less(x, y, n) == \E k \in y \ x : \A j \in (k + 1) .. (n - 1) : j \in x <=> j \in y

\* The same of two's complements.
SignedLess(x, y, n) == Less(Xor(x, {n - 1}), Xor(y, {n - 1}), n)

\* The word of n bits with the value of the m bits of x.
SignExtend(x, m, n) == IF m - 1 \in x THEN x \cup (m .. n - 1) ELSE x

\* The number the lowest n bits of x stand for, read from the highest on.
Number(x, n) ==
  LET v[k \in 0 .. n] == IF k = 0 THEN 0 ELSE 2 * v[k - 1] + (IF n - k \in x THEN 1 ELSE 0)
  IN v[n]

-----------------------------------------------------------------------------
(* A memory of bytes with addresses of r bits, and its little-endian words.  An *)
(* access beyond the last byte wraps around here; the caller looks whether it *)
(* fits. *)

Cell(a, i, r) == Plus(a, Num(i), r)

Fits(a, n, r) == ~Carry(a, Num(n - 1), r)

LoadBytes(m, a, n, r) == {b \in Bits(8 * n) : b % 8 \in m[Cell(a, b \div 8, r)]}

\* The number of the byte at c in an access of n bytes at a.
Lane(c, a, n, r) == CHOOSE i \in 0 .. n - 1 : c = Cell(a, i, r)

StoreBytes(m, a, n, v, r) ==
  [c \in DOMAIN m |->
     IF \E i \in 0 .. n - 1 : c = Cell(a, i, r)
     THEN Shr(v, 8 * Lane(c, a, n, r)) \cap Bits(8)
     ELSE m[c]]
=============================================================================
