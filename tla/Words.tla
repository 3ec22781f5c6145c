------------------------------- MODULE Words -------------------------------
(***************************************************************************)
(* Machine words of Width bits and the double words made of two of them,   *)
(* as the C code computes with them: uint32_t and MIPS_DWORD with Width =  *)
(* 32.  A double word is a record of its halves, UW[1] and UW[0].          *)
(***************************************************************************)
EXTENDS Integers, FiniteSets, FiniteSetsExt

CONSTANT Width      \* bits of a word: 32 in the program

ASSUME WidthAssumption == Width \in Nat \ {0, 1}

Modulus == 2 ^ Width
Word == 0 .. Modulus - 1
Ones == Modulus - 1
DoubleWord == [hi : Word, lo : Word]

Wrap(i) == i % Modulus
Negative(w) == w >= Modulus \div 2
Signed(w) == IF Negative(w) THEN w - Modulus ELSE w
\* (int)w >> 31
SignOf(w) == IF Negative(w) THEN Ones ELSE 0

Extended(w) == [hi |-> SignOf(w), lo |-> w]
ZeroExtended(w) == [hi |-> 0, lo |-> w]
Whole(d) == d.hi * Modulus + d.lo
SignedWhole(d) == Signed(d.hi) * Modulus + d.lo
Halves(i) == [hi |-> (i \div Modulus) % Modulus, lo |-> i % Modulus]

\* A halfword in a word: the immediate of an instruction.
HalfModulus == 2 ^ (Width \div 2)
Half == 0 .. HalfModulus - 1
\* (short)immediate as a word
Short(h) == IF h >= HalfModulus \div 2 THEN Modulus - HalfModulus + h ELSE h

BitsOf(w) == {b \in 0 .. Width - 1 : (w \div 2 ^ b) % 2 = 1}
OfBits(S) == MapThenSumSet(LAMBDA b : 2 ^ b, S)
BitsAnd == [v, w \in Word |-> OfBits(BitsOf(v) \cap BitsOf(w))]
And(v, w) == BitsAnd[v, w]
Or(v, w) == v + w - And(v, w)
Xor(v, w) == v + w - 2 * And(v, w)
Not(w) == Ones - w

ShiftLeft(w, n) == Wrap(w * 2 ^ n)
ShiftRight(w, n) == w \div 2 ^ n
ShiftRightSigned(w, n) == Wrap(Signed(w) \div 2 ^ n)
\* Bits of a shift count that are looked at: sa of an instruction, CL of x86.
ShiftCount(w) == w % Width
LongShiftCount(w) == w % (2 * Width)

\* Division of C, which truncates, of a signed word.
Abs(i) == IF i < 0 THEN -i ELSE i
Quotient(i, j) == IF (i < 0) = (j < 0) THEN Abs(i) \div Abs(j) ELSE -(Abs(i) \div Abs(j))
Remainder(i, j) == i - j * Quotient(i, j)
=============================================================================
