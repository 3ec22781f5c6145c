------------------------------ MODULE Opcodes ------------------------------
(***************************************************************************)
(* The instructions of interpreter_ops.c that compute with general         *)
(* registers.  Each operator takes the registers s (gpr, and HI and LO) to  *)
(* what the instruction leaves.                                            *)
(***************************************************************************)
EXTENDS Words

Put(s, r, d) == [s EXCEPT !.gpr[r] = d]
HiLo(s, hi, lo) == [s EXCEPT !.HI = hi, !.LO = lo]
Flag(b) == [hi |-> 0, lo |-> IF b THEN 1 ELSE 0]
Both(F(_, _), d, e) == [hi |-> F(d.hi, e.hi), lo |-> F(d.lo, e.lo)]

---------------------------------------------------------------------------
\* With an immediate: 64 bits wide, or 32 and then sign extended.

ADDIU(s, rt, rs, imm) == Put(s, rt, Extended(Wrap(s.gpr[rs].lo + Short(imm))))
ADDI(s, rt, rs, imm) == IF rt = 0 THEN s ELSE ADDIU(s, rt, rs, imm)
SLTI(s, rt, rs, imm) ==
    Put(s, rt, Flag(SignedWhole(s.gpr[rs]) < Signed(Short(imm))))
SLTIU(s, rt, rs, imm) ==
    Put(s, rt, Flag(Whole(s.gpr[rs]) < Whole(Extended(Short(imm)))))
ANDI(s, rt, rs, imm) == Put(s, rt, Both(And, s.gpr[rs], ZeroExtended(imm)))
ORI(s, rt, rs, imm) == Put(s, rt, Both(Or, s.gpr[rs], ZeroExtended(imm)))
XORI(s, rt, rs, imm) == Put(s, rt, Both(Xor, s.gpr[rs], ZeroExtended(imm)))
LUI(s, rt, imm) == IF rt = 0 THEN s ELSE Put(s, rt, Extended(imm * HalfModulus))
DADDIU(s, rt, rs, imm) ==
    Put(s, rt, Halves(Whole(s.gpr[rs]) + Whole(Extended(Short(imm)))))

---------------------------------------------------------------------------
\* Shifts of 32 bits, by sa and by a register, and of 64 bits.

SLL(s, rd, rt, sa) == Put(s, rd, Extended(ShiftLeft(s.gpr[rt].lo, sa)))
SRL(s, rd, rt, sa) == Put(s, rd, Extended(ShiftRight(s.gpr[rt].lo, sa)))
SRA(s, rd, rt, sa) == Put(s, rd, Extended(ShiftRightSigned(s.gpr[rt].lo, sa)))
SLLV(s, rd, rs, rt) ==
    IF rd = 0 THEN s ELSE SLL(s, rd, rt, ShiftCount(s.gpr[rs].lo))
SRLV(s, rd, rs, rt) == SRL(s, rd, rt, ShiftCount(s.gpr[rs].lo))
SRAV(s, rd, rs, rt) == SRA(s, rd, rt, ShiftCount(s.gpr[rs].lo))

DSLL(s, rd, rt, sa) == Put(s, rd, Halves(Whole(s.gpr[rt]) * 2 ^ sa))
DSRL(s, rd, rt, sa) == Put(s, rd, Halves(Whole(s.gpr[rt]) \div 2 ^ sa))
DSRA(s, rd, rt, sa) == Put(s, rd, Halves(SignedWhole(s.gpr[rt]) \div 2 ^ sa))
DSLL32(s, rd, rt, sa) == DSLL(s, rd, rt, sa + Width)
DSRL32(s, rd, rt, sa) == DSRL(s, rd, rt, sa + Width)
DSRA32(s, rd, rt, sa) == DSRA(s, rd, rt, sa + Width)
DSLLV(s, rd, rs, rt) == DSLL(s, rd, rt, LongShiftCount(s.gpr[rs].lo))
DSRLV(s, rd, rs, rt) == DSRL(s, rd, rt, LongShiftCount(s.gpr[rs].lo))
DSRAV(s, rd, rs, rt) == DSRA(s, rd, rt, LongShiftCount(s.gpr[rs].lo))

---------------------------------------------------------------------------
\* Two registers into a third.

ADDU(s, rd, rs, rt) == Put(s, rd, Extended(Wrap(s.gpr[rs].lo + s.gpr[rt].lo)))
ADD(s, rd, rs, rt) == ADDU(s, rd, rs, rt)
SUBU(s, rd, rs, rt) == Put(s, rd, Extended(Wrap(s.gpr[rs].lo - s.gpr[rt].lo)))
SUB(s, rd, rs, rt) == SUBU(s, rd, rs, rt)
AND(s, rd, rs, rt) == Put(s, rd, Both(And, s.gpr[rs], s.gpr[rt]))
OR(s, rd, rs, rt) == Put(s, rd, Both(Or, s.gpr[rs], s.gpr[rt]))
XOR(s, rd, rs, rt) == Put(s, rd, Both(Xor, s.gpr[rs], s.gpr[rt]))
NOR(s, rd, rs, rt) ==
    Put(s, rd, LET d == Both(Or, s.gpr[rs], s.gpr[rt]) IN [hi |-> Not(d.hi), lo |-> Not(d.lo)])
SLT(s, rd, rs, rt) ==
    Put(s, rd, Flag(SignedWhole(s.gpr[rs]) < SignedWhole(s.gpr[rt])))
SLTU(s, rd, rs, rt) == Put(s, rd, Flag(Whole(s.gpr[rs]) < Whole(s.gpr[rt])))
DADDU(s, rd, rs, rt) == Put(s, rd, Halves(Whole(s.gpr[rs]) + Whole(s.gpr[rt])))
DADD(s, rd, rs, rt) == DADDU(s, rd, rs, rt)
DSUBU(s, rd, rs, rt) == Put(s, rd, Halves(Whole(s.gpr[rs]) - Whole(s.gpr[rt])))
DSUB(s, rd, rs, rt) == DSUBU(s, rd, rs, rt)

---------------------------------------------------------------------------
\* HI and LO.

MFHI(s, rd) == Put(s, rd, s.HI)
MTHI(s, rs) == [s EXCEPT !.HI = s.gpr[rs]]
MFLO(s, rd) == Put(s, rd, s.LO)
MTLO(s, rs) == [s EXCEPT !.LO = s.gpr[rs]]

Product(s, i) == LET d == Halves(i) IN HiLo(s, Extended(d.hi), Extended(d.lo))
MULT(s, rs, rt) == Product(s, Signed(s.gpr[rs].lo) * Signed(s.gpr[rt].lo))
MULTU(s, rs, rt) == Product(s, s.gpr[rs].lo * s.gpr[rt].lo)

\* The divisor is tested as 64 bits and divides as 32.
DIV(s, rs, rt) ==
    IF s.gpr[rt] = Flag(FALSE) THEN s
    ELSE LET n == Signed(s.gpr[rs].lo)
             d == Signed(s.gpr[rt].lo)
         IN HiLo(s, Extended(Wrap(Remainder(n, d))), Extended(Wrap(Quotient(n, d))))
DIVU(s, rs, rt) ==
    IF s.gpr[rt] = Flag(FALSE) THEN s
    ELSE HiLo(s, Extended(s.gpr[rs].lo % s.gpr[rt].lo), Extended(s.gpr[rs].lo \div s.gpr[rt].lo))
\* An x86 division by a zero word, or by -1 of the least word, traps.
DividesBadly(s, rs, rt) ==
    /\ s.gpr[rt] # Flag(FALSE)
    /\ \/ s.gpr[rt].lo = 0
       \/ s.gpr[rt].lo = Ones /\ s.gpr[rs].lo = Modulus \div 2

\* A product of 128 bits from the four products of halves, as the code adds them up.
LongProduct(s, ll, hl, lh, hh) ==
    LET middle == ll.hi + hl.lo + lh.lo
    IN HiLo(s, Halves(Whole(hh) + Signed(hl.hi) + Signed(lh.hi) + middle \div Modulus),
               Halves(Whole(ll) + (hl.lo + lh.lo) * Modulus))
DMULTU(s, rs, rt) ==
    LET a == s.gpr[rs]
        b == s.gpr[rt]
        hl == Halves(a.hi * b.lo)
        lh == Halves(a.lo * b.hi)
        middle == Halves(a.lo * b.lo).hi + hl.lo + lh.lo
    IN HiLo(s, Halves(a.hi * b.hi + hl.hi + lh.hi + middle \div Modulus),
               Halves(a.lo * b.lo + (hl.lo + lh.lo) * Modulus))
DMULT(s, rs, rt) ==
    LET a == s.gpr[rs]
        b == s.gpr[rt]
    IN LongProduct(s, Halves(a.lo * b.lo), Halves(Signed(a.hi) * b.lo),
                   Halves(a.lo * Signed(b.hi)), Halves(Signed(a.hi) * Signed(b.hi)))
DDIV(s, rs, rt) ==
    IF s.gpr[rt] = Flag(FALSE) THEN s
    ELSE LET n == SignedWhole(s.gpr[rs])
             d == SignedWhole(s.gpr[rt])
         IN HiLo(s, Halves(Remainder(n, d)), Halves(Quotient(n, d)))
DDIVU(s, rs, rt) ==
    IF s.gpr[rt] = Flag(FALSE) THEN s
    ELSE LET n == Whole(s.gpr[rs])
             d == Whole(s.gpr[rt])
         IN HiLo(s, Halves(n % d), Halves(n \div d))
=============================================================================
