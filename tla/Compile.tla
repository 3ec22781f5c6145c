------------------------------ MODULE Compile ------------------------------
(***************************************************************************)
(* recompiler_ops.c: what compiling one instruction that computes with     *)
(* general registers does to the register cache and emits.  Each operator  *)
(* Compile_X(m, ...) takes the machine m of RegCache to the one in which X *)
(* is compiled and has run.                                                *)
(***************************************************************************)
EXTENDS RegCache, Opcodes

Drop(m, r) == UnMap_GPR(m, r, FALSE)
DropMapped(m, r) == IF IsMapped(m, r) THEN Drop(m, r) ELSE m
SetConst32(m, r, w) == [m EXCEPT !.st[r] = STATE_CONST_32, !.lo[r] = w]
\* A constant of 64 bits, kept as one of 32 when that is enough.
SetConst(m, r, d) ==
    [m EXCEPT !.st[r] = IF d = Extended(d.lo) THEN STATE_CONST_32 ELSE STATE_CONST_64,
              !.hi[r] = d.hi, !.lo[r] = d.lo]
\* The stored halves, of which the high one is stale in a constant of 32 bits.
RawConst(m, r) == [hi |-> m.hi[r], lo |-> m.lo[r]]

SetLow(m, r, w) == SetX86(m, m.lo[r], w)
SetHigh(m, r, w) == SetX86(m, m.hi[r], w)
SetBoth(m, r, d) == SetLow(SetHigh(m, r, d.hi), r, d.lo)
SetHI(m, d) == IF m.live THEN [m EXCEPT !.HI = d] ELSE m
SetLO(m, d) == IF m.live THEN [m EXCEPT !.LO = d] ELSE m

UnknownOpcode(m) == Slip(Fault(m, "unknown opcode"), TRUE)
\* Registers in memory through a function of the interpreter.
CallInterpreter(m, F(_)) ==
    LET s == F([gpr |-> m.gpr, HI |-> m.HI, LO |-> m.LO])
    IN IF m.live THEN [m EXCEPT !.gpr = s.gpr, !.HI = s.HI, !.LO = s.LO] ELSE m
\* BranchCompare, set before r is mapped, into r.
Bit(b) == IF b THEN 1 ELSE 0
FlagInto(m, r, signed, b) == SetLow(Map_GPR_32bit(m, r, signed, -1), r, Bit(b))
\* Code of one operand, which is in r.
LowInto(m, r, F(_)) == SetLow(m, r, F(LowWord(m, r)))
BothInto(m, r, F(_)) == SetBoth(m, r, F(Value(m, r)))
\* The same and a constant, with r mapped to 32 bits from the register load.
Map32(m, r, signed, load, F(_)) == LowInto(Map_GPR_32bit(m, r, signed, load), r, F)

---------------------------------------------------------------------------
\* With an immediate.

Compile_ADDI(m, rt, rs, imm) ==
    IF rt = 0 THEN m
    ELSE IF IsConst(m, rs) THEN SetConst32(DropMapped(m, rt), rt, Wrap(m.lo[rs] + Short(imm)))
    ELSE Map32(m, rt, TRUE, rs, LAMBDA w : Wrap(w + Short(imm)))
Compile_ADDIU(m, rt, rs, imm) ==
    IF rt = 0 THEN m
    ELSE IF IsConst(m, rs) THEN SetConst32(DropMapped(m, rt), rt, Wrap(m.lo[rs] + Short(imm)))
    ELSE Map32(m, rt, TRUE, rs, LAMBDA w : Wrap(w + Short(imm)))

MarkedZero(m, r) == m.st[r] = STATE_MAPPED_32_ZERO
\* The upper half of a register of 32 bits does not repeat the top bit below it.
Unsigned32(m, r) == MarkedZero(m, r) /\ Negative(LowWord(m, r))
\* A constant of 64 bits is compared with the immediate cut to 32 bits; a
\* register mapped to 32 bits with 32 bits, whether it is signed or not.
Compile_SLTIU(m, rt, rs, imm) ==
    LET i == Short(imm)
        less == IF Is32Bit(m, rs) THEN LowWord(m, rs) < i
                ELSE IF IsConst(m, rs) THEN Whole(RawConst(m, rs)) < i
                ELSE Whole(Value(m, rs)) < Whole(Extended(i))
    IN IF rt = 0 THEN m
       ELSE IF IsConst(m, rs) THEN Slip(SetConst32(Drop(m, rt), rt, Bit(less)),
                                        Is64Bit(m, rs) /\ Negative(i))
       ELSE Slip(FlagInto(m, rt, FALSE, less), MarkedZero(m, rs) /\ Negative(i))
LessImmediate(m, rs, i) ==
    IF Is32Bit(m, rs) THEN Signed(LowWord(m, rs)) < Signed(i)
    ELSE SignedWhole(Value(m, rs)) < Signed(i)
FlagLessImmediate(p, rt, rs, i) == SetLow(p, rt, Bit(LessImmediate(p, rs, i)))
Compile_SLTI(m, rt, rs, imm) ==
    IF rt = 0 THEN m
    ELSE IF IsConst(m, rs) THEN SetConst32(Drop(m, rt), rt, Bit(LessImmediate(m, rs, Short(imm))))
    ELSE IF IsMapped(m, rs) /\ Is32Bit(m, rs) THEN
            Slip(FlagLessImmediate(Map_GPR_32bit(ProtectGPR(m, rs), rt, FALSE, -1), rt, rs, Short(imm)),
                 Unsigned32(m, rs))
    ELSE FlagInto(m, rt, FALSE, LessImmediate(m, rs, Short(imm)))

Compile_ANDI(m, rt, rs, imm) ==
    IF rt = 0 THEN m
    ELSE IF IsConst(m, rs) THEN SetConst32(DropMapped(m, rt), rt, And(m.lo[rs], imm))
    ELSE IF imm = 0 THEN Map_GPR_32bit(m, rt, FALSE, 0)
    ELSE Map32(m, rt, FALSE, rs, LAMBDA w : And(w, imm))

\* A constant keeps its state and its halves, but for the low one.
LowChanged(m, n, rt, rs, w) ==
    [n EXCEPT !.st[rt] = m.st[rs], !.hi[rt] = m.hi[rs], !.lo[rt] = w]
\* A register keeps its width and sign; one that is in memory is taken as 64 bits.
LikeSource(m, rt, rs, F(_)) ==
    LowInto(IF IsMapped(m, rs) /\ Is32Bit(m, rs)
            THEN Map_GPR_32bit(m, rt, IsSigned(m, rs), rs) ELSE Map_GPR_64bit(m, rt, rs), rt, F)
Compile_ORI(m, rt, rs, imm) ==
    IF rt = 0 THEN m
    ELSE IF IsConst(m, rs) THEN LowChanged(m, DropMapped(m, rt), rt, rs, Or(m.lo[rs], imm))
    ELSE LikeSource(m, rt, rs, LAMBDA w : Or(w, imm))
Compile_XORI(m, rt, rs, imm) ==
    IF rt = 0 THEN m
    ELSE IF IsConst(m, rs) THEN LowChanged(m, IF rs = rt THEN m ELSE Drop(m, rt), rt, rs,
                                           Xor(m.lo[rs], imm))
    ELSE LikeSource(m, rt, rs, LAMBDA w : Xor(w, imm))

Compile_LUI(m, rt, imm) ==
    IF rt = 0 THEN m ELSE SetConst32(Drop(m, rt), rt, Wrap(Short(imm) * HalfModulus))
\* rt is written back, and forgotten, only when rs is not register 0; register 0
\* itself is written in memory.
Compile_DADDIU(m, rt, rs, imm) ==
    CallInterpreter(Slip(IF rs = 0 THEN m ELSE UnMap_GPR(UnMap_GPR(m, rs, TRUE), rt, TRUE),
                         (rs = 0 /\ IsKnown(m, rt)) \/ rt = 0),
                    LAMBDA s : DADDIU(s, rt, rs, imm))

---------------------------------------------------------------------------
\* Shifts.  One by 1, 2 or 3 of a mapped register is an address computation.

ShiftedAddress(p, rd, rt, sa) == SetLow(p, rd, ShiftLeft(LowWord(p, rt), sa))
Compile_SLL(m, rd, rt, sa) ==
    IF rd = 0 THEN m
    ELSE IF IsConst(m, rt) THEN SetConst32(DropMapped(m, rd), rd, ShiftLeft(m.lo[rt], sa))
    ELSE IF rd # rt /\ IsMapped(m, rt) /\ sa \in 1 .. 3 THEN
            ShiftedAddress(Map_GPR_32bit(ProtectGPR(m, rt), rd, TRUE, -1), rd, rt, sa)
    ELSE Map32(m, rd, TRUE, rt, LAMBDA w : ShiftLeft(w, sa))
Shifted(m, rd, rt, F(_)) ==
    IF rd = 0 THEN m
    ELSE IF IsConst(m, rt) THEN SetConst32(DropMapped(m, rd), rd, F(m.lo[rt]))
    ELSE Map32(m, rd, TRUE, rt, F)
Compile_SRL(m, rd, rt, sa) == Shifted(m, rd, rt, LAMBDA w : ShiftRight(w, sa))
Compile_SRA(m, rd, rt, sa) == Shifted(m, rd, rt, LAMBDA w : ShiftRightSigned(w, sa))

\* By a register: its count in ECX, which the guest that is there leaves.
Counted(m, Count(_)) == SetX86(m, ECX, Count(m.x[ECX]))
ByECX(m, rd, F(_, _)) == SetLow(m, rd, F(LowWord(m, rd), m.x[ECX]))
ShiftedBy(m, rd, rs, rt, F(_, _)) ==
    IF rd = 0 THEN m
    ELSE IF IsConst(m, rs) THEN Shifted(m, rd, rt, LAMBDA w : F(w, ShiftCount(m.lo[rs])))
    ELSE ByECX(Map_GPR_32bit(Counted(Map_TempReg(m, ECX, rs, FALSE), ShiftCount), rd, TRUE, rt),
               rd, F)
Compile_SLLV(m, rd, rs, rt) == ShiftedBy(m, rd, rs, rt, ShiftLeft)
Compile_SRLV(m, rd, rs, rt) == ShiftedBy(m, rd, rs, rt, ShiftRight)
Compile_SRAV(m, rd, rs, rt) == ShiftedBy(m, rd, rs, rt, ShiftRightSigned)

LongLeft(d, n) == Halves(Whole(d) * 2 ^ n)
LongRight(d, n) == Halves(Whole(d) \div 2 ^ n)
LongRightSigned(d, n) == Halves(SignedWhole(d) \div 2 ^ n)
LongByECX(m, rd, F(_, _)) == SetBoth(m, rd, F(Value(m, rd), m.x[ECX]))
LongShiftedBy(m, rd, rs, rt, F(_, _)) ==
    LongByECX(Map_GPR_64bit(Counted(Map_TempReg(m, ECX, rs, FALSE), LongShiftCount), rd, rt), rd, F)
Compile_DSLLV(m, rd, rs, rt) ==
    IF rd = 0 THEN m
    ELSE IF IsConst(m, rs) THEN UnknownOpcode(m)
    ELSE LongShiftedBy(m, rd, rs, rt, LongLeft)
Compile_DSRLV(m, rd, rs, rt) ==
    IF rd = 0 THEN m
    ELSE IF IsConst(m, rs) /\ IsConst(m, rt) THEN
            SetConst(DropMapped(m, rd), rd, LongRight(Value(m, rt), LongShiftCount(m.lo[rs])))
    ELSE LongShiftedBy(m, rd, rs, rt, LongRight)
Compile_DSRAV(m, rd, rs, rt) ==
    IF rd = 0 THEN m
    ELSE IF IsConst(m, rs) THEN UnknownOpcode(m)
    ELSE LongShiftedBy(m, rd, rs, rt, LongRightSigned)

---------------------------------------------------------------------------
\* HI and LO.

Compile_MFLO(m, rd) == IF rd = 0 THEN m ELSE SetBoth(Map_GPR_64bit(m, rd, -1), rd, m.LO)
Compile_MFHI(m, rd) == IF rd = 0 THEN m ELSE SetBoth(Map_GPR_64bit(m, rd, -1), rd, m.HI)
\* A temporary carries the high word of a signed register and of one in memory,
\* whose low word then goes through the same temporary.  Nothing keeps a signed
\* register from being evicted for that temporary.
LowThrough(t, rs) == Map_TempReg(t, t.reg, rs, FALSE)
MovedThrough(t, m, rs, Set(_, _)) ==
    IF IsUnknown(m, rs) THEN Set(LowThrough(t, rs), Value(m, rs))
    ELSE IF m.st[rs] = STATE_MAPPED_32_SIGN THEN
            Slip(Set(t, [hi |-> t.x[t.reg], lo |-> t.x[t.lo[rs]]]), IsUnknown(t, rs))
    ELSE Set(m, Value(m, rs))
MovedTo(m, rs, Set(_, _)) == MovedThrough(Map_TempReg(m, AnyHost, rs, TRUE), m, rs, Set)
Compile_MTLO(m, rs) == MovedTo(m, rs, SetLO)
Compile_MTHI(m, rs) == MovedTo(m, rs, SetHI)

SetProtection(m, x, b) == [m EXCEPT !.prot[x] = b]
\* EAX takes rs while EDX is kept free of whatever leaves EAX; then EDX takes rt.
EAXLoaded(m, rs) == SetProtection(Map_TempReg(SetProtection(m, EDX, TRUE), EAX, rs, FALSE), EDX, FALSE)
FactorsLoaded(m, rs, rt) == Map_TempReg(EAXLoaded(m, rs), EDX, rt, FALSE)
HiLoSet(m, hi, lo) == SetHI(SetLO(m, Extended(lo)), Extended(hi))
Multiplied(m, i) == HiLoSet(m, Halves(i).hi, Halves(i).lo)
SignedProduct(m) == Multiplied(m, Signed(m.x[EAX]) * Signed(m.x[EDX]))
UnsignedProduct(m) == Multiplied(m, m.x[EAX] * m.x[EDX])
Compile_MULT(m, rs, rt) == SignedProduct(FactorsLoaded(m, rs, rt))
Compile_MULTU(m, rs, rt) == UnsignedProduct(FactorsLoaded(m, rs, rt))

\* A zero divisor clears HI and LO and jumps over everything else, the moves
\* of the registers that leave EAX and EDX included.
Cleared(m) == HiLoSet(m, 0, 0)
DividedUnless(m, rt, zero, Divide(_)) ==
    IF IsConst(m, rt) THEN IF zero THEN Cleared(m) ELSE Divide(m)
    ELSE Under(Under(m, zero, Cleared), ~zero, Divide)
Divided(m, rt, Divide(_)) == DividedUnless(Slip(m, LowWord(m, rt) = 0), rt, LowWord(m, rt) = 0, Divide)
SignInEDX(m) == SetX86(m, EDX, SignOf(m.x[EAX]))
DivisorHost(m, rt) ==
    IF IsMapped(m, rt) THEN Returning(m, m.lo[rt]) ELSE Map_TempReg(m, AnyHost, rt, FALSE)
QuotientOf(m, n, d) ==
    IF m.live THEN HiLoSet(m, Wrap(Remainder(n, d)), Wrap(Quotient(n, d))) ELSE m
SignedQuotient(m) == QuotientOf(m, SignedWhole([hi |-> m.x[EDX], lo |-> m.x[EAX]]), Signed(m.x[m.reg]))
SignedQuotients(m, rs, rt) ==
    SignedQuotient(DivisorHost(SignInEDX(Map_TempReg(EAXLoaded(m, rs), EDX, -1, FALSE)), rt))
Compile_DIV(m, rs, rt) == Divided(m, rt, LAMBDA n : SignedQuotients(n, rs, rt))
EDXCleared(m) == SetProtection(Map_TempReg(SetProtection(m, EAX, TRUE), EDX, 0, FALSE), EAX, FALSE)
UnsignedQuotient(m) == QuotientOf(m, m.x[EAX], m.x[m.reg])
UnsignedQuotients(m, rs, rt) ==
    UnsignedQuotient(Map_TempReg(Map_TempReg(EDXCleared(m), EAX, rs, FALSE), AnyHost, rt, FALSE))
Compile_DIVU(m, rs, rt) == Divided(m, rt, LAMBDA n : UnsignedQuotients(n, rs, rt))

Compile_DMULT(m, rs, rt) ==
    CallInterpreter(IF rs = 0 THEN m ELSE UnMap_GPR(UnMap_GPR(m, rs, TRUE), rt, TRUE),
                    LAMBDA s : DMULT(s, rs, rt))
\* Every register becomes a temporary.  The products of unlike halves are added
\* to LO only: their carries and high words never reach HI.
TwoTemporary(m, x, y) == Map_TempReg(Map_TempReg(m, x, -1, FALSE), y, -1, FALSE)
AllTemporary(m) == TwoTemporary(TwoTemporary(m, EBX, ECX), ESI, EDI)
LongProductOf(m, a, b) ==
    SetHI(SetLO(m, Halves(a.lo * b.lo + (a.hi * b.lo + a.lo * b.hi) * Modulus)), Halves(a.hi * b.hi))
Compile_DMULTU(m, rs, rt) ==
    Slip(LongProductOf(AllTemporary(FactorsLoaded(m, rs, rt)), Value(m, rs), Value(m, rt)),
         HighWord(m, rs) + HighWord(m, rt) > 0)
Compile_DDIV(m, rs, rt) ==
    CallInterpreter(UnMap_GPR(UnMap_GPR(m, rs, TRUE), rt, TRUE), LAMBDA s : DDIV(s, rs, rt))
Compile_DDIVU(m, rs, rt) ==
    CallInterpreter(UnMap_GPR(UnMap_GPR(m, rs, TRUE), rt, TRUE), LAMBDA s : DDIVU(s, rs, rt))

---------------------------------------------------------------------------
\* Two registers into a third.  The one that is rd already is worked upon.

Source1(rd, rs, rt) == IF rd = rt THEN rt ELSE rs
Source2(rd, rs, rt) == IF rd = rt THEN rs ELSE rt
BothConst(m, rs, rt) == IsConst(m, rs) /\ IsConst(m, rt)
BothMapped(m, rs, rt) == IsMapped(m, rs) /\ IsMapped(m, rt)
BothKnown(m, rs, rt) == IsKnown(m, rs) /\ IsKnown(m, rt)
Either64(m, rs, rt) == Is64Bit(m, rs) \/ Is64Bit(m, rt)
EitherUnsigned(m, rs, rt) ==
    BothKnown(m, rs, rt) /\ ~Either64(m, rs, rt) /\ (Unsigned32(m, rs) \/ Unsigned32(m, rt))
\* A negative constant of 32 bits meets a register mapped to 64.
Cut(m, c, g) == m.st[c] = STATE_CONST_32 /\ Negative(m.lo[c]) /\ m.st[g] = STATE_MAPPED_64
\* A negative register of 32 bits meets one in memory.
Narrowed(m, k, u) ==
    Is32Bit(m, k) /\ ~MarkedZero(m, k) /\ Negative(LowWord(m, k)) /\ IsUnknown(m, u)
EitherWay(F(_, _, _), m, rs, rt) == F(m, rs, rt) \/ F(m, rt, rs)

\* rd, mapped to 32 bits from the register load, and the low word of other.
LowWith(m, rd, other, F(_, _)) == SetLow(m, rd, F(LowWord(m, rd), LowWord(m, other)))
Map32With(m, rd, signed, load, other, F(_, _)) ==
    LowWith(Map_GPR_32bit(m, rd, signed, load), rd, other, F)
\* rd, mapped to 64 bits, and the words d.
Combine(m, rd, F(_, _), d) == SetBoth(m, rd, Both(F, Value(m, rd), d))
Map64With(m, rd, load, F(_, _), d) == Combine(Map_GPR_64bit(m, rd, load), rd, F, d)

Plus(v, w) == Wrap(v + w)
Minus(v, w) == Wrap(v - w)
Nor(v, w) == Not(Or(v, w))

Compile_ADD(m, rd, rs, rt) ==
    IF rd = 0 THEN m
    ELSE IF BothConst(m, rs, rt) THEN SetConst32(DropMapped(m, rd), rd, Plus(m.lo[rs], m.lo[rt]))
    ELSE Map32With(m, rd, TRUE, Source1(rd, rs, rt), Source2(rd, rs, rt), Plus)
Compile_ADDU(m, rd, rs, rt) ==
    IF rd = 0 THEN m
    ELSE IF BothConst(m, rs, rt) THEN SetConst32(DropMapped(m, rd), rd, Plus(m.lo[rs], m.lo[rt]))
    ELSE Map32With(m, rd, TRUE, Source1(rd, rs, rt), Source2(rd, rs, rt), Plus)
\* rt goes to a temporary when it is rd.
(* Mutant: rd is loaded with rs although it is rt. *)
SubtractedInPlace(m, rd, rs, rt) ==
    IF rd = 0 THEN m
    ELSE IF BothConst(m, rs, rt) THEN SetConst32(DropMapped(m, rd), rd, Minus(m.lo[rs], m.lo[rt]))
    ELSE Map32With(m, rd, TRUE, rs, rt, Minus)
LessTemporary(m, rd, x) == SetLow(m, rd, Minus(LowWord(m, rd), m.x[x]))
SubtractedFrom(t, rd, rs) == LessTemporary(Map_GPR_32bit(t, rd, TRUE, rs), rd, t.reg)
Subtracted(m, rd, rs, rt) ==
    IF rd = 0 THEN m
    ELSE IF BothConst(m, rs, rt) THEN SetConst32(DropMapped(m, rd), rd, Minus(m.lo[rs], m.lo[rt]))
    ELSE IF rd = rt THEN SubtractedFrom(Map_TempReg(m, AnyHost, rt, FALSE), rd, rs)
    ELSE Map32With(m, rd, TRUE, rs, rt, Minus)
Compile_SUB(m, rd, rs, rt) == Subtracted(m, rd, rs, rt)
Compile_SUBU(m, rd, rs, rt) == Subtracted(m, rd, rs, rt)

\* Both mapped, and 64 bits wide: the high word of a narrow second one is made
\* in a temporary.
HighReady(m, r, needsHigh(_)) == IF needsHigh(m) THEN Map_TempReg(m, AnyHost, r, TRUE) ELSE m
CombineWith(m, rd, F(_, _), r) == Combine(m, rd, F, Value(m, r))
WidePair(m, rd, s1, s2, F(_, _), needsHigh(_)) ==
    CombineWith(HighReady(Map_GPR_64bit(ProtectGPR(ProtectGPR(m, s1), s2), rd, s1), s2, needsHigh),
                rd, F, s2)
NarrowPair(m, rd, s1, s2, signed, F(_, _)) ==
    Map32With(ProtectGPR(ProtectGPR(m, s1), s2), rd, signed, s1, s2, F)

\* A result of constants leaves the registers that rd is mapped to marked.
AndConstants(m, rd, rs, rt) ==
    IF Either64(m, rs, rt) THEN SetConst(m, rd, Both(And, Value(m, rt), Value(m, rs)))
    ELSE [SetConst32(m, rd, And(m.lo[rt], m.lo[rs])) EXCEPT !.hi[rd] = 0]
AndMapped(m, rd, s1, s2) ==
    LET narrow(r) == Is32Bit(m, r) /\ ~IsSigned(m, r)
    IN IF ~Either64(m, s1, s2) THEN NarrowPair(m, rd, s1, s2, IsSigned(m, s1) /\ IsSigned(m, s2), And)
       ELSE IF narrow(s1) \/ narrow(s2) THEN NarrowPair(m, rd, s1, s2, FALSE, And)
       ELSE WidePair(m, rd, s1, s2, And, LAMBDA q : Is32Bit(q, s2))
\* A constant c and a mapped register g.  A constant of 32 bits makes a result
\* of 32 bits, although a negative one has a high word of ones.
AndConstMapped(m, rd, c, g) ==
    LET load == IF m.lo[c] = 0 THEN 0 ELSE g
        narrow == Is32Bit(m, g) /\ ~IsSigned(m, g)
        signed == Is32Bit(m, c) /\ (Is64Bit(m, g) \/ (m.lo[c] # 0 /\ IsSigned(m, g)))
    IN IF Is64Bit(m, c) /\ ~narrow THEN Map64With(m, rd, g, And, Value(m, c))
       ELSE Map32(m, rd, signed, load, LAMBDA w : And(w, m.lo[c]))
\* A known register k and one in memory, u.
AndKnown(m, rd, k, u) ==
    LET p == ProtectGPR(m, k)
        load == IF IsConst(m, k) \/ k # rd THEN u ELSE k
        other == IF load = u THEN k ELSE u
    IN IF Is64Bit(m, k) THEN Map64With(p, rd, load, And, Value(m, other))
       ELSE Map32(p, rd, IsSigned(m, k), load, LAMBDA w : And(w, LowWord(m, other)))
InMemory(m, rd, rs, rt, F(_, _)) == Map64With(m, rd, rt, F, m.gpr[rs])

\* Of a constant and a mapped register, and of a known register and one in memory.
TheConst(m, rs, rt) == IF IsConst(m, rt) THEN rt ELSE rs
TheMapped(m, rs, rt) == IF IsConst(m, rt) THEN rs ELSE rt
TheKnown(m, rs, rt) == IF IsKnown(m, rt) THEN rt ELSE rs
TheOther(m, rs, rt) == IF IsKnown(m, rt) THEN rs ELSE rt
ANDCases(m, rd, rs, rt) ==
    IF BothConst(m, rs, rt) THEN AndConstants(m, rd, rs, rt)
    ELSE IF BothMapped(m, rs, rt) THEN AndMapped(m, rd, Source1(rd, rs, rt), Source2(rd, rs, rt))
    ELSE IF BothKnown(m, rs, rt) THEN AndConstMapped(m, rd, TheConst(m, rs, rt), TheMapped(m, rs, rt))
    ELSE IF IsKnown(m, rs) \/ IsKnown(m, rt) THEN AndKnown(m, rd, TheKnown(m, rs, rt), TheOther(m, rs, rt))
    ELSE InMemory(m, rd, rs, rt, And)
Compile_AND(m, rd, rs, rt) ==
    Slip(ANDCases(m, rd, rs, rt),
         \/ rd = 0 \/ (BothConst(m, rs, rt) /\ IsMapped(m, rd))
         \/ EitherWay(Cut, m, rs, rt) \/ EitherWay(Narrowed, m, rs, rt))

\* A constant of 32 bits as the C conditional of a signed and an unsigned word
\* yields it: without its sign.
Widened(m, c) == IF Is64Bit(m, c) THEN Value(m, c) ELSE ZeroExtended(m.lo[c])
\* A known register, constant or mapped, and one in memory: 64 bits.
WithMemory(m, rd, k, u, F(_, _)) ==
    IF IsConst(m, k) THEN Map64With(m, rd, u, F, Value(m, k)) ELSE Map64With(m, rd, k, F, m.gpr[u])

OrConstants(m, rd, rs, rt) ==
    LET n == DropMapped(m, rd)
    IN IF Either64(m, rs, rt) THEN SetConst(n, rd, Both(Or, Value(m, rt), Value(m, rs)))
       ELSE SetConst32(n, rd, Or(m.lo[rt], m.lo[rs]))
OrMapped(m, rd, s1, s2) ==
    IF Either64(m, s1, s2) THEN WidePair(m, rd, s1, s2, Or, LAMBDA q : ~Is64Bit(q, s2))
    ELSE NarrowPair(m, rd, s1, s2, TRUE, Or)
OrConstMapped(m, rd, c, g) ==
    IF Either64(m, c, g) THEN Map64With(m, rd, g, Or, Widened(m, c))
    ELSE Map32(m, rd, TRUE, g, LAMBDA w : Or(w, m.lo[c]))
ORCases(m, rd, rs, rt) ==
    IF BothConst(m, rs, rt) THEN OrConstants(m, rd, rs, rt)
    ELSE IF BothMapped(m, rs, rt) THEN OrMapped(m, rd, Source1(rd, rs, rt), Source2(rd, rs, rt))
    ELSE IF BothKnown(m, rs, rt) THEN OrConstMapped(m, rd, TheConst(m, rs, rt), TheMapped(m, rs, rt))
    ELSE IF IsKnown(m, rs) \/ IsKnown(m, rt) THEN WithMemory(m, rd, TheKnown(m, rs, rt), TheOther(m, rs, rt), Or)
    ELSE InMemory(m, rd, rs, rt, Or)
Compile_OR(m, rd, rs, rt) ==
    Slip(ORCases(m, rd, rs, rt),
         rd = 0 \/ EitherUnsigned(m, rs, rt) \/ EitherWay(Cut, m, rs, rt))

\* Two registers of 32 bits give a signed one if either is signed.
EitherSigned(m, rs, rt) == IsSigned(m, rs) \/ IsSigned(m, rt)
XorMapped(m, rd, s1, s2) ==
    IF Either64(m, s1, s2)
    THEN WidePair(m, rd, s1, s2, Xor, LAMBDA q : Is32Bit(q, s2) /\ IsSigned(q, s2))
    ELSE NarrowPair(m, rd, s1, s2, EitherSigned(m, s1, s2), Xor)
XorConstMapped(m, rd, c, g) ==
    IF Either64(m, c, g) THEN Map64With(m, rd, g, Xor, Value(m, c))
    ELSE Map32(m, rd, EitherSigned(m, c, g), g, LAMBDA w : Xor(w, m.lo[c]))
XORCases(m, rd, rs, rt) ==
    IF rd = 0 THEN m
    ELSE IF rt = rs THEN SetConst32(Drop(m, rd), rd, 0)
    ELSE IF BothConst(m, rs, rt) /\ Either64(m, rs, rt) THEN UnknownOpcode(DropMapped(m, rd))
    ELSE IF BothConst(m, rs, rt) THEN SetConst32(DropMapped(m, rd), rd, Xor(m.lo[rt], m.lo[rs]))
    ELSE IF BothMapped(m, rs, rt) THEN XorMapped(m, rd, Source1(rd, rs, rt), Source2(rd, rs, rt))
    ELSE IF BothKnown(m, rs, rt) THEN XorConstMapped(m, rd, TheConst(m, rs, rt), TheMapped(m, rs, rt))
    ELSE IF IsKnown(m, rs) \/ IsKnown(m, rt) THEN WithMemory(m, rd, TheKnown(m, rs, rt), TheOther(m, rs, rt), Xor)
    ELSE InMemory(m, rd, rs, rt, Xor)
Compile_XOR(m, rd, rs, rt) ==
    Slip(XORCases(m, rd, rs, rt),
         EitherUnsigned(m, rs, rt))

NorMapped(m, rd, s1, s2) ==
    IF Either64(m, s1, s2) THEN WidePair(m, rd, s1, s2, Nor, LAMBDA q : ~Is64Bit(q, s2))
    ELSE NarrowPair(m, rd, s1, s2, EitherSigned(m, s1, s2), Nor)
NorConstMapped(m, rd, c, g) ==
    IF Either64(m, c, g) THEN Map64With(m, rd, g, Nor, Widened(m, c))
    ELSE Map32(m, rd, EitherSigned(m, c, g), g, LAMBDA w : Nor(w, m.lo[c]))
NORCases(m, rd, rs, rt) ==
    IF BothConst(m, rs, rt) /\ Either64(m, rs, rt) THEN UnknownOpcode(DropMapped(m, rd))
    ELSE IF BothConst(m, rs, rt) THEN SetConst32(DropMapped(m, rd), rd, Nor(m.lo[rt], m.lo[rs]))
    ELSE IF BothMapped(m, rs, rt) THEN NorMapped(m, rd, Source1(rd, rs, rt), Source2(rd, rs, rt))
    ELSE IF BothKnown(m, rs, rt) THEN NorConstMapped(m, rd, TheConst(m, rs, rt), TheMapped(m, rs, rt))
    ELSE IF IsKnown(m, rs) \/ IsKnown(m, rt) THEN WithMemory(m, rd, TheKnown(m, rs, rt), TheOther(m, rs, rt), Nor)
    ELSE InMemory(m, rd, rs, rt, Nor)
Compile_NOR(m, rd, rs, rt) ==
    Slip(NORCases(m, rd, rs, rt),
         \/ rd = 0 \/ (MarkedZero(m, rs) /\ MarkedZero(m, rt))
         \/ EitherUnsigned(m, rs, rt) \/ EitherWay(Cut, m, rs, rt))

---------------------------------------------------------------------------
\* Comparisons.  Two known registers of 32 bits are compared with 32 bits,
\* whatever their signs; all others with 64.

ProtectBoth(m, rs, rt) == ProtectGPR(ProtectGPR(m, rs), rt)
HighInTemp(m, r) ==
    IF IsMapped(m, r) /\ Is32Bit(m, r) THEN Map_TempReg(ProtectGPR(m, r), AnyHost, r, TRUE) ELSE m
Compared(m, rs, rt) ==
    IF IsUnknown(m, rs) /\ IsUnknown(m, rt) THEN LowThrough(Map_TempReg(m, AnyHost, rs, TRUE), rs)
    ELSE HighInTemp(HighInTemp(IF BothKnown(m, rs, rt) THEN ProtectBoth(m, rs, rt) ELSE m, rs), rt)
\* The low word of r once rd is mapped in p: of a constant, the one known before.
Operand(m, p, r) == IF IsConst(m, r) THEN m.lo[r] ELSE LowWord(p, r)
FlagLess(p, m, rd, rs, rt) ==
    SetLow(p, rd, Bit(Signed(Operand(m, p, rs)) < Signed(Operand(m, p, rt))))
SLTCases(m, rd, rs, rt) ==
    IF BothConst(m, rs, rt) /\ Either64(m, rs, rt) THEN UnknownOpcode(m)
    ELSE IF BothConst(m, rs, rt) THEN
            SetConst32(DropMapped(m, rd), rd, Bit(Signed(m.lo[rs]) < Signed(m.lo[rt])))
    ELSE IF BothKnown(m, rs, rt) /\ ~Either64(m, rs, rt) THEN
            FlagLess(Map_GPR_32bit(ProtectBoth(m, rs, rt), rd, TRUE, -1), m, rd, rs, rt)
    ELSE FlagInto(Compared(m, rs, rt), rd, TRUE,
                  SignedWhole(Value(m, rs)) < SignedWhole(Value(m, rt)))
Compile_SLT(m, rd, rs, rt) == Slip(SLTCases(m, rd, rs, rt), rd = 0 \/ EitherUnsigned(m, rs, rt))
LowLess(m, rs, rt) == LowWord(m, rs) < LowWord(m, rt)
SLTUCases(m, rd, rs, rt) ==
    IF rd = 0 THEN m
    ELSE IF BothConst(m, rs, rt) /\ Either64(m, rs, rt) THEN UnknownOpcode(m)
    ELSE IF BothConst(m, rs, rt) THEN SetConst32(DropMapped(m, rd), rd, Bit(LowLess(m, rs, rt)))
    ELSE IF BothKnown(m, rs, rt) /\ ~Either64(m, rs, rt) THEN
            FlagInto(IF BothMapped(m, rs, rt) THEN ProtectBoth(m, rs, rt) ELSE m, rd, TRUE,
                     LowLess(m, rs, rt))
    ELSE FlagInto(Compared(m, rs, rt), rd, TRUE,
                  Whole(Value(m, rs)) < Whole(Value(m, rt)))
Compile_SLTU(m, rd, rs, rt) == Slip(SLTUCases(m, rd, rs, rt), EitherUnsigned(m, rs, rt))


---------------------------------------------------------------------------
\* Sums and differences of 64 bits.

\* What  Is64Bit(rs) ? rs : lo(rs) + Is64Bit(rt) ? rt : lo(rt)  means in C, op
\* being + or -.
Misgrouped(m, rs, rt, op(_, _)) ==
    IF Is64Bit(m, rs) THEN Value(m, rs)
    ELSE IF op(Signed(m.lo[rs]), Bit(Is64Bit(m, rt))) # 0 THEN RawConst(m, rt)
    ELSE Extended(m.lo[rt])
LongPlus(d, e) == Halves(Whole(d) + Whole(e))
LongMinus(d, e) == Halves(Whole(d) - Whole(e))
\* rt, once rd is mapped in p, to rd.  A narrow rt may be evicted for the
\* temporary of its own high word, before it is protected.
LongWithNarrow(t, p, rd, rt, F(_, _)) ==
    Slip(SetBoth(ProtectGPR(t, rt), rd,
                 F(Value(t, rd), [hi |-> t.x[t.reg], lo |-> t.x[p.lo[rt]]])), IsUnknown(t, rt))
LongWith(p, rd, rt, F(_, _), constant) ==
    IF IsConst(p, rt) THEN Slip(SetBoth(p, rd, constant), HighWord(p, rt) # p.hi[rt])
    ELSE IF IsMapped(p, rt) /\ Is32Bit(p, rt) THEN
            LongWithNarrow(Map_TempReg(p, AnyHost, rt, TRUE), p, rd, rt, F)
    ELSE SetBoth(ProtectGPR(p, rt), rd, F(Value(p, rd), Value(p, rt)))
\* To the constant rt, whose high word is added without the carry.
LongAdded(p, rd, rt) ==
    Slip(LongWith(p, rd, rt, LongPlus, Both(Plus, Value(p, rd), RawConst(p, rt))),
         IsConst(p, rt) /\ LowWord(p, rd) + p.lo[rt] > Ones)
LongSum(m, rd, rs, rt) ==
    Slip(LongAdded(Map_GPR_64bit(m, rd, rs), rd, rt), rd = rt /\ rs # rt)
Compile_DADD(m, rd, rs, rt) ==
    IF rd = 0 THEN m
    ELSE IF BothConst(m, rs, rt) THEN
            Slip(SetConst(DropMapped(m, rd), rd, Misgrouped(m, rs, rt, LAMBDA i, j : i + j)), TRUE)
    ELSE LongSum(m, rd, rs, rt)
Compile_DADDU(m, rd, rs, rt) ==
    IF rd = 0 THEN m
    ELSE IF BothConst(m, rs, rt) THEN
            SetConst(DropMapped(m, rd), rd, LongPlus(Value(m, rs), Value(m, rt)))
    ELSE LongSum(m, rd, rs, rt)
\* rt goes through two temporaries, h and then l, when it is rd.
LongLessTemporary(m, rd, h, l) ==
    SetBoth(m, rd, LongMinus(Value(m, rd), [hi |-> m.x[h], lo |-> m.x[l]]))
LongLessThis(l, rd, rs, h) == LongLessTemporary(Map_GPR_64bit(l, rd, rs), rd, h, l.reg)
LongLessSelf(h, rd, rs) == LongLessThis(Map_TempReg(h, AnyHost, rd, FALSE), rd, rs, h.reg)
LongLess(p, rd, rt) == LongWith(p, rd, rt, LongMinus, LongMinus(Value(p, rd), RawConst(p, rt)))
LongDifference(m, rd, rs, rt) ==
    IF rd = 0 THEN m
    ELSE IF BothConst(m, rs, rt) THEN
            Slip(SetConst(DropMapped(m, rd), rd, Misgrouped(m, rs, rt, LAMBDA i, j : i - j)), TRUE)
    ELSE IF rd = rt THEN LongLessSelf(Map_TempReg(m, AnyHost, rt, TRUE), rd, rs)
    ELSE LongLess(Map_GPR_64bit(m, rd, rs), rd, rt)
Compile_DSUB(m, rd, rs, rt) == LongDifference(m, rd, rs, rt)
Compile_DSUBU(m, rd, rs, rt) == LongDifference(m, rd, rs, rt)

---------------------------------------------------------------------------
\* Shifts of 64 bits by sa.  A constant of 64 bits is not shifted at all.

LongShifted(m, rd, rt, F(_)) ==
    IF rd = 0 THEN m
    ELSE IF IsConst(m, rt) THEN Slip(SetConst(DropMapped(m, rd), rd,
                                              IF Is64Bit(m, rt) THEN Value(m, rt) ELSE F(Value(m, rt))),
                                     Is64Bit(m, rt))
    ELSE BothInto(Map_GPR_64bit(m, rd, rt), rd, F)
Compile_DSLL(m, rd, rt, sa) == LongShifted(m, rd, rt, LAMBDA d : LongLeft(d, sa))
Compile_DSRL(m, rd, rt, sa) == LongShifted(m, rd, rt, LAMBDA d : LongRight(d, sa))
Compile_DSRA(m, rd, rt, sa) == LongShifted(m, rd, rt, LAMBDA d : LongRightSigned(d, sa))

Swapped(m, r) == [m EXCEPT !.lo[r] = m.hi[r], !.hi[r] = m.lo[r]]
DropOther(m, rd, rt) == IF rt = rd THEN m ELSE Drop(m, rd)
\* The word that moves up is that of rt, or of memory when rt is not mapped.
LowToHigh(p, m, rd, rt, sa) ==
    SetBoth(IF IsMapped(m, rt) /\ rt = rd THEN Swapped(p, rd) ELSE p, rd,
            [hi |-> ShiftLeft(IF IsMapped(m, rt) THEN LowWord(p, rt) ELSE m.gpr[rt].lo, sa), lo |-> 0])
Compile_DSLL32(m, rd, rt, sa) ==
    IF rd = 0 THEN m
    ELSE IF IsConst(m, rt) THEN SetConst(DropOther(m, rd, rt), rd,
                                         [hi |-> ShiftLeft(m.lo[rt], sa), lo |-> 0])
    ELSE LowToHigh(Map_GPR_64bit(ProtectGPR(m, rt), rd, -1), m, rd, rt, sa)
\* The high word of a constant is read although only one of 64 bits has it, and
\* the result is a constant that is signed.
HighFirst(m, rd, rt) == IF rt = rd /\ IsMapped(m, rt) THEN Swapped(m, rd) ELSE m
HighShifted(m, rd, rt, signed, F(_)) ==
    IF IsConst(m, rt) THEN Slip(SetConst32(DropOther(m, rd, rt), rd, F(m.hi[rt])),
                                rd = 0 \/ Is32Bit(m, rt) \/ ~signed)
    ELSE IF IsMapped(m, rt) /\ Is32Bit(m, rt) THEN UnknownOpcode(ProtectGPR(m, rt))
    ELSE Slip(SetLow(Map_GPR_32bit(HighFirst(ProtectGPR(m, rt), rd, rt), rd, signed, -1), rd,
                     F(HighWord(m, rt))), rd = 0)
Compile_DSRL32(m, rd, rt, sa) == HighShifted(m, rd, rt, FALSE, LAMBDA w : ShiftRight(w, sa))
Compile_DSRA32(m, rd, rt, sa) == HighShifted(m, rd, rt, TRUE, LAMBDA w : ShiftRightSigned(w, sa))
=============================================================================
