------------------------------- MODULE Memory -------------------------------
(***************************************************************************)
(* Loads and stores, as recompiler_ops.c compiles them and as              *)
(* interpreter_ops.c does them, of addresses that are RDRAM.  Beside the   *)
(* fields of Compile a machine, and the registers of the interpreter, hold *)
(* mem, the words of memory in the order of the host, LLBit, and missed,   *)
(* the address at which a load missed the TLB and left the block.          *)
(* Stores and double words are compiled without a test for a miss.  No     *)
(* compiled access looks at alignment.                                     *)
(***************************************************************************)
EXTENDS Compile

CONSTANT Unmapped   \* the pages, of eight bytes, that the TLB does not map

ASSUME MemoryAssumption == Unmapped \subseteq Nat /\ Width % 4 = 0

Cells == 0 .. Modulus \div 4 - 1
Unit(n) == 2 ^ (n * (Width \div 4))         \* values of n bytes
Misses(a) == a \div 8 \in Unmapped

\* Bytes and halves lie the other way round in the words of the host.
Flip(a, n) == CASE n = 1 -> 4 * (a \div 4) + 3 - (a % 4)
                [] n = 2 -> IF a % 4 < 2 THEN a + 2 ELSE a - 2
                [] OTHER -> a
HostRead(mem, h, n) == (mem[h \div 4] \div Unit(h % 4)) % Unit(n)
HostWrite(mem, h, n, v) ==
    [mem EXCEPT ![h \div 4] = @ + ((v % Unit(n)) - HostRead(mem, h, n)) * Unit(h % 4)]
SignExtend(v, n) == IF v >= Unit(n) \div 2 THEN v + Modulus - Unit(n) ELSE v
Widen(v, n, signed) == IF signed THEN SignExtend(v, n) ELSE v
Aligned(a) == a - (a % 4)
Aligned8(a) == a - (a % 8)

---------------------------------------------------------------------------
\* The masks and shifts of the loads and stores of a part of a word: a is the
\* address, w the register and v the word in memory.

LowBytes(w, n) == w % Unit(n)                    \* the low n bytes, and all but those
HighBytes(w, n) == w - LowBytes(w, n)
LeftOf(w, v, a) == LET k == a % 4 IN LowBytes(w, k) + Wrap(v * Unit(k))
RightOf(w, v, a) == LET k == 3 - (a % 4) IN HighBytes(w, 4 - k) + v \div Unit(k)
LeftInto(w, v, a) == LET k == a % 4 IN HighBytes(v, 4 - k) + w \div Unit(k)
RightInto(w, v, a) == LET k == 3 - (a % 4) IN LowBytes(v, k) + Wrap(w * Unit(k))
LongLeftOf(w, v, a) == LET k == a % 8 IN Halves(LowBytes(w, k) + v * Unit(k))
LongRightOf(w, v, a) == LET k == 7 - (a % 8) IN Halves(HighBytes(w, 8 - k) + v \div Unit(k))
LongLeftInto(w, v, a) == LET k == a % 8 IN Halves(HighBytes(v, 8 - k) + w \div Unit(k))
LongRightInto(w, v, a) == LET k == 7 - (a % 8) IN Halves(LowBytes(v, k) + w * Unit(k))

---------------------------------------------------------------------------
\* The interpreter.

EffectiveAddress(s, base, offset) == Wrap(s.gpr[base].lo + Short(offset))
WordAt(s, a) == HostRead(s.mem, a, 4)
LongAt(s, a) == [hi |-> WordAt(s, a), lo |-> WordAt(s, a + 4)]
Missing(s, a) == [s EXCEPT !.missed = a]
Loaded(s, rt, a, d) == IF Misses(a) THEN Missing(s, a) ELSE Put(s, rt, d)
Narrow(s, rt, a, n, signed) ==
    LET w == Widen(HostRead(s.mem, Flip(a, n), n), n, signed)
    IN Loaded(s, rt, a, IF signed THEN Extended(w) ELSE ZeroExtended(w))

LB(s, rt, base, offset) ==
    IF rt = 0 THEN s ELSE Narrow(s, rt, EffectiveAddress(s, base, offset), 1, TRUE)
LH(s, rt, base, offset) == Narrow(s, rt, EffectiveAddress(s, base, offset), 2, TRUE)
LW(s, rt, base, offset) ==
    IF rt = 0 THEN s ELSE Narrow(s, rt, EffectiveAddress(s, base, offset), 4, TRUE)
LBU(s, rt, base, offset) == Narrow(s, rt, EffectiveAddress(s, base, offset), 1, FALSE)
LHU(s, rt, base, offset) == Narrow(s, rt, EffectiveAddress(s, base, offset), 2, FALSE)
LWU(s, rt, base, offset) ==
    IF rt = 0 THEN s ELSE Narrow(s, rt, EffectiveAddress(s, base, offset), 4, FALSE)
LL(s, rt, base, offset) ==
    IF rt = 0 THEN s ELSE LET t == LW(s, rt, base, offset)
                          IN IF t.missed = NoReg THEN [t EXCEPT !.LLBit = 1] ELSE t
\* All others do nothing on a miss.
LWL(s, rt, base, offset) ==
    LET a == EffectiveAddress(s, base, offset)
    IN IF Misses(a) THEN s ELSE Put(s, rt, Extended(LeftOf(s.gpr[rt].lo, WordAt(s, Aligned(a)), a)))
LWR(s, rt, base, offset) ==
    LET a == EffectiveAddress(s, base, offset)
    IN IF Misses(a) THEN s ELSE Put(s, rt, Extended(RightOf(s.gpr[rt].lo, WordAt(s, Aligned(a)), a)))
LD(s, rt, base, offset) ==
    LET a == EffectiveAddress(s, base, offset)
    IN IF Misses(a) THEN s ELSE Put(s, rt, LongAt(s, a))
LDL(s, rt, base, offset) ==
    LET a == EffectiveAddress(s, base, offset)
    IN IF Misses(a) THEN s
       ELSE Put(s, rt, LongLeftOf(Whole(s.gpr[rt]), Whole(LongAt(s, Aligned8(a))), a))
LDR(s, rt, base, offset) ==
    LET a == EffectiveAddress(s, base, offset)
    IN IF Misses(a) THEN s
       ELSE Put(s, rt, LongRightOf(Whole(s.gpr[rt]), Whole(LongAt(s, Aligned8(a))), a))

Stored(s, a, n, v) ==
    IF Misses(a) THEN s ELSE [s EXCEPT !.mem = HostWrite(@, Flip(a, n), n, v)]
StoredLong(s, a, d) == Stored(Stored(s, a, 4, d.hi), a + 4, 4, d.lo)
SB(s, rt, base, offset) == Stored(s, EffectiveAddress(s, base, offset), 1, s.gpr[rt].lo)
SH(s, rt, base, offset) == Stored(s, EffectiveAddress(s, base, offset), 2, s.gpr[rt].lo)
SW(s, rt, base, offset) == Stored(s, EffectiveAddress(s, base, offset), 4, s.gpr[rt].lo)
SWL(s, rt, base, offset) ==
    LET a == EffectiveAddress(s, base, offset)
    IN Stored(s, Aligned(a), 4, LeftInto(s.gpr[rt].lo, WordAt(s, Aligned(a)), a))
SWR(s, rt, base, offset) ==
    LET a == EffectiveAddress(s, base, offset)
    IN Stored(s, Aligned(a), 4, RightInto(s.gpr[rt].lo, WordAt(s, Aligned(a)), a))
SD(s, rt, base, offset) == StoredLong(s, EffectiveAddress(s, base, offset), s.gpr[rt])
SDL(s, rt, base, offset) ==
    LET a == EffectiveAddress(s, base, offset)
    IN StoredLong(s, Aligned8(a), LongLeftInto(Whole(s.gpr[rt]), Whole(LongAt(s, Aligned8(a))), a))
SDR(s, rt, base, offset) ==
    LET a == EffectiveAddress(s, base, offset)
    IN StoredLong(s, Aligned8(a), LongRightInto(Whole(s.gpr[rt]), Whole(LongAt(s, Aligned8(a))), a))
\* The high word of rt stays as it is.
SC(s, rt, base, offset) ==
    LET t == IF s.LLBit = 1 THEN SW(s, rt, base, offset) ELSE s
    IN Put(t, rt, [hi |-> s.gpr[rt].hi, lo |-> s.LLBit])

---------------------------------------------------------------------------
\* The address of a compiled access: a constant, or t1, a temporary, with t2,
\* in which the entry of its page is looked up.  The entry of a page is how far
\* its memory lies from it.

Content(m, x) == IF x \in Host THEN m.x[x] ELSE 0
AddressNow(m, base, offset) == Wrap(LowWord(m, base) + Short(offset))
AddressSet(t, base, offset) == SetX86(t, t.reg, AddressNow(t, base, offset))
AddressIn(m, base, offset) ==
    AddressSet(Map_TempReg(ProtectGPR(m, base), AnyHost,
                           IF IsMapped(m, base) /\ offset # 0 THEN -1 ELSE base, FALSE), base, offset)
\* A mapped base is used as it is where the access has no offset.
AddressOf(m, base, offset) ==
    IF IsMapped(m, base) /\ offset = 0
    THEN Returning(ProtectGPR(m, base), m.lo[base]) ELSE AddressIn(m, base, offset)
EntryOf(t) == SetX86(t, t.reg, 0)
LookUp(m) == EntryOf(Map_TempReg(m, AnyHost, -1, FALSE))
HostAddress(m, t1, t2) == Wrap(Content(m, t1) + Content(m, t2))

\* The exit of a miss writes back what is mapped at the test.
CompileReadTLBMiss(m, t1) ==
    IF Misses(Content(m, t1)) THEN [WriteBackRegisters(m) EXCEPT !.missed = Content(m, t1)] ELSE m
\* An access of a page that is not mapped without a test.
Wild(m, a) == IF m.live /\ Misses(a) THEN Slip(Fault(m, "wild access"), TRUE) ELSE m

---------------------------------------------------------------------------
\* Loads.

\* Of a constant address: of one that is not mapped, a zero, but the word that
\* RDRAM has at that address all the same.
ReadConst(m, a, n) == IF Misses(a) /\ n < 4 THEN 0 ELSE HostRead(m.mem, Flip(a, n), n)
LoadConst(m, rt, a, n, signed, load) ==
    Slip(SetLow(Map_GPR_32bit(m, rt, signed, load), rt, Widen(ReadConst(m, a, n), n, signed)), Misses(a))

\* F(q, t1, t2) unless the address in t1 misses.
LoadUnless(q, t1, t2, F(_, _, _)) == IF q.missed # NoReg THEN q ELSE F(q, t1, t2)
LoadTested(u, t1, F(_, _, _)) == LoadUnless(CompileReadTLBMiss(u, t1), t1, u.reg, F)
LoadThrough(t, F(_, _, _)) == LoadTested(LookUp(t), t.reg, F)

\* n bytes, of which the code loads only the first.
NarrowRead(p, rt, a, n, first, signed) ==
    Slip(SetLow(p, rt, Widen(HostRead(p.mem, Flip(a, n), first), first, signed)),
         HostRead(p.mem, Flip(a, n), first) # HostRead(p.mem, Flip(a, n), n))
NarrowReadAt(p, rt, t1, t2, n, first, signed) ==
    NarrowRead(p, rt, HostAddress(p, t1, t2), n, first, signed)
NarrowLoaded(q, rt, t1, t2, n, first, signed) ==
    NarrowReadAt(Map_GPR_32bit(q, rt, signed, -1), rt, t1, t2, n, first, signed)
LoadNarrow(m, rt, base, offset, n, first, signed) ==
    IF rt = 0 THEN Slip(m, Misses(AddressNow(m, base, offset)))
    ELSE IF IsConst(m, base) THEN LoadConst(m, rt, AddressNow(m, base, offset), n, signed, 0)
    ELSE LoadThrough(AddressIn(ProtectGPR(m, rt), base, offset),
                     LAMBDA q, t1, t2 : NarrowLoaded(q, rt, t1, t2, n, first, signed))
Compile_LB(m, rt, base, offset) == LoadNarrow(m, rt, base, offset, 1, 1, TRUE)
Compile_LH(m, rt, base, offset) == LoadNarrow(m, rt, base, offset, 2, 2, TRUE)
Compile_LBU(m, rt, base, offset) == LoadNarrow(m, rt, base, offset, 1, 1, FALSE)
Compile_LHU(m, rt, base, offset) == LoadNarrow(m, rt, base, offset, 2, 2, FALSE)
\* A word is loaded as a half.
Compile_LWU(m, rt, base, offset) == LoadNarrow(m, rt, base, offset, 4, 2, FALSE)

\* rt is mapped before the page is tested, so that a miss writes back what its
\* new register held.
WordRead(p, rt, t1, t2) == SetLow(p, rt, HostRead(p.mem, HostAddress(p, t1, t2), 4))
WordUnless(q, p, m, rt, t1, t2) ==
    IF q.missed # NoReg THEN Slip(q, Value(p, rt) # Value(m, rt)) ELSE WordRead(p, rt, t1, t2)
WordTested(p, m, rt, t1, t2) == WordUnless(CompileReadTLBMiss(p, t1), p, m, rt, t1, t2)
WordLookedUp(u, m, rt, t1) == WordTested(Map_GPR_32bit(u, rt, TRUE, -1), m, rt, t1, u.reg)
WordThrough(t, m, rt) == WordLookedUp(LookUp(t), m, rt, t.reg)
Compile_LW(m, rt, base, offset) ==
    IF rt = 0 THEN m
    ELSE IF IsConst(m, base) THEN LoadConst(m, rt, AddressNow(m, base, offset), 4, TRUE, -1)
    ELSE WordThrough(AddressOf(ProtectGPR(m, rt), base, offset), m, rt)
Linking(m) == IF m.live THEN [m EXCEPT !.LLBit = 1] ELSE m
LinkLoaded(q, rt, t1, t2) == Linking(WordRead(Map_GPR_32bit(q, rt, TRUE, -1), rt, t1, t2))
Compile_LL(m, rt, base, offset) ==
    IF rt = 0 THEN m
    ELSE IF IsConst(m, base) THEN
            Linking(LoadConst(m, rt, AddressNow(m, base, offset), 4, TRUE, -1))
    ELSE LoadThrough(AddressOf(ProtectGPR(m, rt), base, offset),
                     LAMBDA q, t1, t2 : LinkLoaded(q, rt, t1, t2))

\* The high word is loaded first, from an address that may be the old low one.
HighRead(p, rt, t1, t2) == SetHigh(p, rt, WordAt(p, HostAddress(p, t1, t2)))
LowRead(h, rt, t1, t2) ==
    SetLow(h, rt, WordAt(h, Aligned(Wrap(HostAddress(h, t1, t2) + 4))))
LongRead(u, rt, t1) ==
    IF Misses(Content(u, t1)) THEN Wild(u, Content(u, t1))
    ELSE LowRead(HighRead(Map_GPR_64bit(u, rt, -1), rt, t1, u.reg), rt, t1, u.reg)
LongThrough(t, rt) == LongRead(LookUp(t), rt, t.reg)
LongConst(m, rt, a) == Slip(SetBoth(Map_GPR_64bit(m, rt, -1), rt, LongAt(m, a)), Misses(a))
Compile_LD(m, rt, base, offset) ==
    IF rt = 0 THEN m
    ELSE IF IsConst(m, base) THEN LongConst(m, rt, AddressNow(m, base, offset))
    ELSE LongThrough(AddressOf(ProtectGPR(m, rt), base, offset), rt)

\* The shift is in ECX, the offset in a fourth temporary.
PartRead(p, rt, word, a, Part(_, _, _)) == SetLow(p, rt, Part(LowWord(p, rt), word, a))
PartReadAt(p, rt, t1, t2, Part(_, _, _)) ==
    PartRead(p, rt, WordAt(p, Aligned(HostAddress(p, t1, t2))), HostAddress(p, t1, t2), Part)
PartLoaded(q, rt, t1, t2, Part(_, _, _)) ==
    PartReadAt(Map_GPR_32bit(Map_TempReg(q, AnyHost, -1, FALSE), rt, TRUE, rt), rt, t1, t2, Part)
PartConst(m, rt, a, Part(_, _, _)) ==
    Slip(PartRead(Map_TempReg(Map_GPR_32bit(m, rt, TRUE, rt), AnyHost, -1, FALSE), rt,
                  ReadConst(m, Aligned(a), 4), a, Part), Misses(a))
UnlessMissed(m) == Slip(m, m.missed # NoReg)
LoadPart(m, rt, base, offset, Part(_, _, _)) ==
    IF rt = 0 THEN m
    ELSE IF IsConst(m, base) THEN PartConst(m, rt, AddressNow(m, base, offset), Part)
    ELSE UnlessMissed(LoadThrough(
            UnProtectGPR(AddressIn(ProtectGPR(Map_TempReg(m, ECX, -1, FALSE), rt), base, offset), base),
            LAMBDA q, t1, t2 : PartLoaded(q, rt, t1, t2, Part)))
Compile_LWL(m, rt, base, offset) == LoadPart(m, rt, base, offset, LeftOf)
Compile_LWR(m, rt, base, offset) == LoadPart(m, rt, base, offset, RightOf)

\* Four instructions are left to the interpreter, which may load register 0.
UnlessZeroed(n, m) == Slip(n, n.gpr[0] # m.gpr[0])
Interpreted(m, rt, base, F(_)) ==
    UnlessZeroed(F(UnMap_GPR(UnMap_GPR(m, base, TRUE), rt, TRUE)), m)
Compile_LDL(m, rt, base, offset) == Interpreted(m, rt, base, LAMBDA s : LDL(s, rt, base, offset))
Compile_LDR(m, rt, base, offset) == Interpreted(m, rt, base, LAMBDA s : LDR(s, rt, base, offset))
Compile_SDL(m, rt, base, offset) == Interpreted(m, rt, base, LAMBDA s : SDL(s, rt, base, offset))
Compile_SDR(m, rt, base, offset) == Interpreted(m, rt, base, LAMBDA s : SDR(s, rt, base, offset))

---------------------------------------------------------------------------
\* Stores.

Write(m, a, n, v) == IF m.live THEN Stored(m, a, n, v) ELSE m
WriteHost(m, a, n, v) == Write(Wild(m, a), a, n, v)
WriteAt(m, t1, t2, n, v) == WriteHost(m, HostAddress(m, t1, t2), n, v)
\* What is stored: the constant, the register of rt, or a temporary.  Two of the
\* registers have no name for their low byte in the code of 32 bits.
Is8BitReg(x) == x \in {EAX, ECX, EDX, EBX}
InTemporary(m, rt, n) ==
    IsUnknown(m, rt) \/ (n = 1 /\ IsMapped(m, rt) /\ ~Is8BitReg(m.lo[rt]))
Source(m, rt, n) ==
    IF InTemporary(m, rt, n) THEN Map_TempReg(UnProtectGPR(m, rt), AnyHost, rt, FALSE) ELSE m
StoredWord(m, p, rt, n) == IF InTemporary(m, rt, n) THEN Content(p, p.reg) ELSE LowWord(p, rt)
StoreConst(c, m, rt, a, n) == Write(c, a, n, StoredWord(m, c, rt, n))
StoreFrom(p, u, rt, t1, n) == WriteAt(p, t1, u.reg, n, StoredWord(u, p, rt, n))
StoreSource(u, rt, t1, n) == StoreFrom(Source(u, rt, n), u, rt, t1, n)
StoreThrough(t, rt, n) == StoreSource(LookUp(t), rt, t.reg, n)
StoreBytes(m, rt, base, offset, n) ==
    IF IsConst(m, base) THEN StoreConst(Source(m, rt, n), m, rt, AddressNow(m, base, offset), n)
    ELSE StoreThrough(UnProtectGPR(AddressIn(ProtectGPR(m, rt), base, offset), base), rt, n)
Compile_SB(m, rt, base, offset) == StoreBytes(m, rt, base, offset, 1)
Compile_SH(m, rt, base, offset) == StoreBytes(m, rt, base, offset, 2)
Compile_SW(m, rt, base, offset) == StoreBytes(m, rt, base, offset, 4)

\* Everything under the jump that skips the store is skipped, the registers
\* written back to make room for the address included.
SkippedChanges(n, m) == m.LLBit # 1 /\ \E r \in Guest : Value(n, r) # Value(m, r)
Answered(n, m, rt) ==
    Slip(SetLow(Map_GPR_32bit(n, rt, FALSE, -1), rt, m.LLBit),
         SkippedChanges(n, m) \/ rt = 0 \/ HighWord(m, rt) # 0)
Compile_SC(m, rt, base, offset) ==
    Answered(Under(m, m.LLBit = 1, LAMBDA p : Compile_SW(p, rt, base, offset)), m, rt)

\* The word is read, merged and written back: to a page looked up once more.
PartWritten(v, rt, a, Part(_, _, _)) ==
    Write(Wild(v, a), Aligned(a), 4, Part(LowWord(v, rt), WordAt(v, Aligned(a)), a))
PartWrittenAt(v, rt, t1, t2, Part(_, _, _)) == PartWritten(v, rt, HostAddress(v, t1, t2), Part)
PartLookedUp(u, rt, t1, Part(_, _, _)) ==
    PartWrittenAt(Map_TempReg(Map_TempReg(u, AnyHost, -1, FALSE), AnyHost, -1, FALSE),
                  rt, t1, u.reg, Part)
PartThrough(t, rt, Part(_, _, _)) == PartLookedUp(LookUp(t), rt, t.reg, Part)
\* At a constant address: the word in x, and rt in the register last mapped.
PartMerged(t, a, x, Part(_, _, _)) ==
    Write(t, Aligned(a), 4, Part(Content(t, t.reg), Content(t, x), a))
ConstRead(v, a) == SetX86(v, v.reg, ReadConst(v, Aligned(a), 4))
PartOfConst(v, rt, a, Part(_, _, _)) ==
    PartMerged(Map_TempReg(ConstRead(v, a), AnyHost, rt, FALSE), a, v.reg, Part)
StorePart(m, rt, base, offset, Part(_, _, _)) ==
    IF IsConst(m, base)
    THEN PartOfConst(Map_TempReg(m, AnyHost, -1, FALSE), rt, AddressNow(m, base, offset), Part)
    ELSE PartThrough(UnProtectGPR(AddressIn(Map_TempReg(m, ECX, -1, FALSE), base, offset), base),
                     rt, Part)
Compile_SWL(m, rt, base, offset) == StorePart(m, rt, base, offset, LeftInto)
Compile_SWR(m, rt, base, offset) == StorePart(m, rt, base, offset, RightInto)

\* The high word of a register of 32 bits is made in a temporary, for which, at
\* a constant address, that register itself may be taken.
HighSource(m, rt) ==
    IF IsUnknown(m, rt) \/ (IsMapped(m, rt) /\ Is32Bit(m, rt))
    THEN Map_TempReg(m, AnyHost, rt, TRUE) ELSE Returning(m, NoReg)
LowSource(h, n, rt) == IF IsUnknown(n, rt) THEN Map_TempReg(h, h.reg, rt, FALSE) ELSE h
HighStored(h, rt, At(_, _, _)) ==
    At(h, 0, IF h.reg = NoReg THEN HighWord(h, rt) ELSE Content(h, h.reg))
LowStored(l, h, n, rt, At(_, _, _)) ==
    At(l, 4, IF IsUnknown(n, rt) THEN Content(l, h.reg)
             ELSE IF IsConst(n, rt) THEN n.lo[rt]
             ELSE Content(l, n.lo[rt]))
StoreHalves(h, n, rt, At(_, _, _)) ==
    Slip(LowStored(LowSource(HighStored(h, rt, At), n, rt), h, n, rt, At),
         IsMapped(n, rt) /\ IsUnknown(h, rt))
StoreLong(n, rt, At(_, _, _)) == StoreHalves(HighSource(n, rt), n, rt, At)
Advanced(n, t1, d) == SetX86(n, t1, Wrap(Content(n, t1) + d))
StoreLongAt(u, rt, t1) ==
    StoreLong(u, rt, LAMBDA n, d, w : WriteAt(Advanced(n, t1, d), t1, u.reg, 4, w))
StoreLongThrough(t, rt) == StoreLongAt(LookUp(t), rt, t.reg)
Compile_SD(m, rt, base, offset) ==
    IF IsConst(m, base)
    THEN StoreLong(m, rt, LAMBDA n, d, w : Write(n, Wrap(AddressNow(m, base, offset) + d), 4, w))
    ELSE StoreLongThrough(AddressIn(ProtectGPR(m, rt), base, offset), rt)

=============================================================================
