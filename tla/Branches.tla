------------------------------ MODULE Branches ------------------------------
(***************************************************************************)
(* The branches and jumps of recompiler_ops.c with the instruction in      *)
(* their delay slot.  A comparison emits conditional jumps, the sites of   *)
(* which are patched later by way of two link locations for each way out;  *)
(* when the slot does not change what is compared it is compiled first.    *)
(* Beside the fields of Compile a machine, and the registers of the        *)
(* interpreter, hold went, the way taken, target, where a jump goes, and   *)
(* fpcr, the control register of the floating-point unit.                  *)
(***************************************************************************)
EXTENDS Compile

CONSTANTS
    Link,           \* register 31
    ReturnPC        \* the address behind the slot, as a word

ASSUME LinkAssumption == Link \in Guest \ {0} /\ ReturnPC \in Word

FPCSR_C == 2        \* the bit of the last comparison
Condition(w) == And(w, FPCSR_C) # 0

---------------------------------------------------------------------------
\* Ways out.  A section falls through on one side.  Of the sites that hold the
\* same link location the last is patched; the others lead to the code behind
\* them.  A second location is looked at only when the first is taken.

Site(b, to) == [if |-> b, to |-> to]
Patched(sites, i) ==
    LET to == sites[i].to
        held(slot) == \E j \in DOMAIN sites : sites[j].to = slot
    IN /\ to = "here" \/ \A j \in DOMAIN sites : j > i => sites[j].to # to
       /\ to = "jump2" => held("jump")
       /\ to = "cont2" => held("cont")
Way(sites, fall) ==
    LET taken == {i \in DOMAIN sites : sites[i].if /\ Patched(sites, i)}
        to == sites[Min(taken)].to
    IN IF taken = {} \/ to = "here" THEN fall
       ELSE IF to \in {"jump", "jump2"} THEN "jump"
       ELSE "cont"
Went(m, way) == IF m.live THEN [m EXCEPT !.went = way] ELSE m
\* Known when the code is compiled, so that the section falls through there.
Decided(m, b) ==
    LET way == IF b THEN "jump" ELSE "cont" IN [Went(m, way) EXCEPT !.fall = way]
\* One jump that leaves where the section does not fall through.
Tested(m, b) ==
    Went(m, Way(IF m.fall = "cont" THEN <<Site(b, "jump")>> ELSE <<Site(~b, "cont")>>, m.fall))

---------------------------------------------------------------------------
\* Two registers compared: in n, which halves differ.  Registers that are both
\* of 32 bits are compared by their low words, signed or not.

Differing(n, high, low) == [n |-> n, high |-> high, low |-> low]
Halved(n, rs, rt, wide) ==
    Differing(n, wide /\ HighWord(n, rs) # HighWord(n, rt), LowWord(n, rs) # LowWord(n, rt))
\* The high word of a register of 32 bits is made in a temporary.
NarrowOne(m, rs, rt) == IF Is32Bit(m, rs) THEN rs ELSE rt
MappedCompared(m, rs, rt) ==
    IF ~Either64(m, rs, rt) THEN Halved(m, rs, rt, FALSE)
    ELSE Halved(HighInTemp(ProtectBoth(m, rs, rt), NarrowOne(m, rs, rt)), rs, rt, TRUE)
ConstCompared(m, c, r) ==
    Halved(IF Either64(m, c, r) THEN HighInTemp(m, r) ELSE m, r, c, Either64(m, c, r))
KnownCompared(m, k, u) ==
    Halved(IF m.st[k] = STATE_MAPPED_32_SIGN THEN HighInTemp(m, k) ELSE m, k, u, TRUE)
\* The high word and then the low one of r go through one temporary.
LowCompared(l, h, u) ==
    Differing(l, h.x[h.reg] # h.gpr[u].hi, l.x[h.reg] # l.gpr[u].lo)
ThroughTemporary(h, r, u) ==
    IF h.reg = NoReg THEN Differing(h, TRUE, TRUE) ELSE LowCompared(LowThrough(h, r), h, u)
MemoryCompared(m, r, u) == ThroughTemporary(Map_TempReg(m, AnyHost, r, TRUE), r, u)
PairCompared(m, rs, rt) ==
    IF BothMapped(m, rs, rt) THEN MappedCompared(m, rs, rt)
    ELSE IF BothKnown(m, rs, rt) THEN ConstCompared(m, TheConst(m, rs, rt), TheMapped(m, rs, rt))
    ELSE IF IsKnown(m, rs) \/ IsKnown(m, rt) THEN
            KnownCompared(m, TheKnown(m, rs, rt), TheOther(m, rs, rt))
    ELSE MemoryCompared(m, rt, rs)
\* Low words that are equal are taken for equal registers.
HighsIgnored(m, rs, rt) ==
    /\ Is32Bit(m, rs) /\ Is32Bit(m, rt)
    /\ LowWord(m, rs) = LowWord(m, rt) /\ HighWord(m, rs) # HighWord(m, rt)

(* Mutant: both jumps are noted in the same place. *)
DifferSitesOnce(c, fall) ==
    IF fall = "cont" THEN <<Site(c.high, "jump"), Site(c.low, "jump")>>
    ELSE <<Site(c.high, "here"), Site(~c.low, "cont")>>
DifferSites(c, fall) ==
    IF fall = "cont" THEN <<Site(c.high, "jump"), Site(c.low, "jump2")>>
    ELSE <<Site(c.high, "here"), Site(~c.low, "cont")>>
EqualSites(c, fall) ==
    IF fall = "cont" THEN <<Site(c.high, "here"), Site(~c.low, "jump")>>
    ELSE <<Site(c.high, "cont"), Site(c.low, "cont2")>>
ByHalves(c, m, rs, rt, Sites(_, _)) ==
    Slip(Went(c.n, Way(Sites(c, m.fall), m.fall)), HighsIgnored(m, rs, rt))
BNE_Compare(m, rs, rt) ==
    IF ~BothConst(m, rs, rt) THEN ByHalves(PairCompared(m, rs, rt), m, rs, rt, DifferSites)
    ELSE IF Either64(m, rs, rt) THEN UnknownOpcode(m)
    ELSE Decided(m, m.lo[rs] # m.lo[rt])
BEQ_Compare(m, rs, rt) ==
    IF ~BothConst(m, rs, rt) THEN ByHalves(PairCompared(m, rt, rs), m, rs, rt, EqualSites)
    ELSE IF Either64(m, rs, rt) THEN UnknownOpcode(m)
    ELSE Decided(m, m.lo[rs] = m.lo[rt])

---------------------------------------------------------------------------
\* A register compared with zero.

High(m, rs) == Signed(HighWord(m, rs))
\* Both jumps of the last case are kept in the same link location.
BGTZ_Sites(high, low, fall) ==
    IF fall = "jump"
    THEN <<Site(high < 0, "cont"), Site(high > 0, "here"), Site(low = 0, "cont2")>>
    ELSE <<Site(high < 0, "here"), Site(high > 0, "jump"), Site(low # 0, "jump")>>
BGTZ_Compare(m, rs) ==
    IF IsConst(m, rs) THEN Decided(m, SignedWhole(Value(m, rs)) > 0)
    ELSE IF Is32Bit(m, rs) THEN Slip(Tested(m, Signed(LowWord(m, rs)) > 0), Unsigned32(m, rs))
    ELSE Slip(Went(m, Way(BGTZ_Sites(High(m, rs), LowWord(m, rs), m.fall), m.fall)),
              m.fall = "cont" /\ High(m, rs) > 0 /\ LowWord(m, rs) = 0)
BLEZ_Sites(high, low, fall) ==
    IF fall = "jump"
    THEN <<Site(high > 0, "cont"), Site(high < 0, "here"), Site(low # 0, "cont2")>>
    ELSE <<Site(high > 0, "here"), Site(high < 0, "jump"), Site(low = 0, "jump2")>>
BLEZ_Compare(m, rs) ==
    IF IsConst(m, rs) THEN Decided(m, SignedWhole(Value(m, rs)) <= 0)
    ELSE IF Is32Bit(m, rs) THEN Slip(Tested(m, Signed(LowWord(m, rs)) <= 0), Unsigned32(m, rs))
    ELSE Went(m, Way(BLEZ_Sites(High(m, rs), LowWord(m, rs), m.fall), m.fall))
\* The sign is in the high word, or in the low one of a register of 32 bits.
SignWord(m, rs) ==
    IF m.st[rs] \in {STATE_CONST_32, STATE_MAPPED_32_SIGN} THEN LowWord(m, rs) ELSE HighWord(m, rs)
BLTZ_Compare(m, rs) ==
    IF IsConst(m, rs) \/ MarkedZero(m, rs)
    THEN Decided(m, ~MarkedZero(m, rs) /\ Negative(SignWord(m, rs)))
    ELSE Tested(m, Negative(SignWord(m, rs)))
BGEZ_Compare(m, rs) ==
    IF m.st[rs] = STATE_CONST_64 THEN UnknownOpcode(m)
    ELSE IF IsConst(m, rs) \/ MarkedZero(m, rs) THEN
             Decided(m, MarkedZero(m, rs) \/ ~Negative(SignWord(m, rs)))
    ELSE Tested(m, ~Negative(SignWord(m, rs)))

COP1_BCF_Compare(m) == Tested(m, ~Condition(m.fpcr))
COP1_BCT_Compare(m) == Tested(m, Condition(m.fpcr))

---------------------------------------------------------------------------
\* The instruction in the slot: its name, the registers that it names and its
\* immediate.  CF and CT move to and from the control register.

OfRd == {"ADDU", "SLT", "MFLO", "DADDU"}
OfRt == {"ADDIU", "LUI", "DADDIU"}
OfNone == {"MULT"}
Instruction(op, rd, rs, rt, imm) == [op |-> op, rd |-> rd, rs |-> rs, rt |-> rt, imm |-> imm]

\* A move from the floating-point unit is not looked at.
DelaySlotEffectsCompare(i, r1, r2) ==
    \/ i.op \in OfRd /\ i.rd \in {r1, r2} \ {0}
    \/ i.op \in OfRt /\ i.rt \in {r1, r2} \ {0}
Writes(i) == (IF i.op \in OfRd THEN {i.rd} ELSE {}) \cup (IF i.op \in OfRt \cup {"CF"} THEN {i.rt} ELSE {})
Unnoticed(i, r1, r2) == Writes(i) \cap ({r1, r2} \ {0}) # {} /\ ~DelaySlotEffectsCompare(i, r1, r2)

Compile_COP1_CF(m, rt) == Slip(SetLow(Map_GPR_32bit(m, rt, TRUE, -1), rt, m.fpcr), rt = 0)
InHost(m, r) == IF IsUnknown(m, r) THEN Map_TempReg(m, AnyHost, r, FALSE) ELSE m
ControlSet(n, rt) == IF n.live THEN [n EXCEPT !.fpcr = LowWord(n, rt)] ELSE n
Compile_COP1_CT(m, rt) == ControlSet(InHost(m, rt), rt)
CompileOp(m, i) ==
    CASE i.op = "ADDIU" -> Compile_ADDIU(m, i.rt, i.rs, i.imm)
      [] i.op = "LUI" -> Compile_LUI(m, i.rt, i.imm)
      [] i.op = "DADDIU" -> Compile_DADDIU(m, i.rt, i.rs, i.imm)
      [] i.op = "ADDU" -> Compile_ADDU(m, i.rd, i.rs, i.rt)
      [] i.op = "SLT" -> Compile_SLT(m, i.rd, i.rs, i.rt)
      [] i.op = "DADDU" -> Compile_DADDU(m, i.rd, i.rs, i.rt)
      [] i.op = "MFLO" -> Compile_MFLO(m, i.rd)
      [] i.op = "MULT" -> Compile_MULT(m, i.rs, i.rt)
      [] i.op = "CF" -> Compile_COP1_CF(m, i.rt)
      [] i.op = "CT" -> Compile_COP1_CT(m, i.rt)
Execute(s, i) ==
    CASE i.op = "ADDIU" -> ADDIU(s, i.rt, i.rs, i.imm)
      [] i.op = "LUI" -> LUI(s, i.rt, i.imm)
      [] i.op = "DADDIU" -> DADDIU(s, i.rt, i.rs, i.imm)
      [] i.op = "ADDU" -> ADDU(s, i.rd, i.rs, i.rt)
      [] i.op = "SLT" -> SLT(s, i.rd, i.rs, i.rt)
      [] i.op = "DADDU" -> DADDU(s, i.rd, i.rs, i.rt)
      [] i.op = "MFLO" -> MFLO(s, i.rd)
      [] i.op = "MULT" -> MULT(s, i.rs, i.rt)
      [] i.op = "CF" -> Put(s, i.rt, Extended(s.fpcr))
      [] i.op = "CT" -> [s EXCEPT !.fpcr = s.gpr[i.rt].lo]

\* Between two instructions nothing is protected.
Unprotected(n) == [n EXCEPT !.prot = [x \in Host |-> FALSE], !.reg = NoReg]

\* A branch that ends a page leaves its slot to a block of its own, which knows
\* nothing of the registers and not all instructions.
InitilizeRegSet(m) ==
    [m EXCEPT !.st = [r \in Guest |-> IF r = 0 THEN STATE_CONST_32 ELSE STATE_UNKNOWN],
              !.lo = [r \in Guest |-> 0], !.hi = [r \in Guest |-> 0],
              !.mapped = [x \in Host |-> "none"], !.order = [x \in Host |-> 0],
              !.prot = [x \in Host |-> FALSE]]
SlotOps == {"ADDIU", "LUI", "ADDU", "SLT", "DADDU", "MFLO", "MULT", "CF", "CT"}
CompileAlone(m, i) ==
    WriteBackRegisters(Unprotected(IF i.op \in SlotOps THEN CompileOp(m, i) ELSE UnknownOpcode(m)))
CompileDelaySlot(m, i) == CompileAlone(InitilizeRegSet(m), i)
(* Mutant: the registers are forgotten at the end of a page, and not written. *)
SlotUnwritten(m, i, last) ==
    IF last THEN CompileDelaySlot(m, i) ELSE CompileOp(Unprotected(m), i)
Slot(m, i, last) ==
    IF last THEN CompileDelaySlot(WriteBackRegisters(m), i) ELSE CompileOp(Unprotected(m), i)

---------------------------------------------------------------------------
\* Branches: Compare(n) is what is emitted, b the conditions of the place:
\* whether the target lies behind, whether the page ends, and the slot.

Linked(m, r) == SetConst32(UnMap_GPR(m, r, FALSE), r, ReturnPC)
Falling(m, b) == [m EXCEPT !.fall = IF b.backward THEN "jump" ELSE "cont"]
BeforeCompare(m, b, effects) ==
    Falling(IF effects \/ b.last THEN m ELSE Unprotected(CompileOp(m, b.slot)), b)
AfterCompare(m, b, effects) == IF effects \/ b.last THEN Slot(m, b.slot, b.last) ELSE m
Compile_Branch(m, b, effects, Compare(_)) ==
    AfterCompare(Compare(BeforeCompare(m, b, effects)), b, effects)
\* One that is known not to be taken runs its slot all the same at the end of a page.
Slides(m, b) == b.last /\ m.fall = "cont"
AfterLikely(m, b) ==
    IF m.went = "jump" \/ Slides(m, b) THEN Slip(Slot(m, b.slot, b.last), Slides(m, b)) ELSE m
Compile_BranchLikely(m, b, Compare(_)) == AfterLikely(Compare([m EXCEPT !.fall = "jump"]), b)

TargetSet(n, r) ==
    IF n.live THEN [n EXCEPT !.target = LowWord(n, r), !.went = "jump"] ELSE n
Read(m, r) == TargetSet(InHost(m, r), r)
SlotThenRead(m, rs, b) == Read(Unprotected(CompileOp(m, b.slot)), rs)
Compile_J(m, b) == Decided(Slot(m, b.slot, b.last), TRUE)
Compile_JAL(m, b) == Decided(Slot(Linked(m, Link), b.slot, b.last), TRUE)
Compile_JR(m, rs, b) ==
    Slip(IF DelaySlotEffectsCompare(b.slot, rs, 0) \/ b.last \/ IsConst(m, rs)
         THEN Slot(Read(m, rs), b.slot, b.last) ELSE SlotThenRead(m, rs, b),
         Unnoticed(b.slot, rs, 0))
\* The return address is put into rd before rs is read, and into register 0.
AfterLink(m, rs, b) == IF b.last THEN Slot(Read(m, rs), b.slot, TRUE) ELSE SlotThenRead(m, rs, b)
Compile_JALR(m, rd, rs, b) ==
    Slip(AfterLink(Linked(IF DelaySlotEffectsCompare(b.slot, rs, 0) THEN UnknownOpcode(m) ELSE m, rd),
                   rs, b),
         rd \in {0, rs} \/ Unnoticed(b.slot, rs, 0))

---------------------------------------------------------------------------
\* The interpreter decides, runs the slot and then jumps.

Then(s, b) == Execute([s EXCEPT !.gpr[0] = [hi |-> 0, lo |-> 0]], b.slot)
Way2(taken) == IF taken THEN "jump" ELSE "cont"
Branch(s, b, taken) == [Then(s, b) EXCEPT !.went = Way2(taken)]
BranchLikely(s, b, taken) == IF taken THEN Branch(s, b, TRUE) ELSE [s EXCEPT !.went = "cont"]
BEQ(s, rs, rt) == s.gpr[rs] = s.gpr[rt]
BNE(s, rs, rt) == s.gpr[rs] # s.gpr[rt]
BLEZ(s, rs) == SignedWhole(s.gpr[rs]) <= 0
BGTZ(s, rs) == SignedWhole(s.gpr[rs]) > 0
BLTZ(s, rs) == SignedWhole(s.gpr[rs]) < 0
BGEZ(s, rs) == SignedWhole(s.gpr[rs]) >= 0
J(s, b) == Branch(s, b, TRUE)
JAL(s, b) == Branch(Put(s, Link, Extended(ReturnPC)), b, TRUE)
JR(s, rs, b) == Branch([s EXCEPT !.target = s.gpr[rs].lo], b, TRUE)
JALR(s, rd, rs, b) ==
    Branch([Put(s, rd, Extended(ReturnPC)) EXCEPT !.target = s.gpr[rs].lo], b, TRUE)
=============================================================================
