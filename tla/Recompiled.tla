----------------------------- MODULE Recompiled -----------------------------
(***************************************************************************)
(* A block of recompiled code against the interpreter: the machine m runs  *)
(* what recompiler_ops.c emits for each instruction (GenerateX86Code of    *)
(* recompiler_cpu.c), s holds the registers as interpreter_ops.c leaves    *)
(* them.  After a case in which the code is known to slip (m.slip, set in  *)
(* RegCache and Compile) or that it does not compile, nothing is compared. *)
(***************************************************************************)
EXTENDS Branches, Memory

CONSTANTS
    Named,          \* the guest registers that instructions name, but 0: a sequence
    Values,         \* what those registers may hold at first
    Crowds,         \* other guest registers mapped at first, before and after those
    Immediate,
    Data,           \* the words of memory at first
    Slots,          \* instructions in delay slots
    Groups,         \* the groups of instructions that a block is made of
    MaxOpcodes      \* bound: instructions in a block

ASSUME RecompiledAssumption ==
    /\ Named \in Seq(Guest \ {0})
    /\ Crowds \subseteq [before : Seq(Guest \ {0}), after : Seq(Guest \ {0})]
    /\ Immediate \subseteq Nat
    /\ Slots \subseteq [op : OfRd \cup OfRt \cup OfNone \cup {"CF", "CT"},
                       rd : Guest, rs : Guest, rt : Guest, imm : Nat]

Operands == {0} \cup Range(Named)

VARIABLES m, s, count
vars == <<m, s, count>>

Junk == [hi |-> 1, lo |-> 2]
Other == [hi |-> 2, lo |-> 1]
Zero == [hi |-> 0, lo |-> 0]
Blank ==
    [st |-> [r \in Guest |-> IF r = 0 THEN STATE_CONST_32 ELSE STATE_UNKNOWN],
     lo |-> [r \in Guest |-> 0], hi |-> [r \in Guest |-> 0],
     mapped |-> [x \in Host |-> "none"], order |-> [x \in Host |-> 0],
     prot |-> [x \in Host |-> FALSE], x |-> [x \in Host |-> 3],
     gpr |-> [r \in Guest |-> IF r = 0 THEN Zero ELSE Junk], HI |-> Junk, LO |-> Junk,
     mem |-> Data, LLBit |-> 0, missed |-> NoReg, went |-> "on", target |-> 0, fpcr |-> 2, fall |-> "cont",
     live |-> TRUE, slip |-> FALSE, fault |-> "none", reg |-> NoReg]

\* The guest register h.r, nothing of which is kept, comes to hold h.d in the way h.st.
Held(r, st, d) == [r |-> r, st |-> st, d |-> d]
Narrowly(n, h) == SetLow(Map_GPR_32bit(n, h.r, h.st = STATE_MAPPED_32_SIGN, -1), h.r, h.d.lo)
Mapping(n, h) == IF h.st = STATE_MAPPED_64 THEN SetBoth(Map_GPR_64bit(n, h.r, -1), h.r, h.d) ELSE Narrowly(n, h)
Holding(n, h) ==
    Unprotected(IF h.st = STATE_UNKNOWN THEN [n EXCEPT !.gpr[h.r] = h.d]
                ELSE IF h.st = STATE_CONST_32 THEN SetConst32(n, h.r, h.d.lo)
                ELSE IF h.st = STATE_CONST_64 THEN SetConst(n, h.r, h.d)
                ELSE Mapping(n, h))
\* One after the other.
Laid(n, list) ==
    LET laid[i \in 0 .. Len(list)] ==
            IF i = 0 THEN n ELSE Holding(DropMapped(laid[i - 1], list[i].r), list[i])
    IN laid[Len(list)]
States(d) ==
    {STATE_UNKNOWN, STATE_MAPPED_64}
      \cup (IF d = Extended(d.lo) THEN {STATE_CONST_32, STATE_MAPPED_32_SIGN} ELSE {STATE_CONST_64})
      \cup (IF d.hi = 0 THEN {STATE_MAPPED_32_ZERO} ELSE {})

\* Other guests, mapped before the operands and after them.
Others(guests) == [i \in DOMAIN guests |-> Held(guests[i], STATE_MAPPED_64, Other)]
Links == IF "memory" \in Groups THEN {0, 1} ELSE {0}
Layouts ==
    UNION {{[i \in DOMAIN Named |-> Held(Named[i], st[i], d[i])] :
                st \in {f \in [DOMAIN Named -> RegisterStates] : \A i \in DOMAIN Named : f[i] \in States(d[i])}} :
           d \in [DOMAIN Named -> Values]}
Init ==
    /\ \E crowd \in Crowds, layout \in Layouts, link \in Links :
          m = Laid([Blank EXCEPT !.LLBit = link], Others(crowd.before) \o layout \o Others(crowd.after))
    /\ s = [gpr |-> [r \in Guest |-> IF r = 0 THEN Zero ELSE Value(m, r)], HI |-> m.HI, LO |-> m.LO,
            mem |-> m.mem, LLBit |-> m.LLBit, missed |-> NoReg, went |-> m.went, target |-> m.target, fpcr |-> m.fpcr]
    /\ count = 0

\* One instruction: compiled and run in n, interpreted in t.
Step(n, t) ==
    /\ m' = Unprotected(n)
    /\ s' = [t EXCEPT !.gpr[0] = Zero]
    /\ count' = count + 1
Compiles(group) == group \in Groups /\ count < MaxOpcodes /\ m.missed = NoReg /\ ~m.slip /\ m.fault = "none"

Targets == Operands \cup {FramePointer}
OfImmediate(C(_, _, _, _), F(_, _, _, _)) ==
    \E rt \in Targets, rs \in Operands, imm \in Immediate :
        Step(C(m, rt, rs, imm), F(s, rt, rs, imm))
OfPair(C(_, _, _, _), F(_, _, _, _)) ==
    \E rd \in Targets, rs, rt \in Operands : Step(C(m, rd, rs, rt), F(s, rd, rs, rt))
OfFactors(C(_, _, _), F(_, _, _)) ==
    \E rs, rt \in Operands : Step(C(m, rs, rt), F(s, rs, rt))

WithImmediate ==
    /\ Compiles("compute")
    /\ \/ OfImmediate(Compile_ADDI, ADDI)
       \/ OfImmediate(Compile_ADDIU, ADDIU)
       \/ OfImmediate(Compile_DADDIU, DADDIU)
       \/ OfImmediate(Compile_SLTI, SLTI)
       \/ OfImmediate(Compile_SLTIU, SLTIU)
       \/ OfImmediate(Compile_ANDI, ANDI)
       \/ OfImmediate(Compile_ORI, ORI)
       \/ OfImmediate(Compile_XORI, XORI)
       \/ \E rt \in Targets, imm \in Immediate : Step(Compile_LUI(m, rt, imm), LUI(s, rt, imm))
Shift ==
    /\ Compiles("compute")
    /\ \/ OfImmediate(Compile_SLL, SLL)
       \/ OfImmediate(Compile_SRL, SRL)
       \/ OfImmediate(Compile_SRA, SRA)
       \/ OfImmediate(Compile_DSLL, DSLL)
       \/ OfImmediate(Compile_DSRL, DSRL)
       \/ OfImmediate(Compile_DSRA, DSRA)
       \/ OfImmediate(Compile_DSLL32, DSLL32)
       \/ OfImmediate(Compile_DSRL32, DSRL32)
       \/ OfImmediate(Compile_DSRA32, DSRA32)
ShiftVariable ==
    /\ Compiles("compute")
    /\ \/ OfPair(Compile_SLLV, SLLV)
       \/ OfPair(Compile_SRLV, SRLV)
       \/ OfPair(Compile_SRAV, SRAV)
       \/ OfPair(Compile_DSLLV, DSLLV)
       \/ OfPair(Compile_DSRLV, DSRLV)
       \/ OfPair(Compile_DSRAV, DSRAV)
Combination ==
    /\ Compiles("compute")
    /\ \/ OfPair(Compile_ADD, ADD)
       \/ OfPair(Compile_ADDU, ADDU)
       \/ OfPair(Compile_SUB, SUB)
       \/ OfPair(Compile_SUBU, SUBU)
       \/ OfPair(Compile_AND, AND)
       \/ OfPair(Compile_OR, OR)
       \/ OfPair(Compile_XOR, XOR)
       \/ OfPair(Compile_NOR, NOR)
       \/ OfPair(Compile_SLT, SLT)
       \/ OfPair(Compile_SLTU, SLTU)
       \/ OfPair(Compile_DADD, DADD)
       \/ OfPair(Compile_DADDU, DADDU)
       \/ OfPair(Compile_DSUB, DSUB)
       \/ OfPair(Compile_DSUBU, DSUBU)
Multiplication ==
    /\ Compiles("compute")
    /\ \/ OfFactors(Compile_MULT, MULT)
       \/ OfFactors(Compile_MULTU, MULTU)
       \/ OfFactors(Compile_DMULT, DMULT)
       \/ OfFactors(Compile_DMULTU, DMULTU)
Division ==
    /\ Compiles("compute")
    /\ \/ OfFactors(Compile_DDIV, DDIV)
       \/ OfFactors(Compile_DDIVU, DDIVU)
       \/ \E rs, rt \in Operands : /\ ~DividesBadly(s, rs, rt)
                                  /\ \/ Step(Compile_DIV(m, rs, rt), DIV(s, rs, rt))
                                     \/ Step(Compile_DIVU(m, rs, rt), DIVU(s, rs, rt))
MoveHiLo ==
    /\ Compiles("compute")
    /\ \E r \in Targets : \/ Step(Compile_MFHI(m, r), MFHI(s, r))
                          \/ Step(Compile_MFLO(m, r), MFLO(s, r))
                          \/ Step(Compile_MTHI(m, r), MTHI(s, r))
                          \/ Step(Compile_MTLO(m, r), MTLO(s, r))

\* Loads and stores, at addresses that are aligned as the interpreter demands.
OfMemory(n, C(_, _, _, _), F(_, _, _, _)) ==
    \E rt \in Targets, base \in Operands, offset \in Immediate :
        /\ EffectiveAddress(s, base, offset) % n = 0
        /\ Step(C(m, rt, base, offset), F(s, rt, base, offset))
Load ==
    /\ Compiles("memory")
    /\ \/ OfMemory(1, Compile_LB, LB)
       \/ OfMemory(1, Compile_LBU, LBU)
       \/ OfMemory(2, Compile_LH, LH)
       \/ OfMemory(2, Compile_LHU, LHU)
       \/ OfMemory(4, Compile_LW, LW)
       \/ OfMemory(4, Compile_LWU, LWU)
       \/ OfMemory(4, Compile_LL, LL)
       \/ OfMemory(8, Compile_LD, LD)
       \/ OfMemory(1, Compile_LWL, LWL)
       \/ OfMemory(1, Compile_LWR, LWR)
       \/ OfMemory(1, Compile_LDL, LDL)
       \/ OfMemory(1, Compile_LDR, LDR)
Store ==
    /\ Compiles("memory")
    /\ \/ OfMemory(1, Compile_SB, SB)
       \/ OfMemory(2, Compile_SH, SH)
       \/ OfMemory(4, Compile_SW, SW)
       \/ OfMemory(4, Compile_SC, SC)
       \/ OfMemory(8, Compile_SD, SD)
       \/ OfMemory(1, Compile_SWL, SWL)
       \/ OfMemory(1, Compile_SWR, SWR)
       \/ OfMemory(1, Compile_SDL, SDL)
       \/ OfMemory(1, Compile_SDR, SDR)

\* A branch and its slot; what follows knows of the registers what the way
\* taken knows of them.
Places == [backward : BOOLEAN, last : BOOLEAN, slot : Slots]
Compare2(C(_, _, _), b, rs, rt, taken) ==
    /\ \/ Step(Slip(Compile_Branch(m, b, DelaySlotEffectsCompare(b.slot, rs, rt), LAMBDA n : C(n, rs, rt)),
                    Unnoticed(b.slot, rs, rt)),
               Branch(s, b, taken))
       \/ Step(Compile_BranchLikely(m, b, LAMBDA n : C(n, rs, rt)), BranchLikely(s, b, taken))
BranchOnPair ==
    /\ Compiles("branch")
    /\ \E b \in Places, rs, rt \in Operands :
          \/ Compare2(BEQ_Compare, b, rs, rt, BEQ(s, rs, rt))
          \/ Compare2(BNE_Compare, b, rs, rt, BNE(s, rs, rt))
BranchOnSign ==
    /\ Compiles("branch")
    /\ \E b \in Places, rs \in Operands :
          \/ Compare2(LAMBDA n, r, z : BGTZ_Compare(n, r), b, rs, 0, BGTZ(s, rs))
          \/ Compare2(LAMBDA n, r, z : BLEZ_Compare(n, r), b, rs, 0, BLEZ(s, rs))
          \/ Compare2(LAMBDA n, r, z : BLTZ_Compare(n, r), b, rs, 0, BLTZ(s, rs))
          \/ Compare2(LAMBDA n, r, z : BGEZ_Compare(n, r), b, rs, 0, BGEZ(s, rs))
\* With the return address, which is put into its register before the comparison.
BranchAndLink ==
    /\ Compiles("branch")
    /\ \E b \in Places, rs \in Operands :
          LET linking(C(_, _)) ==
                  Slip(Compile_Branch(Linked(m, Link), b, DelaySlotEffectsCompare(b.slot, rs, 0), LAMBDA n : C(n, rs)),
                       Unnoticed(b.slot, rs, 0) \/ rs = Link)
              t == Put(s, Link, Extended(ReturnPC))
          IN \/ Step(linking(BLTZ_Compare), Branch(t, b, BLTZ(s, rs)))
             \/ Step(linking(BGEZ_Compare), Branch(t, b, BGEZ(s, rs)))
BranchOnFloat ==
    /\ Compiles("branch")
    /\ \E b \in Places :
          LET odd == ~b.last /\ b.slot.op = "CT"
          IN \/ Step(Slip(Compile_Branch(m, b, FALSE, COP1_BCF_Compare), odd), Branch(s, b, ~Condition(s.fpcr)))
             \/ Step(Slip(Compile_Branch(m, b, FALSE, COP1_BCT_Compare), odd), Branch(s, b, Condition(s.fpcr)))
             \/ Step(Compile_BranchLikely(m, b, COP1_BCF_Compare), BranchLikely(s, b, ~Condition(s.fpcr)))
             \/ Step(Compile_BranchLikely(m, b, COP1_BCT_Compare), BranchLikely(s, b, Condition(s.fpcr)))
\* Jumps out of the block, but for J: everything is written back.
Left(n) == InitilizeRegSet(WriteBackRegisters(n))
Jump ==
    /\ Compiles("branch")
    /\ \E b \in Places :
          \/ Step(Compile_J(m, b), J(s, b))
          \/ Step(Left(Compile_JAL(m, b)), JAL(s, b))
          \/ \E rs \in Operands : \/ Step(Left(Compile_JR(m, rs, b)), JR(s, rs, b))
                                 \/ \E rd \in Targets : Step(Left(Compile_JALR(m, rd, rs, b)), JALR(s, rd, rs, b))

Next ==
    \/ WithImmediate \/ Shift \/ ShiftVariable \/ Combination
    \/ Multiplication \/ Division \/ MoveHiLo \/ Load \/ Store
    \/ BranchOnPair \/ BranchOnSign \/ BranchAndLink \/ BranchOnFloat \/ Jump
Spec == Init /\ [][Next]_vars

---------------------------------------------------------------------------
Comparable == ~m.slip /\ m.fault = "none"

TypeOK ==
    /\ m.st \in [Guest -> RegisterStates]
    /\ m.x \in [Host -> Word] /\ m.gpr \in [Guest -> DoubleWord]
    /\ s.gpr \in [Guest -> DoubleWord] /\ {s.HI, s.LO} \subseteq DoubleWord

\* Every instruction leaves what the interpreter leaves, for each way in which its
\* operands are known, with operands that are the same register, and however the
\* x86 registers are taken: the guest registers, wherever the cache keeps them;
\* HI and LO, which recompiled code keeps in memory; the memory and the link of
\* LL and SC.  A load leaves the block for a miss exactly when the interpreter
\* takes one, before it has changed anything.  All are words.
StateAgrees ==
    /\ TypeOK
    /\ Comparable =>
           /\ \A r \in Guest : Value(m, r) = s.gpr[r]
           /\ m.HI = s.HI /\ m.LO = s.LO
           /\ m.mem = s.mem /\ m.LLBit = s.LLBit /\ m.missed = s.missed

\* A branch goes the way the interpreter goes, and a jump to where it jumps,
\* whatever the slot does and on whichever side of it the comparison is made.
BranchesAgree == Comparable => m.went = s.went /\ m.target = s.target /\ m.fpcr = s.fpcr

\* Whenever the block ends, its write-back leaves in memory what the
\* interpreter computes, register 0 included.
MemoryAgrees ==
    LET w == WriteBackRegisters(m)
    IN Comparable /\ ~w.slip => \A r \in Guest : w.gpr[r] = s.gpr[r]

\* No x86 register belongs to two halves of guest registers, and those that
\* belong to one are marked and have an age, without which they are never
\* evicted.
CacheSound ==
    ~m.slip => /\ NoSharedRegister(m) /\ HalvesApart(m) /\ MarkedMapped(m)
               /\ \A x \in Host : m.mapped[x] = "gpr" => m.order[x] > 0

\* However many registers the instructions before it have taken, an instruction
\* finds those it needs, and its code never names one that it was not given.
RegistersSuffice == ~m.slip => m.fault = "none"
=============================================================================
