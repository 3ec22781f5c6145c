------------------------------ MODULE RegCache ------------------------------
(***************************************************************************)
(* registers.c: the cache of guest registers that the recompiler of the    *)
(* main processor keeps while it emits a block.                            *)
(*                                                                         *)
(* A machine m holds both times at once.  What the compiler knows:  st, lo *)
(* and hi of each guest register (the words of a constant, or the x86      *)
(* registers of a mapped one, in one union as in the program), mapped,     *)
(* order and prot of each x86 register.  What the emitted code has done:   *)
(* x, the x86 registers, gpr, HI and LO in memory.  Code that is emitted   *)
(* under a jump is emitted always and runs only when m.live; reg is the    *)
(* register the last function returned; slip tells that a case was met in  *)
(* which the code is known not to do what the instruction says.            *)
(***************************************************************************)
EXTENDS Words, Sequences

CONSTANTS
    Guest,          \* numbers of guest registers, with 0
    FramePointer    \* register 30, the state of which a wrong index reads

ASSUME GuestAssumption == Guest \subseteq Nat /\ 0 \in Guest /\ FramePointer \in Guest \ {0}

EAX == 1
ECX == 2
EDX == 3
EBX == 4
ESI == 7
EDI == 8
Host == {EAX, ECX, EDX, EBX, ESI, EDI}
AnyHost == 0
NoReg == -1

STATE_UNKNOWN == "unknown"
STATE_CONST_32 == "const 32"
STATE_CONST_64 == "const 64"
STATE_MAPPED_32_SIGN == "mapped 32 sign"
STATE_MAPPED_32_ZERO == "mapped 32 zero"
STATE_MAPPED_64 == "mapped 64"
RegisterStates == {STATE_UNKNOWN, STATE_CONST_32, STATE_CONST_64,
                   STATE_MAPPED_32_SIGN, STATE_MAPPED_32_ZERO, STATE_MAPPED_64}

IsUnknown(m, r) == m.st[r] = STATE_UNKNOWN
IsKnown(m, r) == ~IsUnknown(m, r)
IsConst(m, r) == m.st[r] \in {STATE_CONST_32, STATE_CONST_64}
IsMapped(m, r) == IsKnown(m, r) /\ ~IsConst(m, r)
Is64Bit(m, r) == m.st[r] \in {STATE_CONST_64, STATE_MAPPED_64}
Is32Bit(m, r) == IsKnown(m, r) /\ ~Is64Bit(m, r)
IsSigned(m, r) == m.st[r] \in {STATE_CONST_32, STATE_MAPPED_32_SIGN}

Fault(m, why) == [m EXCEPT !.fault = why]
Slip(m, b) == [m EXCEPT !.slip = @ \/ b]

---------------------------------------------------------------------------
\* What emitted code does, when it runs.

SetX86(m, x, w) ==
    IF x \notin Host THEN Fault(m, "wild register")
    ELSE IF m.live THEN [m EXCEPT !.x[x] = w] ELSE m
SetMemory(m, r, d) == IF m.live THEN [m EXCEPT !.gpr[r] = d] ELSE m
\* Code F(m) under a jump that is taken unless b.
Under(m, b, F(_)) == [F([m EXCEPT !.live = @ /\ b]) EXCEPT !.live = m.live]

\* The words of a guest register as code that reads it now finds them.
LowWord(m, r) ==
    IF IsUnknown(m, r) THEN m.gpr[r].lo
    ELSE IF IsConst(m, r) THEN m.lo[r] ELSE m.x[m.lo[r]]
HighWord(m, r) ==
    CASE IsUnknown(m, r) -> m.gpr[r].hi
      [] m.st[r] = STATE_CONST_64 -> m.hi[r]
      [] m.st[r] = STATE_MAPPED_64 -> m.x[m.hi[r]]
      [] m.st[r] = STATE_MAPPED_32_ZERO -> 0
      [] OTHER -> SignOf(LowWord(m, r))
\* What a guest register holds.
Value(m, r) == [hi |-> HighWord(m, r), lo |-> LowWord(m, r)]

---------------------------------------------------------------------------
\* Taking x86 registers away.

Release(m, X) ==
    [m EXCEPT !.mapped = [x \in Host |-> IF x \in X THEN "none" ELSE @[x]],
              !.prot = [x \in Host |-> x \notin X /\ @[x]]]
Forget(m, r) == [m EXCEPT !.st[r] = STATE_UNKNOWN]
HostsOf(m, r) ==
    IF ~IsMapped(m, r) THEN {}
    ELSE IF Is64Bit(m, r) THEN {m.lo[r], m.hi[r]} ELSE {m.lo[r]}

\* A signed register is stored as two words, the second of which is made in its place.
SignSpread(m, r) ==
    IF m.st[r] = STATE_MAPPED_32_SIGN THEN SetX86(m, m.lo[r], SignOf(m.x[m.lo[r]])) ELSE m
UnMap_GPR(m, r, writeBack) ==
    IF r = 0 \/ IsUnknown(m, r) THEN m
    ELSE Forget(Release(IF writeBack THEN SignSpread(SetMemory(m, r, Value(m, r)), r) ELSE m,
                        HostsOf(m, r)),
                r)

\* The first guest register that x is mapped to, or none.
Owners(m, x) ==
    {r \in Guest \ {0} : IsMapped(m, r) /\ (m.lo[r] = x \/ (Is64Bit(m, r) /\ m.hi[r] = x))}
UnMapsX86reg(m, x) ==
    ~m.prot[x] /\ (m.mapped[x] \in {"none", "temp"} \/ Owners(m, x) # {})
UnMap_X86reg(m, x) ==
    IF ~UnMapsX86reg(m, x) THEN m
    ELSE IF m.mapped[x] = "gpr" THEN UnMap_GPR(m, Min(Owners(m, x)), TRUE)
    ELSE [m EXCEPT !.mapped[x] = "none"]

Returning(m, x) == [m EXCEPT !.reg = x]

\* A free register; else one of a temporary that is not in use; else the one
\* mapped longest ago that may be taken.
Unused(m) == {x \in Host : m.mapped[x] = "none" /\ ~m.prot[x]}
FreeOrder == <<ESI, EDI, EBX, EDX, ECX, EAX>>
IdleTemps(m) == {x \in Host : m.mapped[x] = "temp" /\ ~m.prot[x]}
Taken(m, x) == Returning([m EXCEPT !.mapped[x] = "none"], x)
UnMap_TempReg(m) ==
    IF IdleTemps(m) = {} THEN Returning(m, NoReg) ELSE Taken(m, Min(IdleTemps(m)))
Older(m, x, y) == m.order[x] > m.order[y] \/ (m.order[x] = m.order[y] /\ x < y)
Oldest(m, X) == CHOOSE x \in X : \A y \in X \ {x} : Older(m, x, y)
Evicted(m, x) == Returning(UnMap_X86reg(m, x), x)
EvictOldest(m, X) ==
    IF X = {} THEN Returning(Fault(m, "out of registers"), NoReg) ELSE Evicted(m, Oldest(m, X))
FreeX86Reg(m) ==
    IF Unused(m) # {}
    THEN Returning(m, FreeOrder[Min({i \in DOMAIN FreeOrder : FreeOrder[i] \in Unused(m)})])
    ELSE IF IdleTemps(m) # {} THEN UnMap_TempReg(m)
    ELSE EvictOldest(m, {x \in Host : m.order[x] > 0 /\ UnMapsX86reg(m, x)})

---------------------------------------------------------------------------
\* Giving x86 registers to guest registers and to temporaries.

Protect(m, X) == [m EXCEPT !.prot = [x \in Host |-> x \in X \/ @[x]]]
ProtectGPR(m, r) == Protect(m, HostsOf(m, r))
(* Mutant: what was protected for an address stays protected. *)
StillProtected(m, r) == m
UnProtectGPR(m, r) == [m EXCEPT !.prot = [x \in Host |-> x \notin HostsOf(m, r) /\ @[x]]]

\* The registers X become the youngest.
Youngest(m, X) ==
    [m EXCEPT !.order = [x \in Host |-> IF x \in X THEN 1
                                        ELSE IF @[x] > 0 THEN @[x] + 1 ELSE 0]]

\* The guest register to load is none when negative; register 0 is a zero.
LoadLow(m, x, r) == IF r < 0 THEN m ELSE SetX86(m, x, LowWord(m, r))

\* The x86 register of r, or a new one; that of the high half is given up.
OneHost(m, r) ==
    IF ~IsMapped(m, r) THEN FreeX86Reg(m)
    ELSE Returning(IF Is64Bit(m, r) THEN [Release(m, {m.hi[r]}) EXCEPT !.order[m.hi[r]] = 0] ELSE m,
                   m.lo[r])
\* m.reg becomes the x86 register of r.
Hosted32(m, r, signed, load) ==
    IF m.reg = NoReg THEN m
    ELSE [LoadLow(Youngest(m, {m.reg}), m.reg, load) EXCEPT
            !.mapped[m.reg] = "gpr", !.prot[m.reg] = TRUE, !.lo[r] = m.reg,
            !.hi[r] = IF m.st[r] = STATE_MAPPED_64 THEN 0 ELSE @,
            !.st[r] = IF signed THEN STATE_MAPPED_32_SIGN ELSE STATE_MAPPED_32_ZERO]
Map_GPR_32bit(m, r, signed, load) ==
    IF r = 0 THEN m ELSE Hosted32(OneHost(m, r), r, signed, load)

\* The high half of a negative constant of 32 bits is loaded only when the
\* word in front of the values, the state of register 30, is not zero.
HighLost(m, r) == m.st[r] = STATE_CONST_32 /\ IsUnknown(m, FramePointer)
Load64(m, hi, lo, r) ==
    IF r < 0 THEN m
    ELSE Slip(SetX86(SetX86(m, hi, IF HighLost(m, r) THEN 0 ELSE HighWord(m, r)), lo, LowWord(m, r)),
              HighLost(m, r) /\ Negative(m.lo[r]))

HighHost(m, r) ==
    IF m.st[r] = STATE_MAPPED_64 THEN Returning(m, m.hi[r]) ELSE FreeX86Reg(m)
LowHost(m, r) ==
    IF IsMapped(m, r) THEN Returning(m, m.lo[r]) ELSE FreeX86Reg(Protect(m, {m.reg}))
\* hi and m.reg become the x86 registers of r.
Hosted64(m, r, hi, load) ==
    IF NoReg \in {hi, m.reg} THEN m
    ELSE [Load64(Youngest(Protect(m, {hi, m.reg}), {hi, m.reg}), hi, m.reg, load) EXCEPT
            !.mapped[hi] = "gpr", !.mapped[m.reg] = "gpr",
            !.hi[r] = hi, !.lo[r] = m.reg, !.st[r] = STATE_MAPPED_64]
BesidesHigh(m, r, load) == Hosted64(LowHost(m, r), r, m.reg, load)
Map_GPR_64bit(m, r, load) ==
    IF r = 0 THEN m ELSE BesidesHigh(HighHost(ProtectGPR(m, r), r), r, load)

\* A temporary takes x from the guest register r that holds it: r moves.
(* Mutant: the value moves, and the guest register is not told. *)
MovedUnnoted(m, r, x, to) ==
    [SetX86(m, to, m.x[x]) EXCEPT !.mapped[to] = "gpr", !.order[to] = m.order[x]]
Moved(m, r, x, to) ==
    [SetX86(m, to, m.x[x]) EXCEPT
        !.mapped[to] = "gpr", !.order[to] = m.order[x],
        !.lo[r] = IF @ = x THEN to ELSE @, !.hi[r] = IF Is64Bit(m, r) /\ @ = x THEN to ELSE @]
MovedOff(f, m, r, x) == IF f.reg = NoReg THEN UnMap_GPR(m, r, TRUE) ELSE Moved(f, r, x, f.reg)
VacatedFor(f, m, x) == IF Owners(f, x) = {} THEN f ELSE MovedOff(f, m, Min(Owners(f, x)), x)
Vacated(m, x) == VacatedFor(FreeX86Reg(Protect(m, {x})), m, x)
LoadWord(m, x, r, high) ==
    IF r < 0 THEN m ELSE SetX86(m, x, IF high THEN HighWord(m, r) ELSE LowWord(m, r))
TempHost(m, want) ==
    IF want = AnyHost /\ IdleTemps(m) # {} THEN Returning(m, Max(IdleTemps(m)))
    ELSE IF want = AnyHost THEN FreeX86Reg(m)
    ELSE IF m.mapped[want] # "gpr" THEN Returning(m, want)
    ELSE IF m.prot[want] THEN Returning(m, NoReg)
    ELSE Returning(Vacated(m, want), want)
Temporary(m, load, high) ==
    IF m.reg = NoReg THEN m
    ELSE Youngest([LoadWord(m, m.reg, load, high) EXCEPT
                     !.mapped[m.reg] = "temp", !.prot[m.reg] = TRUE], {m.reg})
Map_TempReg(m, want, load, high) == Temporary(TempHost(m, want), load, high)

---------------------------------------------------------------------------
\* The end of a block: everything goes back to memory.  A constant of 64 bits
\* whose low word is all ones gets its high word from the register of ones.
OnesStored(m, r) == m.st[r] = STATE_CONST_64 /\ m.lo[r] = Ones /\ m.hi[r] # 0
UnMapThree(m, x, y, z) == UnMap_X86reg(UnMap_X86reg(UnMap_X86reg(m, x), y), z)
UnMapAll(m) ==
    UnMapThree(UnMapThree([m EXCEPT !.prot = [x \in Host |-> FALSE]], EAX, ECX, EDX), EBX, ESI, EDI)
WordsStored(m, r) == IF OnesStored(m, r) THEN [hi |-> Ones, lo |-> Ones] ELSE Value(m, r)
WriteConstants(m, R) ==
    [m EXCEPT !.slip = @ \/ \E r \in R : OnesStored(m, r) /\ m.hi[r] # Ones,
              !.gpr = [r \in Guest |-> IF r \in R THEN WordsStored(m, r) ELSE @[r]],
              !.st = [r \in Guest |-> IF r \in R THEN STATE_UNKNOWN ELSE @[r]]]
Constants(m) == {r \in Guest \ {0} : IsConst(m, r)}
(* Mutant: constants of 32 bits are not written. *)
WriteBackWideOnly(m) ==
    WriteConstants(UnMapAll(m), {r \in Constants(m) : m.st[r] = STATE_CONST_64})
WriteBackRegisters(m) == WriteConstants(UnMapAll(m), Constants(m))

---------------------------------------------------------------------------
\* What the functions above keep: no x86 register belongs to two halves of
\* guest registers, and the registers marked as mapped are those that belong.
NoSharedRegister(m) ==
    \A r, s \in Guest : r # s => HostsOf(m, r) \cap HostsOf(m, s) = {}
HalvesApart(m) == \A r \in Guest : m.st[r] = STATE_MAPPED_64 => m.lo[r] # m.hi[r]
MarkedMapped(m) == {x \in Host : m.mapped[x] = "gpr"} = UNION {HostsOf(m, r) : r \in Guest}
=============================================================================
