--------------------------- MODULE RecompiledProof ---------------------------
(***************************************************************************)
(* What holds of the register cache and of the recompiler's code paths for *)
(* every number of guest registers laid, every value, every slot and every *)
(* sequence of instructions.  The contract of a piece of the recompiler is *)
(*                                                                         *)
(*   Does(m, n, R)   from a sound cache m it leaves a sound cache n, in    *)
(*                   which every guest register outside R has the value it *)
(*                   had, with what was protected where it was, and no     *)
(*                   request for an x86 register has failed;               *)
(*   Ends(m, n, R)   the same of what need not keep protected registers    *)
(*                   in their places, as a whole instruction.              *)
(*                                                                         *)
(* Its hypothesis is that there is room: at most so many of the six x86    *)
(* registers are protected.  A whole instruction starts with none.         *)
(*                                                                         *)
(* It is proved of the functions of registers.c first, then of each        *)
(* Compile_ function from those it calls, then of branches with their      *)
(* slots and of jumps, then of the actions.  The last part is about what   *)
(* the write-back leaves in memory.                                        *)
(***************************************************************************)
EXTENDS Recompiled, Recursion, FiniteSetTheorems

-----------------------------------------------------------------------------
(* What a machine is made of, whatever the words are.                      *)
Fields ==
    {"st", "lo", "hi", "mapped", "order", "prot", "x", "gpr", "HI", "LO", "mem", "LLBit", "missed",
     "went", "target", "fpcr", "fall", "live", "slip", "fault", "reg"}
Marks == {"none", "temp", "gpr"}
Shape(n) ==
    /\ DOMAIN n = Fields
    /\ n.st \in [Guest -> RegisterStates] /\ DOMAIN n.lo = Guest /\ DOMAIN n.hi = Guest
    /\ n.mapped \in [Host -> Marks] /\ n.order \in [Host -> Nat] /\ n.prot \in [Host -> BOOLEAN]
    /\ DOMAIN n.x = Host /\ DOMAIN n.gpr = Guest
    /\ n.live \in BOOLEAN /\ n.slip \in BOOLEAN

(* The cache is sound: a mapped guest register has registers of its own,   *)
(* which are marked and have an age; a marked register has an owner.       *)
Homes(n) ==
    \A r \in Guest : /\ IsMapped(n, r) => n.lo[r] \in Host
                     /\ n.st[r] = STATE_MAPPED_64 => n.hi[r] \in Host /\ n.hi[r] # n.lo[r]
Apart(n) ==
    \A r, q \in Guest, y \in Host : y \in HostsOf(n, r) /\ y \in HostsOf(n, q) => r = q
Marked(n) ==
    /\ \A r \in Guest, y \in Host : y \in HostsOf(n, r) => n.mapped[y] = "gpr"
    /\ \A y \in Host : n.mapped[y] = "gpr" => n.order[y] > 0 /\ \E r \in Guest : y \in HostsOf(n, r)
Sound(n) == Shape(n) /\ IsConst(n, 0) /\ Homes(n) /\ Apart(n) /\ Marked(n)

(* What is protected, and how many registers are left for the rest.        *)
Prots(n) == {y \in Host : n.prot[y]}
Room(n, k) == Cardinality(Prots(n)) + k <= 6
Pinned(n, r) == IsMapped(n, r) /\ HostsOf(n, r) \subseteq Prots(n)
Same(n, o, r) == o.st[r] = n.st[r] /\ o.lo[r] = n.lo[r] /\ o.hi[r] = n.hi[r]

(* What work on the guest registers R, that led from n to o, leaves alone: *)
(* what the others hold, register 0 in memory, and the protected ones.     *)
Effect(n, o, R) ==
    /\ (n.slip => o.slip) /\ o.live = n.live
    /\ ~o.slip => /\ o.fault = n.fault /\ o.gpr[0] = n.gpr[0]
                  /\ n.live => \A r \in Guest \ R : r # 0 => Value(o, r) = Value(n, r)
Frame(n, o, R) ==
    /\ \A r \in Guest \ R : Pinned(n, r) => Pinned(o, r) /\ Same(n, o, r)
    /\ \A y \in Host : n.mapped[y] = "temp" /\ n.prot[y] => o.mapped[y] = "temp" /\ o.prot[y]
Does(n, o, R) == Sound(o) /\ Effect(n, o, R) /\ Frame(n, o, R)
Ends(n, o, R) == Sound(o) /\ Effect(n, o, R)
(* The x86 register in reg is a temporary that stays.                      *)
Temp(o) == o.reg \in Host /\ o.mapped[o.reg] = "temp" /\ o.prot[o.reg]

LEMMA ConstantFacts ==
    /\ Guest \subseteq Nat /\ 0 \in Guest /\ FramePointer \in Guest \ {0}
    /\ Host = {1, 2, 3, 4, 7, 8} /\ EAX \in Host /\ ECX \in Host /\ EDX \in Host /\ EBX \in Host
    /\ ESI \in Host /\ EDI \in Host
BY GuestAssumption DEF Host, EAX, ECX, EDX, EBX, ESI, EDI

(* What the words of a register are, state by state.                       *)
LEMMA StateFacts ==
    ASSUME NEW n, NEW r
    PROVE  /\ n.st[r] = STATE_UNKNOWN => ~IsMapped(n, r) /\ ~IsConst(n, r) /\ HostsOf(n, r) = {}
                                         /\ LowWord(n, r) = n.gpr[r].lo /\ HighWord(n, r) = n.gpr[r].hi
           /\ n.st[r] = STATE_CONST_32 => ~IsMapped(n, r) /\ IsConst(n, r) /\ HostsOf(n, r) = {}
                                         /\ LowWord(n, r) = n.lo[r] /\ HighWord(n, r) = SignOf(n.lo[r])
           /\ n.st[r] = STATE_CONST_64 => ~IsMapped(n, r) /\ IsConst(n, r) /\ HostsOf(n, r) = {}
                                         /\ LowWord(n, r) = n.lo[r] /\ HighWord(n, r) = n.hi[r]
           /\ n.st[r] = STATE_MAPPED_64 => IsMapped(n, r) /\ ~IsConst(n, r) /\ HostsOf(n, r) = {n.lo[r], n.hi[r]}
                                         /\ LowWord(n, r) = n.x[n.lo[r]] /\ HighWord(n, r) = n.x[n.hi[r]]
           /\ n.st[r] = STATE_MAPPED_32_ZERO => IsMapped(n, r) /\ ~IsConst(n, r) /\ HostsOf(n, r) = {n.lo[r]}
                                         /\ LowWord(n, r) = n.x[n.lo[r]] /\ HighWord(n, r) = 0
           /\ n.st[r] = STATE_MAPPED_32_SIGN => IsMapped(n, r) /\ ~IsConst(n, r) /\ HostsOf(n, r) = {n.lo[r]}
                                         /\ LowWord(n, r) = n.x[n.lo[r]] /\ HighWord(n, r) = SignOf(n.x[n.lo[r]])
           /\ IsMapped(n, r) <=> IsKnown(n, r) /\ ~IsConst(n, r)
           /\ IsMapped(n, r) => n.lo[r] \in HostsOf(n, r)
BY DEF IsMapped, IsConst, IsKnown, IsUnknown, Is64Bit, HostsOf, LowWord, HighWord, STATE_UNKNOWN, STATE_CONST_32,
       STATE_CONST_64, STATE_MAPPED_32_SIGN, STATE_MAPPED_32_ZERO, STATE_MAPPED_64

LEMMA SameValue ==
    ASSUME NEW n, NEW o, NEW r, n.st[r] \in RegisterStates, Same(n, o, r),
           n.st[r] = STATE_UNKNOWN => o.gpr[r] = n.gpr[r],
           \A y \in HostsOf(n, r) : o.x[y] = n.x[y]
    PROVE  Value(o, r) = Value(n, r)
<1>1. CASE n.st[r] = STATE_UNKNOWN
  <2>1. o.st[r] = STATE_UNKNOWN /\ o.lo[r] = n.lo[r] /\ o.hi[r] = n.hi[r]
    BY <1>1 DEF Same
  <2>2. HighWord(o, r) = HighWord(n, r) /\ LowWord(o, r) = LowWord(n, r)
    BY <1>1, <2>1, StateFacts
  <2> QED
    BY <2>2 DEF Value
<1>2. CASE n.st[r] = STATE_CONST_32
  <2>1. o.st[r] = STATE_CONST_32 /\ o.lo[r] = n.lo[r] /\ o.hi[r] = n.hi[r]
    BY <1>2 DEF Same
  <2>2. HighWord(o, r) = HighWord(n, r) /\ LowWord(o, r) = LowWord(n, r)
    BY <1>2, <2>1, StateFacts
  <2> QED
    BY <2>2 DEF Value
<1>3. CASE n.st[r] = STATE_CONST_64
  <2>1. o.st[r] = STATE_CONST_64 /\ o.lo[r] = n.lo[r] /\ o.hi[r] = n.hi[r]
    BY <1>3 DEF Same
  <2>2. HighWord(o, r) = HighWord(n, r) /\ LowWord(o, r) = LowWord(n, r)
    BY <1>3, <2>1, StateFacts
  <2> QED
    BY <2>2 DEF Value
<1>4. CASE n.st[r] = STATE_MAPPED_32_SIGN
  <2>1. o.st[r] = STATE_MAPPED_32_SIGN /\ o.lo[r] = n.lo[r] /\ o.hi[r] = n.hi[r]
    BY <1>4 DEF Same
  <2>2. HighWord(o, r) = HighWord(n, r) /\ LowWord(o, r) = LowWord(n, r)
    BY <1>4, <2>1, StateFacts
  <2> QED
    BY <2>2 DEF Value
<1>5. CASE n.st[r] = STATE_MAPPED_32_ZERO
  <2>1. o.st[r] = STATE_MAPPED_32_ZERO /\ o.lo[r] = n.lo[r] /\ o.hi[r] = n.hi[r]
    BY <1>5 DEF Same
  <2>2. HighWord(o, r) = HighWord(n, r) /\ LowWord(o, r) = LowWord(n, r)
    BY <1>5, <2>1, StateFacts
  <2> QED
    BY <2>2 DEF Value
<1>6. CASE n.st[r] = STATE_MAPPED_64
  <2>1. o.st[r] = STATE_MAPPED_64 /\ o.lo[r] = n.lo[r] /\ o.hi[r] = n.hi[r]
    BY <1>6 DEF Same
  <2>2. HighWord(o, r) = HighWord(n, r) /\ LowWord(o, r) = LowWord(n, r)
    BY <1>6, <2>1, StateFacts
  <2> QED
    BY <2>2 DEF Value
<1> QED
  BY <1>1, <1>2, <1>3, <1>4, <1>5, <1>6 DEF RegisterStates, STATE_UNKNOWN, STATE_CONST_32, STATE_CONST_64,
     STATE_MAPPED_32_SIGN, STATE_MAPPED_32_ZERO, STATE_MAPPED_64

LEMMA HostsInside ==
    ASSUME NEW n, Sound(n), NEW r \in Guest
    PROVE  /\ HostsOf(n, r) \subseteq Host /\ n.st[r] \in RegisterStates
           /\ ~IsMapped(n, 0) /\ HostsOf(n, 0) = {}
BY StateFacts DEF Sound, Homes, Shape, HostsOf, Is64Bit, IsMapped, IsKnown, IsUnknown, IsConst

LEMMA DoesEnds ==
    ASSUME NEW n, NEW o, NEW R, Does(n, o, R)
    PROVE  Sound(o) /\ Effect(n, o, R) /\ Frame(n, o, R) /\ Ends(n, o, R)
BY DEF Does, Ends

LEMMA Nothing ==
    ASSUME NEW n, Sound(n), NEW R
    PROVE  Does(n, n, R) /\ Ends(n, n, R)
BY DEF Does, Ends, Effect, Frame, Same

LEMMA EffectTrans ==
    ASSUME NEW n, NEW o, NEW p, NEW R, NEW Q, NEW T, R \subseteq T, Q \subseteq T,
           Effect(n, o, R), Effect(o, p, Q), p.slip \in BOOLEAN, o.slip \in BOOLEAN
    PROVE  Effect(n, p, T)
<1>1. (n.slip => p.slip) /\ p.live = n.live
  BY DEF Effect
<1>2. ASSUME ~p.slip
      PROVE  /\ p.fault = n.fault /\ p.gpr[0] = n.gpr[0]
             /\ n.live => \A r \in Guest \ T : r # 0 => Value(p, r) = Value(n, r)
  <2>1. ~o.slip
    BY <1>2 DEF Effect
  <2> QED
    BY <1>2, <2>1 DEF Effect
<1> QED
  BY <1>1, <1>2 DEF Effect

LEMMA DoesTrans ==
    ASSUME NEW n, NEW o, NEW p, NEW R, NEW Q, NEW T, R \subseteq T, Q \subseteq T,
           Does(n, o, R), Does(o, p, Q)
    PROVE  Does(n, p, T)
<1>1. Effect(n, p, T)
  BY EffectTrans DEF Does, Sound, Shape
<1>2. Frame(n, p, T)
  BY DEF Does, Frame, Same
<1> QED
  BY <1>1, <1>2 DEF Does

LEMMA EndsTrans ==
    ASSUME NEW n, NEW o, NEW p, NEW R, NEW Q, NEW T, R \subseteq T, Q \subseteq T,
           Ends(n, o, R), Ends(o, p, Q)
    PROVE  Ends(n, p, T)
<1>1. Effect(n, p, T)
  BY EffectTrans DEF Ends, Sound, Shape
<1> QED
  BY <1>1 DEF Ends

LEMMA Wider ==
    ASSUME NEW n, NEW o, NEW R, NEW T, R \subseteq T
    PROVE  /\ Does(n, o, R) => Does(n, o, T)
           /\ Ends(n, o, R) => Ends(n, o, T)
BY DEF Does, Ends, Effect, Frame

(* What the registers held is kept where they, their x86 registers and, of *)
(* those that are in memory, the memory are kept.                          *)
LEMMA EffectOf ==
    ASSUME NEW n, Sound(n), NEW o, NEW R, o.slip = n.slip, o.live = n.live, o.fault = n.fault,
           o.gpr[0] = n.gpr[0],
           \A r \in Guest \ R : r # 0 => /\ Same(n, o, r)
                                         /\ n.st[r] = STATE_UNKNOWN => o.gpr[r] = n.gpr[r]
                                         /\ \A y \in HostsOf(n, r) : o.x[y] = n.x[y]
    PROVE  Effect(n, o, R)
<1>1. ASSUME NEW r \in Guest \ R, r # 0 PROVE Value(o, r) = Value(n, r)
  BY <1>1, HostsInside, SameValue
<1> QED
  BY <1>1 DEF Effect

(* A machine that differs in nothing of the cache.                         *)
Alike(n, o) ==
    /\ DOMAIN o = Fields /\ DOMAIN o.x = Host /\ o.gpr = n.gpr
    /\ o.st = n.st /\ o.lo = n.lo /\ o.hi = n.hi /\ o.mapped = n.mapped /\ o.order = n.order
    /\ o.live = n.live /\ o.slip \in BOOLEAN

LEMMA SameHosts ==
    ASSUME NEW n, NEW o, NEW r, Same(n, o, r)
    PROVE  /\ HostsOf(o, r) = HostsOf(n, r)
           /\ IsMapped(o, r) <=> IsMapped(n, r)
           /\ IsConst(o, r) <=> IsConst(n, r)
           /\ Is64Bit(o, r) <=> Is64Bit(n, r)
           /\ Is32Bit(o, r) <=> Is32Bit(n, r)
BY DEF Same, HostsOf, IsMapped, IsKnown, IsUnknown, IsConst, Is64Bit, Is32Bit

LEMMA AlikeSound ==
    ASSUME NEW n, Sound(n), NEW o, Alike(n, o), o.prot \in [Host -> BOOLEAN]
    PROVE  /\ Sound(o) /\ \A r : Same(n, o, r)
           /\ \A r : HostsOf(o, r) = HostsOf(n, r) /\ (IsMapped(o, r) <=> IsMapped(n, r))
<1>1. \A r : Same(n, o, r)
  BY DEF Alike, Same
<1>2. \A r : HostsOf(o, r) = HostsOf(n, r) /\ (IsMapped(o, r) <=> IsMapped(n, r)) /\ (IsConst(o, r) <=> IsConst(n, r))
  BY <1>1, SameHosts
<1>3. Shape(o) /\ Homes(o) /\ Apart(o) /\ Marked(o)
  BY <1>2 DEF Sound, Shape, Homes, Apart, Marked, Alike
<1> QED
  BY <1>1, <1>2, <1>3 DEF Sound

LEMMA SlipDoes ==
    ASSUME NEW n, Sound(n), NEW b \in BOOLEAN
    PROVE  /\ Does(n, Slip(n, b), {}) /\ Ends(n, Slip(n, b), {})
           /\ Prots(Slip(n, b)) = Prots(n) /\ Slip(n, b).reg = n.reg
           /\ (b => Slip(n, b).slip) /\ (~b => Slip(n, b).slip = n.slip) 
<1> DEFINE o == Slip(n, b)
<1>1. /\ Alike(n, o) /\ o.prot = n.prot /\ o.x = n.x /\ o.fault = n.fault /\ o.reg = n.reg
      /\ o.slip = (n.slip \/ b)
  BY DEF Slip, Alike, Sound, Shape, Fields
<1> HIDE DEF o
<1>2. Sound(o) /\ \A r : Same(n, o, r) /\ HostsOf(o, r) = HostsOf(n, r) /\ (IsMapped(o, r) <=> IsMapped(n, r))
  BY <1>1, AlikeSound DEF Sound, Shape
<1>3. Effect(n, o, {})
  <2>1. ASSUME NEW r \in Guest, r # 0 PROVE Value(o, r) = Value(n, r)
    BY <1>1, <1>2, HostsInside, SameValue DEF Alike
  <2> QED
    BY <1>1, <2>1 DEF Effect, Alike, Sound, Shape
<1>4. Frame(n, o, {}) /\ Prots(o) = Prots(n)
  BY <1>1, <1>2 DEF Frame, Pinned, Prots, Alike
<1> QED
  BY <1>1, <1>2, <1>3, <1>4 DEF Does, Ends, o, Sound, Shape

(* Once a case is known to go wrong only the cache has to be sound.        *)
LEMMA Slipping ==
    ASSUME NEW n, NEW o, Sound(o), o.live = n.live, NEW R
    PROVE  Ends(n, Slip(o, TRUE), R)
<1>1. Sound(Slip(o, TRUE)) /\ Slip(o, TRUE).slip /\ Slip(o, TRUE).live = o.live
  BY SlipDoes DEF Does, Effect
<1> QED
  BY <1>1 DEF Ends, Effect

LEMMA SetX86Sound ==
    ASSUME NEW n, Sound(n), NEW y, NEW w
    PROVE  LET o == SetX86(n, y, w)
           IN /\ Sound(o) /\ Frame(n, o, {}) /\ o.slip = n.slip /\ o.live = n.live
              /\ \A r : Same(n, o, r)
              /\ o.mapped = n.mapped /\ o.prot = n.prot /\ Prots(o) = Prots(n) /\ o.order = n.order
              /\ o.reg = n.reg /\ o.gpr = n.gpr
              /\ \A z \in Host \ {y} : o.x[z] = n.x[z]
              /\ y \in Host => /\ o.fault = n.fault /\ Effect(n, o, {r \in Guest : y \in HostsOf(n, r)})
                               /\ n.live => o.x[y] = w
<1> DEFINE o == SetX86(n, y, w)
<1>1. /\ Alike(n, o) /\ o.prot = n.prot /\ o.slip = n.slip
      /\ o.reg = n.reg /\ (y \in Host => o.fault = n.fault)
      /\ (y \in Host /\ n.live => o.x[y] = w)
      /\ \A z \in Host \ {y} : o.x[z] = n.x[z]
  BY DEF SetX86, Sound, Shape, Fields, Alike, Fault
<1> HIDE DEF o
<1>2. Sound(o) /\ \A r : Same(n, o, r) /\ HostsOf(o, r) = HostsOf(n, r) /\ (IsMapped(o, r) <=> IsMapped(n, r))
  BY <1>1, AlikeSound DEF Sound, Shape
<1>3. Frame(n, o, {}) /\ Prots(o) = Prots(n)
  BY <1>1, <1>2 DEF Frame, Pinned, Prots, Alike
<1>4. y \in Host => Effect(n, o, {r \in Guest : y \in HostsOf(n, r)})
  <2>1. ASSUME NEW r \in Guest, y \notin HostsOf(n, r) PROVE \A z \in HostsOf(n, r) : o.x[z] = n.x[z]
    BY <1>1, <2>1, HostsInside
  <2> QED
    BY <1>1, <1>2, <2>1, EffectOf DEF Alike
<1> QED
  BY <1>1, <1>2, <1>3, <1>4 DEF o, Alike

(* Sets of x86 registers.                                                  *)
LEMMA HostSets ==
    ASSUME NEW X \in SUBSET Host
    PROVE  /\ IsFiniteSet(X) /\ Cardinality(X) \in 0 .. 6
           /\ Cardinality(X) <= 5 => \E y \in Host : y \notin X
           /\ \A Y \in SUBSET X : Cardinality(Y) <= Cardinality(X)
           /\ \A Y \in SUBSET Host : \A z : Y \subseteq X \cup {z} => Cardinality(Y) <= Cardinality(X) + 1
           /\ \A Y \in SUBSET Host : \A z, w : Y \subseteq X \cup {z, w} => Cardinality(Y) <= Cardinality(X) + 2
<1>1. IsFiniteSet(Host) /\ Cardinality(Host) = 6
  <2>1. IsFiniteSet({1}) /\ Cardinality({1}) = 1
    BY FS_Singleton
  <2>2. IsFiniteSet({1, 2}) /\ Cardinality({1, 2}) = 2
    <3>1. {1, 2} = {1} \cup {2}
      OBVIOUS
    <3> QED
      BY <2>1, <3>1, FS_AddElement
  <2>3. IsFiniteSet({1, 2, 3}) /\ Cardinality({1, 2, 3}) = 3
    <3>1. {1, 2, 3} = {1, 2} \cup {3}
      OBVIOUS
    <3> QED
      BY <2>2, <3>1, FS_AddElement
  <2>4. IsFiniteSet({1, 2, 3, 4}) /\ Cardinality({1, 2, 3, 4}) = 4
    <3>1. {1, 2, 3, 4} = {1, 2, 3} \cup {4}
      OBVIOUS
    <3> QED
      BY <2>3, <3>1, FS_AddElement
  <2>5. IsFiniteSet({1, 2, 3, 4, 7}) /\ Cardinality({1, 2, 3, 4, 7}) = 5
    <3>1. {1, 2, 3, 4, 7} = {1, 2, 3, 4} \cup {7}
      OBVIOUS
    <3> QED
      BY <2>4, <3>1, FS_AddElement
  <2>6. IsFiniteSet({1, 2, 3, 4, 7, 8}) /\ Cardinality({1, 2, 3, 4, 7, 8}) = 6
    <3>1. {1, 2, 3, 4, 7, 8} = {1, 2, 3, 4, 7} \cup {8}
      OBVIOUS
    <3> QED
      BY <2>5, <3>1, FS_AddElement
  <2> QED
    BY <2>6, ConstantFacts
<1>2. IsFiniteSet(X) /\ Cardinality(X) <= 6 /\ Cardinality(X) \in Nat
  BY <1>1, FS_Subset, FS_CardinalityType
<1>3. ASSUME Cardinality(X) <= 5 PROVE \E y \in Host : y \notin X
  <2>1. SUFFICES ASSUME X = Host PROVE FALSE
    OBVIOUS
  <2> QED
    BY <1>1, <1>3, <2>1
<1>4. ASSUME NEW Y \in SUBSET X PROVE Cardinality(Y) <= Cardinality(X)
  BY <1>2, FS_Subset
<1>5. ASSUME NEW Y \in SUBSET Host, NEW z, Y \subseteq X \cup {z} PROVE Cardinality(Y) <= Cardinality(X) + 1
  <2> DEFINE Z == X \cup {z}
  <2>1. IsFiniteSet(Z) /\ Cardinality(Z) <= Cardinality(X) + 1 /\ Cardinality(Z) \in Nat
    <3>1. IsFiniteSet(Z) /\ Cardinality(Z) = IF z \in X THEN Cardinality(X) ELSE Cardinality(X) + 1
      BY <1>2, FS_AddElement
    <3> HIDE DEF Z
    <3> QED
      BY <1>2, <3>1
  <2>2. Y \in SUBSET Z
    BY <1>5
  <2> HIDE DEF Z
  <2>3. Cardinality(Y) <= Cardinality(Z) /\ Cardinality(Y) \in Nat
    BY <2>1, <2>2, FS_Subset, FS_CardinalityType
  <2> QED
    BY <1>2, <2>1, <2>3
<1>6. ASSUME NEW Y \in SUBSET Host, NEW z, NEW w, Y \subseteq X \cup {z, w} PROVE Cardinality(Y) <= Cardinality(X) + 2
  <2> DEFINE Z == X \cup {z}
             W == Z \cup {w}
  <2>1. IsFiniteSet(Z) /\ Cardinality(Z) <= Cardinality(X) + 1 /\ Cardinality(Z) \in Nat
    <3>1. IsFiniteSet(Z) /\ Cardinality(Z) = IF z \in X THEN Cardinality(X) ELSE Cardinality(X) + 1
      BY <1>2, FS_AddElement
    <3> HIDE DEF Z
    <3> QED
      BY <1>2, <3>1
  <2>2. Y \in SUBSET W
    BY <1>6
  <2> HIDE DEF Z
  <2>3. IsFiniteSet(W) /\ Cardinality(W) = IF w \in Z THEN Cardinality(Z) ELSE Cardinality(Z) + 1
    BY <2>1, FS_AddElement
  <2> HIDE DEF W
  <2>4. Cardinality(Y) <= Cardinality(W) /\ Cardinality(Y) \in Nat
    BY <2>1, <2>2, <2>3, FS_Subset, FS_CardinalityType
  <2> QED
    BY <1>2, <2>1, <2>3, <2>4
<1>7. Cardinality(X) \in 0 .. 6
  BY <1>2
<1>8. \A Y \in SUBSET Host : \A z : Y \subseteq X \cup {z} => Cardinality(Y) <= Cardinality(X) + 1
  BY ONLY <1>5
<1>9. \A Y \in SUBSET Host : \A z, w : Y \subseteq X \cup {z, w} => Cardinality(Y) <= Cardinality(X) + 2
  BY ONLY <1>6
<1> QED
  BY <1>2, <1>3, <1>4, <1>7, <1>8, <1>9

(* How many registers are protected.                                       *)
LEMMA Rooms ==
    ASSUME NEW n, NEW o
    PROVE  /\ Cardinality(Prots(n)) \in 0 .. 6
           /\ Room(n, 1) => \E y \in Host : ~n.prot[y]
           /\ \A k \in Nat : Prots(o) \subseteq Prots(n) /\ Room(n, k) => Room(o, k)
           /\ \A k \in Nat : \A z : Prots(o) \subseteq Prots(n) \cup {z} /\ Room(n, k + 1) => Room(o, k)
           /\ \A k \in Nat : \A z, w : Prots(o) \subseteq Prots(n) \cup {z, w} /\ Room(n, k + 2) => Room(o, k)
           /\ \A k, j \in Nat : j <= k /\ Room(n, k) => Room(n, j)
<1> DEFINE X == Prots(n)
           Y == Prots(o)
<1>1. X \in SUBSET Host /\ Y \in SUBSET Host
  BY DEF Prots
<1> HIDE DEF X, Y
<1>2. Cardinality(X) \in 0 .. 6 /\ Cardinality(Y) \in 0 .. 6
  BY <1>1, HostSets
<1>3. Cardinality(X) <= 5 => \E y \in Host : y \notin X
  BY <1>1, HostSets
<1>4. Y \subseteq X => Cardinality(Y) <= Cardinality(X)
  BY <1>1, HostSets
<1>5. \A z : Y \subseteq X \cup {z} => Cardinality(Y) <= Cardinality(X) + 1
  BY <1>1, HostSets
<1>6. \A z, w : Y \subseteq X \cup {z, w} => Cardinality(Y) <= Cardinality(X) + 2
  BY <1>1, HostSets
<1>7. \A k \in Nat : /\ Room(n, k) <=> Cardinality(X) + k <= 6
                     /\ Room(o, k) <=> Cardinality(Y) + k <= 6
  BY DEF Room, X, Y
<1>8. Room(n, 1) => \E y \in Host : ~n.prot[y]
  <2>1. (\E y \in Host : y \notin X) => \E y \in Host : ~n.prot[y]
    BY DEF X, Prots
  <2> QED
    BY <1>2, <1>3, <1>7, <2>1
<1>9. \A k \in Nat : Y \subseteq X /\ Room(n, k) => Room(o, k)
  BY <1>2, <1>4, <1>7
<1>10. ASSUME NEW k \in Nat, NEW z, Y \subseteq X \cup {z}, Room(n, k + 1) PROVE Room(o, k)
  <2>1. Cardinality(X) + (k + 1) <= 6
    BY <1>10, <1>7
  <2> QED
    BY <1>2, <1>5, <1>7, <1>10, <2>1
<1>11. ASSUME NEW k \in Nat, NEW z, NEW w, Y \subseteq X \cup {z, w}, Room(n, k + 2) PROVE Room(o, k)
  <2>1. Cardinality(X) + (k + 2) <= 6
    BY <1>11, <1>7
  <2> QED
    BY <1>2, <1>6, <1>7, <1>11, <2>1
<1>12. \A k, j \in Nat : j <= k /\ Room(n, k) => Room(n, j)
  BY <1>2, <1>7
<1> QED
  BY <1>2, <1>8, <1>9, <1>10, <1>11, <1>12 DEF X, Y

(* The least and the greatest of some naturals.                            *)
LEMMA Least ==
    ASSUME NEW S \in SUBSET Nat, S # {}
    PROVE  Min(S) \in S
<1>1. \E y \in S : \A z \in S : y <= z
  BY Minimum
<1> QED
  BY <1>1 DEF Min

LEMMA Greatest ==
    ASSUME NEW S \in SUBSET Nat, S # {}, NEW b \in Nat, \A z \in S : z <= b
    PROVE  (\E y \in S : \A z \in S : y >= z) /\ Max(S) \in S
<1> DEFINE U == {u \in Nat : \A z \in S : z <= u}
<1>1. U \in SUBSET Nat /\ U # {}
  OBVIOUS
<1> HIDE DEF U
<1>2. PICK u \in U : \A v \in U : u <= v
  <2>1. \E u \in U : \A v \in U : u <= v
    BY <1>1, Minimum
  <2> QED
    BY <2>1
<1>3. u \in Nat /\ \A z \in S : z <= u
  BY <1>1, <1>2 DEF U
<1>4. u \in S
  <2>1. SUFFICES ASSUME u \notin S PROVE FALSE
    OBVIOUS
  <2>2. \A z \in S : z <= u - 1 /\ z \in Nat
    BY <1>3, <2>1
  <2>3. u - 1 \in Nat
    <3>1. PICK z \in S : TRUE
      OBVIOUS
    <3>2. z \in Nat /\ u \in Nat /\ z <= u - 1
      BY <1>3, <2>2
    <3> QED
      BY <3>2
  <2>4. u - 1 \in U
    BY <2>2, <2>3 DEF U
  <2> QED
    BY <1>2, <1>3, <2>4
<1>5. \E y \in S : \A z \in S : y >= z
  BY <1>3, <1>4
<1> QED
  BY <1>5 DEF Max


(* One more protected register leaves room for one less.                   *)
LEMMA RoomSteps ==
    ASSUME NEW n, NEW o, NEW z, Prots(o) \subseteq Prots(n) \cup {z}
    PROVE  /\ Room(n, 6) => Room(o, 5)
           /\ Room(n, 5) => Room(o, 4)
           /\ Room(n, 4) => Room(o, 3)
           /\ Room(n, 3) => Room(o, 2)
           /\ Room(n, 2) => Room(o, 1)
           /\ Room(n, 1) => Room(o, 0)
<1>1. Cardinality(Prots(n)) \in 0 .. 6 /\ Cardinality(Prots(o)) \in 0 .. 6
  BY Rooms
<1>2. Cardinality(Prots(o)) <= Cardinality(Prots(n)) + 1
  <2> DEFINE X == Prots(n)
             Y == Prots(o)
  <2>1. X \in SUBSET Host /\ Y \in SUBSET Host /\ Y \subseteq X \cup {z}
    BY DEF Prots
  <2> HIDE DEF X, Y
  <2>2. Cardinality(Y) <= Cardinality(X) + 1
    BY <2>1, HostSets
  <2> QED
    BY <2>2 DEF X, Y
<1> QED
  BY <1>1, <1>2 DEF Room
-----------------------------------------------------------------------------
(* Functions of registers.c.                                               *)

(* r is given other x86 registers, or none: they were its own, or free.    *)
LEMMA Rehosted ==
    ASSUME NEW n, Sound(n), NEW r \in Guest \ {0}, NEW o, Shape(o),
           \A q \in Guest \ {r} : Same(n, o, q),
           HostsOf(o, r) \subseteq Host, o.st[r] = STATE_MAPPED_64 => o.hi[r] # o.lo[r],
           \A y \in HostsOf(o, r) : y \in HostsOf(n, r) \/ n.mapped[y] # "gpr",
           \A y \in Host : o.mapped[y] = "gpr" <=>
                               y \in HostsOf(o, r) \/ (n.mapped[y] = "gpr" /\ y \notin HostsOf(n, r)),
           \A y \in Host : o.mapped[y] = "gpr" => o.order[y] > 0
    PROVE  /\ Sound(o)
           /\ \A q \in Guest \ {r} : /\ HostsOf(o, q) = HostsOf(n, q) /\ (IsMapped(o, q) <=> IsMapped(n, q))
                                     /\ HostsOf(n, q) \subseteq Host
                                     /\ \A y \in HostsOf(n, q) : y \notin HostsOf(n, r) /\ y \notin HostsOf(o, r)
<1>1. ASSUME NEW q \in Guest \ {r}
      PROVE  /\ HostsOf(o, q) = HostsOf(n, q) /\ (IsMapped(o, q) <=> IsMapped(n, q))
             /\ HostsOf(n, q) \subseteq Host
             /\ \A y \in HostsOf(n, q) : y \notin HostsOf(n, r) /\ y \notin HostsOf(o, r)
  <2>1. HostsOf(o, q) = HostsOf(n, q) /\ (IsMapped(o, q) <=> IsMapped(n, q)) /\ HostsOf(n, q) \subseteq Host
    BY SameHosts, HostsInside
  <2>2. ASSUME NEW y \in HostsOf(n, q) PROVE y \notin HostsOf(n, r) /\ y \notin HostsOf(o, r)
    <3>1. y \in Host /\ n.mapped[y] = "gpr" /\ y \notin HostsOf(n, r)
      BY <2>1 DEF Sound, Apart, Marked
    <3> QED
      BY <3>1
  <2> QED
    BY <2>1, <2>2
<1>2. Homes(o)
  <2>1. ASSUME NEW q \in Guest
        PROVE  /\ IsMapped(o, q) => o.lo[q] \in Host
               /\ o.st[q] = STATE_MAPPED_64 => o.hi[q] \in Host /\ o.hi[q] # o.lo[q]
    <3>1. CASE q = r
      BY <3>1, StateFacts
    <3>2. CASE q # r
      BY <1>1, <3>2 DEF Sound, Homes, Same
    <3> QED
      BY <3>1, <3>2
  <2> QED
    BY <2>1 DEF Homes
<1>3. Apart(o)
  <2>1. ASSUME NEW q \in Guest, NEW p \in Guest, NEW y \in Host, y \in HostsOf(o, q), y \in HostsOf(o, p), q # p
        PROVE  FALSE
    <3>1. CASE q = r
      BY <1>1, <2>1, <3>1
    <3>2. CASE p = r
      BY <1>1, <2>1, <3>2
    <3>3. CASE q # r /\ p # r
      BY <1>1, <2>1, <3>3 DEF Sound, Apart
    <3> QED
      BY <3>1, <3>2, <3>3
  <2> QED
    BY <2>1 DEF Apart
<1>4. Marked(o)
  <2>1. ASSUME NEW q \in Guest, NEW y \in Host, y \in HostsOf(o, q) PROVE o.mapped[y] = "gpr"
    <3>1. CASE q = r
      BY <2>1, <3>1
    <3>2. CASE q # r
      <4>1. y \in HostsOf(n, q) /\ y \notin HostsOf(n, r)
        BY <1>1, <2>1, <3>2
      <4>2. n.mapped[y] = "gpr"
        BY <4>1 DEF Sound, Marked
      <4> QED
        BY <4>1, <4>2
    <3> QED
      BY <3>1, <3>2
  <2>2. ASSUME NEW y \in Host, o.mapped[y] = "gpr" PROVE o.order[y] > 0 /\ \E q \in Guest : y \in HostsOf(o, q)
    <3>1. CASE y \in HostsOf(o, r)
      BY <2>2, <3>1
    <3>2. CASE n.mapped[y] = "gpr" /\ y \notin HostsOf(n, r)
      <4>1. PICK q \in Guest : y \in HostsOf(n, q)
        BY <3>2 DEF Sound, Marked
      <4>2. q # r
        BY <3>2, <4>1
      <4> QED
        BY <1>1, <2>2, <4>1, <4>2
    <3> QED
      BY <2>2, <3>1, <3>2
  <2> QED
    BY <2>1, <2>2 DEF Marked
<1>5. IsConst(o, 0)
  BY ConstantFacts, SameHosts DEF Sound
<1> QED
  BY <1>1, <1>2, <1>3, <1>4, <1>5 DEF Sound

LEMMA RehostedDoes ==
    ASSUME NEW n, Sound(n), NEW r \in Guest \ {0}, NEW o, Shape(o),
           \A q \in Guest \ {r} : Same(n, o, q),
           HostsOf(o, r) \subseteq Host, o.st[r] = STATE_MAPPED_64 => o.hi[r] # o.lo[r],
           \A y \in HostsOf(o, r) : y \in HostsOf(n, r) \/ n.mapped[y] # "gpr",
           \A y \in Host : o.mapped[y] = "gpr" <=>
                               y \in HostsOf(o, r) \/ (n.mapped[y] = "gpr" /\ y \notin HostsOf(n, r)),
           \A y \in Host : o.mapped[y] = "gpr" => o.order[y] > 0,
           n.slip => o.slip, o.live = n.live, o.fault = n.fault,
           \A q \in Guest \ {r} : o.gpr[q] = n.gpr[q],
           \A y \in Host : y \notin HostsOf(n, r) /\ y \notin HostsOf(o, r) => o.x[y] = n.x[y],
           \A y \in Host : n.prot[y] /\ y \notin HostsOf(n, r) => o.prot[y],
           \A y \in Host : n.mapped[y] = "temp" /\ n.prot[y] => o.mapped[y] = "temp"
    PROVE  Does(n, o, {r})
<1>1. /\ Sound(o)
      /\ \A q \in Guest \ {r} : /\ HostsOf(o, q) = HostsOf(n, q) /\ (IsMapped(o, q) <=> IsMapped(n, q))
                                /\ HostsOf(n, q) \subseteq Host
                                /\ \A y \in HostsOf(n, q) : y \notin HostsOf(n, r) /\ y \notin HostsOf(o, r)
  BY Rehosted
<1>2. Effect(n, o, {r})
  <2>1. ASSUME NEW q \in Guest \ {r} PROVE Value(o, q) = Value(n, q)
    <3>1. \A y \in HostsOf(n, q) : o.x[y] = n.x[y]
      BY <1>1
    <3> QED
      BY <3>1, HostsInside, SameValue
  <2>2. o.gpr[0] = n.gpr[0]
    BY ConstantFacts
  <2> QED
    BY <2>1, <2>2 DEF Effect
<1>3. Frame(n, o, {r})
  <2>1. ASSUME NEW q \in Guest \ {r}, Pinned(n, q) PROVE Pinned(o, q)
    BY <1>1, <2>1 DEF Pinned, Prots
  <2>2. ASSUME NEW y \in Host, n.mapped[y] = "temp", n.prot[y] PROVE y \notin HostsOf(n, r)
    BY <2>2 DEF Sound, Marked
  <2> QED
    BY <2>1, <2>2 DEF Frame
<1> QED
  BY <1>1, <1>2, <1>3 DEF Does

LEMMA UnMapGPR ==
    ASSUME NEW n, Sound(n), NEW r \in Guest, NEW b \in BOOLEAN
    PROVE  LET o == UnMap_GPR(n, r, b)
           IN /\ Does(n, o, {r}) /\ Prots(o) \subseteq Prots(n)
              /\ r # 0 => o.st[r] = STATE_UNKNOWN
              /\ \A y \in HostsOf(n, r) : o.mapped[y] = "none" /\ ~o.prot[y]
              /\ \A y \in Host \ HostsOf(n, r) : o.mapped[y] = n.mapped[y] /\ o.prot[y] = n.prot[y]
              /\ \A q \in Guest \ {r} : Same(n, o, q) /\ o.gpr[q] = n.gpr[q]
              /\ b = TRUE => Effect(n, o, {})
              /\ o.slip = n.slip /\ o.fault = n.fault /\ o.reg = n.reg
<1> DEFINE o == UnMap_GPR(n, r, b)
<1>1. CASE r = 0 \/ IsUnknown(n, r)
  <2>1. o = n
    BY <1>1 DEF UnMap_GPR
  <2>2. HostsOf(n, r) = {}
    BY <1>1, HostsInside, StateFacts DEF IsUnknown
  <2>3. Does(n, n, {r}) /\ Effect(n, n, {})
    BY Nothing DEF Does
  <2> QED
    BY <1>1, <2>1, <2>2, <2>3 DEF IsUnknown, Same
<1>2. CASE ~(r = 0 \/ IsUnknown(n, r))
  <2> DEFINE X == HostsOf(n, r)
             p == IF b THEN SignSpread(SetMemory(n, r, Value(n, r)), r) ELSE n
  <2>1. /\ DOMAIN p = Fields /\ p.st = n.st /\ p.lo = n.lo /\ p.hi = n.hi /\ p.mapped = n.mapped
        /\ p.order = n.order /\ p.prot = n.prot /\ p.live = n.live /\ p.slip = n.slip
        /\ p.fault = n.fault /\ p.reg = n.reg /\ DOMAIN p.x = Host /\ DOMAIN p.gpr = Guest
        /\ \A y \in Host \ X : p.x[y] = n.x[y]
        /\ \A q \in Guest \ {r} : p.gpr[q] = n.gpr[q]
        /\ b /\ n.live => p.gpr[r] = Value(n, r)
    <3> DEFINE k == SetMemory(n, r, Value(n, r))
    <3>1. /\ DOMAIN k = Fields /\ k.st = n.st /\ k.lo = n.lo /\ k.hi = n.hi /\ k.mapped = n.mapped
          /\ k.order = n.order /\ k.prot = n.prot /\ k.live = n.live /\ k.slip = n.slip
          /\ k.fault = n.fault /\ k.reg = n.reg /\ k.x = n.x /\ DOMAIN k.gpr = Guest
          /\ \A q \in Guest \ {r} : k.gpr[q] = n.gpr[q]
          /\ n.live => k.gpr[r] = Value(n, r)
      BY DEF SetMemory, Sound, Shape, Fields
    <3> HIDE DEF k
    <3>2. CASE ~b
      BY <3>2 DEF Sound, Shape
    <3>3. CASE b /\ n.st[r] # STATE_MAPPED_32_SIGN
      <4>1. p = k
        BY <3>1, <3>3 DEF SignSpread, k
      <4> QED
        BY <3>1, <3>3, <4>1 DEF Sound, Shape
    <3>4. CASE b /\ n.st[r] = STATE_MAPPED_32_SIGN
      <4>1. n.lo[r] \in Host /\ n.lo[r] \in X
        BY <3>4, StateFacts DEF Sound, Homes
      <4>2. p = IF n.live THEN [k EXCEPT !.x[n.lo[r]] = SignOf(n.x[n.lo[r]])] ELSE k
        BY <3>1, <3>4, <4>1 DEF SignSpread, SetX86, k
      <4> HIDE DEF p, X
      <4>3. /\ DOMAIN p = Fields /\ p.st = k.st /\ p.lo = k.lo /\ p.hi = k.hi /\ p.mapped = k.mapped
            /\ p.order = k.order /\ p.prot = k.prot /\ p.live = k.live /\ p.slip = k.slip
            /\ p.fault = k.fault /\ p.reg = k.reg /\ p.gpr = k.gpr
        BY <3>1, <4>2 DEF Fields
      <4>4. DOMAIN p.x = Host /\ \A y \in Host \ X : p.x[y] = n.x[y]
        BY <3>1, <4>1, <4>2 DEF Fields, Sound, Shape
      <4> QED
        BY <3>1, <4>3, <4>4
    <3> QED
      BY <3>2, <3>3, <3>4
  <2>2. o = Forget(Release(p, X), r)
    BY <1>2 DEF UnMap_GPR
  <2> HIDE DEF p, X
  <2>3. /\ DOMAIN o = Fields /\ o.lo = n.lo /\ o.hi = n.hi /\ o.x = p.x /\ o.gpr = p.gpr
        /\ o.order = n.order /\ o.live = n.live /\ o.slip = n.slip /\ o.fault = n.fault /\ o.reg = n.reg
        /\ o.st = [n.st EXCEPT ![r] = STATE_UNKNOWN]
        /\ o.mapped = [y \in Host |-> IF y \in X THEN "none" ELSE n.mapped[y]]
        /\ o.prot = [y \in Host |-> y \notin X /\ n.prot[y]]
    BY <2>1, <2>2 DEF Forget, Release, Fields
  <2> HIDE DEF o
  <2>4. \A q \in Guest \ {r} : Same(n, o, q) /\ o.gpr[q] = n.gpr[q]
    BY <2>1, <2>3 DEF Same, Sound, Shape
  <2>5. o.st[r] = STATE_UNKNOWN /\ HostsOf(o, r) = {} /\ ~IsMapped(o, r)
    BY <2>3, StateFacts DEF Sound, Shape
  <2>6. Shape(o)
    BY <2>1, <2>3 DEF Sound, Shape, RegisterStates, Marks
  <2>7. Does(n, o, {r})
    <3>1. \A y \in Host : o.mapped[y] = "gpr" <=> n.mapped[y] = "gpr" /\ y \notin HostsOf(n, r)
      BY <2>3 DEF X
    <3>2. \A y \in Host : o.mapped[y] = "gpr" => o.order[y] > 0
      BY <2>3 DEF Sound, Marked
    <3>3. \A y \in Host : n.mapped[y] = "temp" /\ n.prot[y] => o.mapped[y] = "temp"
      BY <2>3 DEF X, Sound, Marked
    <3>4. \A y \in Host : y \notin HostsOf(n, r) => o.x[y] = n.x[y] /\ o.prot[y] = n.prot[y]
      BY <2>1, <2>3 DEF X, Sound, Shape
    <3>5. o.st[r] # STATE_MAPPED_64 /\ r \in Guest \ {0}
      BY <1>2, <2>5 DEF STATE_UNKNOWN, STATE_MAPPED_64
    <3> QED
      BY <2>3, <2>4, <2>5, <2>6, <3>1, <3>2, <3>3, <3>4, <3>5, RehostedDoes
  <2>8. ASSUME b = TRUE PROVE Effect(n, o, {})
    <3>1. ASSUME NEW q \in Guest, q # 0, n.live, ~o.slip PROVE Value(o, q) = Value(n, q)
      <4>1. CASE q # r
        BY <2>7, <3>1, <4>1 DEF Does, Effect
      <4>2. CASE q = r
        <5>1. o.gpr[r] = Value(n, r)
          BY <2>1, <2>3, <2>8, <3>1
        <5> QED
          BY <2>5, <4>2, <5>1, StateFacts DEF Value
      <4> QED
        BY <4>1, <4>2
    <3> QED
      BY <2>7, <3>1 DEF Does, Effect
  <2>9. Prots(o) \subseteq Prots(n)
    BY <2>3 DEF Prots
  <2>10. /\ \A y \in HostsOf(n, r) : o.mapped[y] = "none" /\ ~o.prot[y]
         /\ \A y \in Host \ HostsOf(n, r) : o.mapped[y] = n.mapped[y] /\ o.prot[y] = n.prot[y]
    <3>1. X \subseteq Host /\ n.prot \in [Host -> BOOLEAN]
      BY HostsInside DEF X, Sound, Shape
    <3>2. \A y \in Host : o.prot[y] = (y \notin X /\ n.prot[y])
      BY <2>3
    <3> QED
      BY <2>3, <3>1, <3>2 DEF X
  <2>11. o.slip = n.slip /\ o.fault = n.fault /\ o.reg = n.reg
    BY <2>3
  <2>12. /\ Does(n, o, {r}) /\ Prots(o) \subseteq Prots(n)
         /\ r # 0 => o.st[r] = STATE_UNKNOWN
         /\ \A y \in HostsOf(n, r) : o.mapped[y] = "none" /\ ~o.prot[y]
         /\ \A y \in Host \ HostsOf(n, r) : o.mapped[y] = n.mapped[y] /\ o.prot[y] = n.prot[y]
         /\ \A q \in Guest \ {r} : Same(n, o, q) /\ o.gpr[q] = n.gpr[q]
         /\ b = TRUE => Effect(n, o, {})
         /\ o.slip = n.slip /\ o.fault = n.fault /\ o.reg = n.reg
    BY <2>4, <2>5, <2>7, <2>8, <2>9, <2>10, <2>11
  <2> QED
    BY <2>12 DEF o
<1> QED
  BY <1>1, <1>2

LEMMA OwnersFacts ==
    ASSUME NEW n, Sound(n), NEW y \in Host
    PROVE  /\ Owners(n, y) = {r \in Guest \ {0} : y \in HostsOf(n, r)}
           /\ Owners(n, y) # {} => /\ Min(Owners(n, y)) \in Guest \ {0}
                                   /\ y \in HostsOf(n, Min(Owners(n, y)))
           /\ n.mapped[y] = "gpr" <=> Owners(n, y) # {}
<1>1. Owners(n, y) = {r \in Guest \ {0} : y \in HostsOf(n, r)}
  BY DEF Owners, HostsOf
<1>2. Owners(n, y) \in SUBSET Nat
  BY <1>1, ConstantFacts
<1>3. Owners(n, y) # {} => Min(Owners(n, y)) \in Owners(n, y)
  BY <1>2, Least
<1>4. n.mapped[y] = "gpr" <=> Owners(n, y) # {}
  <2>1. (\E r \in Guest : y \in HostsOf(n, r)) <=> Owners(n, y) # {}
    BY <1>1, HostsInside, ConstantFacts
  <2> QED
    BY <2>1 DEF Sound, Marked
<1> QED
  BY <1>1, <1>3, <1>4

LEMMA UnMapX86 ==
    ASSUME NEW n, Sound(n), NEW y \in Host
    PROVE  LET o == UnMap_X86reg(n, y)
           IN /\ Does(n, o, {}) /\ Prots(o) \subseteq Prots(n)
              /\ UnMapsX86reg(n, y) <=> ~n.prot[y]
              /\ ~n.prot[y] => o.mapped[y] = "none" /\ ~o.prot[y]
              /\ \A z \in Host : o.mapped[z] \in {n.mapped[z], "none"}
              /\ \A q \in Guest : Same(n, o, q) \/ (IsMapped(n, q) /\ o.st[q] = STATE_UNKNOWN)
              /\ \A q \in Guest : n.st[q] = STATE_UNKNOWN => o.gpr[q] = n.gpr[q]
              /\ o.slip = n.slip /\ o.fault = n.fault /\ o.reg = n.reg
<1> DEFINE o == UnMap_X86reg(n, y)
<1>1. UnMapsX86reg(n, y) <=> ~n.prot[y]
  BY OwnersFacts DEF UnMapsX86reg, Sound, Shape, Marks
<1>2. CASE n.prot[y]
  <2>1. o = n
    BY <1>1, <1>2 DEF UnMap_X86reg
  <2>2. Does(n, n, {})
    BY Nothing
  <2> QED
    BY <1>1, <1>2, <2>1, <2>2 DEF Same
<1>3. CASE ~n.prot[y] /\ n.mapped[y] = "gpr"
  <2> DEFINE r == Min(Owners(n, y))
  <2>1. r \in Guest \ {0} /\ y \in HostsOf(n, r)
    BY <1>3, OwnersFacts
  <2>2. o = UnMap_GPR(n, r, TRUE)
    BY <1>1, <1>3 DEF UnMap_X86reg
  <2> HIDE DEF r, o
  <2>3. /\ Does(n, o, {r}) /\ Effect(n, o, {}) /\ Prots(o) \subseteq Prots(n) /\ o.st[r] = STATE_UNKNOWN
        /\ \A z \in HostsOf(n, r) : o.mapped[z] = "none" /\ ~o.prot[z]
        /\ \A z \in Host \ HostsOf(n, r) : o.mapped[z] = n.mapped[z]
        /\ \A q \in Guest \ {r} : Same(n, o, q) /\ o.gpr[q] = n.gpr[q]
        /\ o.slip = n.slip /\ o.fault = n.fault /\ o.reg = n.reg
    <3>1. r \in Guest /\ r # 0 /\ TRUE \in BOOLEAN
      BY <2>1
    <3>2. Does(n, o, {r})
      BY <2>2, <3>1, UnMapGPR
    <3>3. Effect(n, o, {})
      BY <2>2, <3>1, UnMapGPR
    <3>4. /\ Prots(o) \subseteq Prots(n) /\ o.st[r] = STATE_UNKNOWN
          /\ \A z \in HostsOf(n, r) : o.mapped[z] = "none" /\ ~o.prot[z]
      BY <2>2, <3>1, UnMapGPR
    <3>5. /\ \A z \in Host \ HostsOf(n, r) : o.mapped[z] = n.mapped[z]
          /\ \A q \in Guest \ {r} : Same(n, o, q) /\ o.gpr[q] = n.gpr[q]
      BY <2>2, <3>1, UnMapGPR
    <3>6. o.slip = n.slip /\ o.fault = n.fault /\ o.reg = n.reg
      BY <2>2, <3>1, UnMapGPR
    <3> QED
      BY <3>2, <3>3, <3>4, <3>5, <3>6
  <2>4. IsMapped(n, r) /\ ~Pinned(n, r)
    BY <1>3, <2>1 DEF HostsOf, Pinned, Prots
  <2>5. Frame(n, o, {})
    BY <2>3, <2>4 DEF Does, Frame
  <2>6. \A q \in Guest : n.st[q] = STATE_UNKNOWN => o.gpr[q] = n.gpr[q]
    BY <2>3, <2>4 DEF IsMapped, IsKnown, IsUnknown
  <2>7. Does(n, o, {})
    BY <2>3, <2>5 DEF Does
  <2> QED
    BY <1>1, <2>1, <2>3, <2>4, <2>6, <2>7 DEF o
<1>4. CASE ~n.prot[y] /\ n.mapped[y] # "gpr"
  <2>1. o = [n EXCEPT !.mapped[y] = "none"]
    BY <1>1, <1>4 DEF UnMap_X86reg
  <2> HIDE DEF o
  <2>2. /\ DOMAIN o = Fields /\ o.st = n.st /\ o.lo = n.lo /\ o.hi = n.hi /\ o.order = n.order /\ o.prot = n.prot
        /\ o.x = n.x /\ o.gpr = n.gpr /\ o.live = n.live /\ o.slip = n.slip /\ o.fault = n.fault /\ o.reg = n.reg
        /\ o.mapped = [n.mapped EXCEPT ![y] = "none"]
    BY <2>1 DEF Sound, Shape, Fields
  <2>3. \A q : Same(n, o, q) /\ HostsOf(o, q) = HostsOf(n, q) /\ (IsMapped(o, q) <=> IsMapped(n, q))
                /\ (IsConst(o, q) <=> IsConst(n, q))
    BY <2>2, SameHosts DEF Same
  <2>4. \A z \in Host : o.mapped[z] = IF z = y THEN "none" ELSE n.mapped[z]
    BY <2>2 DEF Sound, Shape
  <2>5. Sound(o)
    <3>1. Shape(o)
      BY <2>2 DEF Sound, Shape, Marks
    <3>2. Homes(o) /\ Apart(o)
      BY <2>2, <2>3 DEF Sound, Homes, Apart
    <3>3. Marked(o)
      BY <1>4, <2>2, <2>3, <2>4 DEF Sound, Marked
    <3> QED
      BY <2>3, <3>1, <3>2, <3>3 DEF Sound
  <2>6. Effect(n, o, {})
    BY <2>2, <2>3, EffectOf
  <2>7. Frame(n, o, {}) /\ Prots(o) = Prots(n)
    BY <1>4, <2>2, <2>3, <2>4 DEF Frame, Pinned, Prots
  <2>8. o.mapped[y] = "none" /\ ~o.prot[y] /\ \A z \in Host : o.mapped[z] \in {n.mapped[z], "none"}
    BY <1>4, <2>2, <2>4
  <2>9. Does(n, o, {})
    BY <2>5, <2>6, <2>7 DEF Does
  <2> QED
    BY <1>1, <2>2, <2>3, <2>7, <2>8, <2>9 DEF o
<1> QED
  BY <1>2, <1>3, <1>4

(* The register last returned is not of the cache.                         *)
LEMMA ReturningDoes ==
    ASSUME NEW n, Sound(n), NEW y
    PROVE  LET o == Returning(n, y)
           IN /\ Does(n, o, {}) /\ Prots(o) = Prots(n) /\ o.reg = y
              /\ o.mapped = n.mapped /\ o.prot = n.prot /\ o.slip = n.slip /\ o.fault = n.fault
              /\ o.gpr = n.gpr
              /\ \A q : Same(n, o, q) /\ HostsOf(o, q) = HostsOf(n, q) /\ (IsMapped(o, q) <=> IsMapped(n, q))
<1> DEFINE o == Returning(n, y)
<1>1. /\ Alike(n, o) /\ o.prot = n.prot /\ o.x = n.x /\ o.fault = n.fault /\ o.reg = y /\ o.slip = n.slip
  BY DEF Returning, Alike, Sound, Shape, Fields
<1> HIDE DEF o
<1>2. Sound(o) /\ \A r : Same(n, o, r) /\ HostsOf(o, r) = HostsOf(n, r) /\ (IsMapped(o, r) <=> IsMapped(n, r))
  BY <1>1, AlikeSound DEF Sound, Shape
<1>3. Effect(n, o, {})
  BY <1>1, <1>2, EffectOf DEF Alike
<1>4. Frame(n, o, {}) /\ Prots(o) = Prots(n)
  BY <1>1, <1>2 DEF Frame, Pinned, Prots, Alike
<1> QED
  BY <1>1, <1>2, <1>3, <1>4 DEF Does, o, Alike

(* There is one that was mapped longest ago.                               *)
LEMMA OldestIn ==
    ASSUME NEW n, n.order \in [Host -> Nat], NEW X \in SUBSET Host, X # {}
    PROVE  Oldest(n, X) \in X
<1> DEFINE k(y) == 9 * n.order[y] + (8 - y)
           S == {k(y) : y \in X}
           b == k(1) + k(2) + k(3) + k(4) + k(7) + k(8)
<1>1. \A y \in Host : k(y) \in Nat /\ y \in 1 .. 8 /\ n.order[y] \in Nat
  BY DEF Host, EAX, ECX, EDX, EBX, ESI, EDI
<1>2. b \in Nat /\ \A y \in Host : k(y) <= b
  <2>1. k(1) \in Nat /\ k(2) \in Nat /\ k(3) \in Nat /\ k(4) \in Nat /\ k(7) \in Nat /\ k(8) \in Nat
    BY <1>1, ConstantFacts
  <2>2. \A y \in Host : y \in {1, 2, 3, 4, 7, 8}
    BY ConstantFacts
  <2> HIDE DEF k
  <2> QED
    BY <2>1, <2>2
<1>3. S \in SUBSET Nat /\ S # {} /\ \A z \in S : z <= b
  BY <1>1, <1>2
<1> HIDE DEF S, b
<1>4. PICK u \in S : \A z \in S : u >= z
  <2>1. \E u \in S : \A z \in S : u >= z
    BY <1>2, <1>3, Greatest
  <2> QED
    BY <2>1
<1>5. PICK y \in X : u = k(y)
  BY <1>4 DEF S
<1>6. ASSUME NEW z \in X \ {y} PROVE Older(n, y, z)
  <2>1. k(z) <= k(y)
    BY <1>4, <1>5 DEF S
  <2>2. y \in 1 .. 8 /\ z \in 1 .. 8 /\ n.order[y] \in Nat /\ n.order[z] \in Nat
    BY <1>1
  <2> QED
    BY <2>1, <2>2 DEF Older
<1>7. \E w \in X : \A z \in X \ {w} : Older(n, w, z)
  BY <1>6
<1> QED
  BY <1>7 DEF Oldest

LEMMA FreeReg ==
    ASSUME NEW n, Sound(n), Room(n, 1)
    PROVE  LET o == FreeX86Reg(n)
           IN /\ Does(n, o, {}) /\ Prots(o) \subseteq Prots(n)
              /\ o.reg \in Host /\ ~n.prot[o.reg] /\ ~o.prot[o.reg] /\ o.mapped[o.reg] = "none"
              /\ \A z \in Host : o.mapped[z] \in {n.mapped[z], "none"}
              /\ \A q \in Guest : Same(n, o, q) \/ (IsMapped(n, q) /\ o.st[q] = STATE_UNKNOWN)
              /\ o.slip = n.slip /\ o.fault = n.fault
<1> DEFINE o == FreeX86Reg(n)
           C == /\ Does(n, o, {}) /\ Prots(o) \subseteq Prots(n)
                /\ o.reg \in Host /\ ~n.prot[o.reg] /\ ~o.prot[o.reg] /\ o.mapped[o.reg] = "none"
                /\ \A z \in Host : o.mapped[z] \in {n.mapped[z], "none"}
                /\ \A q \in Guest : Same(n, o, q) \/ (IsMapped(n, q) /\ o.st[q] = STATE_UNKNOWN)
                /\ o.slip = n.slip /\ o.fault = n.fault
<1>1. CASE Unused(n) # {}
  <2> DEFINE I == {i \in DOMAIN FreeOrder : FreeOrder[i] \in Unused(n)}
             y == FreeOrder[Min(I)]
  <2>1. I \in SUBSET Nat /\ I # {}
    <3>1. DOMAIN FreeOrder = 1 .. 6
      BY DEF FreeOrder
    <3>2. \A z \in Host : \E i \in 1 .. 6 : FreeOrder[i] = z
      BY DEF FreeOrder, Host
    <3>3. PICK z \in Unused(n) : TRUE
      BY <1>1
    <3>4. z \in Host
      BY DEF Unused
    <3> HIDE DEF FreeOrder
    <3> QED
      BY <3>1, <3>2, <3>3, <3>4
  <2> HIDE DEF I
  <2>2. Min(I) \in I
    BY <2>1, Least
  <2>3. y \in Host /\ n.mapped[y] = "none" /\ ~n.prot[y]
    BY <2>2 DEF I, Unused
  <2>4. o = Returning(n, y)
    BY <1>1 DEF FreeX86Reg, I
  <2> HIDE DEF y, o
  <2>5. /\ Does(n, o, {}) /\ Prots(o) = Prots(n) /\ o.reg = y
        /\ o.mapped = n.mapped /\ o.prot = n.prot /\ o.slip = n.slip /\ o.fault = n.fault
        /\ \A q : Same(n, o, q)
    BY <2>4, ReturningDoes
  <2>6. C
    BY <2>3, <2>5
  <2> QED
    BY <2>6 DEF o
<1>2. CASE Unused(n) = {} /\ IdleTemps(n) # {}
  <2> DEFINE y == Min(IdleTemps(n))
             p == UnMap_X86reg(n, y)
  <2>1. y \in IdleTemps(n)
    <3>1. IdleTemps(n) \in SUBSET Nat
      BY ConstantFacts DEF IdleTemps
    <3> QED
      BY <1>2, <3>1, Least
  <2>2. y \in Host /\ n.mapped[y] = "temp" /\ ~n.prot[y]
    BY <2>1 DEF IdleTemps
  <2>3. UnMapsX86reg(n, y) /\ p = [n EXCEPT !.mapped[y] = "none"]
    BY <2>2 DEF UnMapsX86reg, UnMap_X86reg
  <2>4. o = Returning(p, y)
    BY <1>2, <2>3 DEF FreeX86Reg, UnMap_TempReg, Taken
  <2> HIDE DEF y
  <2>5. /\ Does(n, p, {}) /\ Prots(p) \subseteq Prots(n)
        /\ p.mapped[y] = "none" /\ ~p.prot[y]
        /\ \A z \in Host : p.mapped[z] \in {n.mapped[z], "none"}
        /\ \A q \in Guest : Same(n, p, q) \/ (IsMapped(n, q) /\ p.st[q] = STATE_UNKNOWN)
        /\ p.slip = n.slip /\ p.fault = n.fault
    BY <2>2, UnMapX86
  <2> HIDE DEF p, o
  <2>6. /\ Does(p, o, {}) /\ Prots(o) = Prots(p) /\ o.reg = y
        /\ o.mapped = p.mapped /\ o.prot = p.prot /\ o.slip = p.slip /\ o.fault = p.fault
        /\ \A q : Same(p, o, q)
    BY <2>4, <2>5, ReturningDoes DEF Does
  <2>7. Does(n, o, {})
    BY <2>5, <2>6, DoesTrans
  <2>8. \A q \in Guest : Same(n, o, q) \/ (IsMapped(n, q) /\ o.st[q] = STATE_UNKNOWN)
    BY <2>5, <2>6 DEF Same
  <2>9. C
    BY <2>2, <2>5, <2>6, <2>7, <2>8
  <2> QED
    BY <2>9 DEF o
<1>3. CASE Unused(n) = {} /\ IdleTemps(n) = {}
  <2> DEFINE X == {z \in Host : n.order[z] > 0 /\ UnMapsX86reg(n, z)}
             y == Oldest(n, X)
             p == UnMap_X86reg(n, y)
  <2>1. PICK z \in Host : ~n.prot[z]
    BY Rooms
  <2>2. n.mapped[z] = "gpr"
    BY <1>3, <2>1 DEF Unused, IdleTemps, Sound, Shape, Marks
  <2>3. z \in X
    BY <2>1, <2>2, UnMapX86 DEF Sound, Marked
  <2>4. y \in X
    <3>1. X \in SUBSET Host /\ X # {} /\ n.order \in [Host -> Nat]
      BY <2>3 DEF Sound, Shape
    <3> HIDE DEF X
    <3> QED
      BY <3>1, OldestIn
  <2>5. y \in Host /\ ~n.prot[y]
    BY <2>4 DEF UnMapsX86reg
  <2>6. o = Returning(p, y)
    BY <1>3, <2>3 DEF FreeX86Reg, EvictOldest, Evicted
  <2> HIDE DEF y, X
  <2>7. /\ Does(n, p, {}) /\ Prots(p) \subseteq Prots(n)
        /\ p.mapped[y] = "none" /\ ~p.prot[y]
        /\ \A w \in Host : p.mapped[w] \in {n.mapped[w], "none"}
        /\ \A q \in Guest : Same(n, p, q) \/ (IsMapped(n, q) /\ p.st[q] = STATE_UNKNOWN)
        /\ p.slip = n.slip /\ p.fault = n.fault
    BY <2>5, UnMapX86
  <2> HIDE DEF p, o
  <2>8. /\ Does(p, o, {}) /\ Prots(o) = Prots(p) /\ o.reg = y
        /\ o.mapped = p.mapped /\ o.prot = p.prot /\ o.slip = p.slip /\ o.fault = p.fault
        /\ \A q : Same(p, o, q)
    BY <2>6, <2>7, ReturningDoes DEF Does
  <2>9. Does(n, o, {})
    BY <2>7, <2>8, DoesTrans
  <2>10. \A q \in Guest : Same(n, o, q) \/ (IsMapped(n, q) /\ o.st[q] = STATE_UNKNOWN)
    BY <2>7, <2>8 DEF Same
  <2>11. C
    BY <2>5, <2>7, <2>8, <2>9, <2>10
  <2> QED
    BY <2>11 DEF o
<1> QED
  BY <1>1, <1>2, <1>3

(* Protection.                                                             *)
LEMMA Protecting ==
    ASSUME NEW n, Sound(n), NEW P \in [Host -> BOOLEAN]
    PROVE  LET o == [n EXCEPT !.prot = P]
           IN /\ Ends(n, o, {}) /\ o.prot = P /\ o.mapped = n.mapped /\ o.slip = n.slip /\ o.fault = n.fault
              /\ o.reg = n.reg /\ o.gpr = n.gpr
              /\ \A q : Same(n, o, q) /\ HostsOf(o, q) = HostsOf(n, q) /\ (IsMapped(o, q) <=> IsMapped(n, q))
              /\ (\A y \in Host : n.prot[y] => P[y]) => Does(n, o, {})
<1> DEFINE o == [n EXCEPT !.prot = P]
<1>1. /\ Alike(n, o) /\ o.prot = P /\ o.x = n.x /\ o.fault = n.fault /\ o.reg = n.reg /\ o.slip = n.slip
  BY DEF Alike, Sound, Shape, Fields
<1> HIDE DEF o
<1>2. Sound(o) /\ \A r : Same(n, o, r) /\ HostsOf(o, r) = HostsOf(n, r) /\ (IsMapped(o, r) <=> IsMapped(n, r))
  BY <1>1, AlikeSound DEF Sound, Shape
<1>3. Effect(n, o, {})
  BY <1>1, <1>2, EffectOf DEF Alike
<1>4. (\A y \in Host : n.prot[y] => P[y]) => Frame(n, o, {})
  BY <1>1, <1>2 DEF Frame, Pinned, Prots, Alike
<1> QED
  BY <1>1, <1>2, <1>3, <1>4 DEF Does, Ends, o, Alike

LEMMA ProtectDoes ==
    ASSUME NEW n, Sound(n), NEW X \in SUBSET Host
    PROVE  LET o == Protect(n, X)
           IN /\ Does(n, o, {}) /\ Prots(o) = Prots(n) \cup X
              /\ o.mapped = n.mapped /\ o.slip = n.slip /\ o.fault = n.fault /\ o.reg = n.reg /\ o.gpr = n.gpr
              /\ \A q : Same(n, o, q) /\ HostsOf(o, q) = HostsOf(n, q) /\ (IsMapped(o, q) <=> IsMapped(n, q))
<1> DEFINE P == [y \in Host |-> y \in X \/ n.prot[y]]
           o == [n EXCEPT !.prot = P]
<1>1. P \in [Host -> BOOLEAN] /\ Protect(n, X) = o /\ \A y \in Host : n.prot[y] => P[y]
  BY DEF Protect, Sound, Shape
<1>2. \A y \in Host : P[y] <=> (y \in X \/ n.prot[y])
  OBVIOUS
<1> HIDE DEF P
<1>3. /\ Does(n, o, {}) /\ o.prot = P /\ o.mapped = n.mapped /\ o.slip = n.slip /\ o.fault = n.fault
      /\ o.reg = n.reg /\ o.gpr = n.gpr
  BY <1>1, Protecting
<1>4. \A q : Same(n, o, q) /\ HostsOf(o, q) = HostsOf(n, q) /\ (IsMapped(o, q) <=> IsMapped(n, q))
  BY <1>1, Protecting
<1> HIDE DEF o
<1>5. Prots(o) = Prots(n) \cup X
  BY <1>2, <1>3 DEF Prots
<1> QED
  BY <1>1, <1>3, <1>4, <1>5

LEMMA ProtectGPRDoes ==
    ASSUME NEW n, Sound(n), NEW r \in Guest
    PROVE  LET o == ProtectGPR(n, r)
           IN /\ Does(n, o, {}) /\ Prots(o) = Prots(n) \cup HostsOf(n, r)
              /\ IsMapped(n, r) => Pinned(o, r)
              /\ o.mapped = n.mapped /\ o.slip = n.slip /\ o.fault = n.fault /\ o.reg = n.reg /\ o.gpr = n.gpr
              /\ \A q : Same(n, o, q) /\ HostsOf(o, q) = HostsOf(n, q) /\ (IsMapped(o, q) <=> IsMapped(n, q))
              /\ \A k \in Nat : Room(n, k + 2) => Room(o, k)
              /\ Is32Bit(n, r) => \A k \in Nat : Room(n, k + 1) => Room(o, k)
              /\ ~IsMapped(n, r) \/ Pinned(n, r) => \A k \in Nat : Room(n, k) => Room(o, k)
<1> DEFINE o == ProtectGPR(n, r)
<1>1. HostsOf(n, r) \in SUBSET Host
  BY HostsInside
<1>2. /\ Does(n, o, {}) /\ Prots(o) = Prots(n) \cup HostsOf(n, r)
      /\ o.mapped = n.mapped /\ o.slip = n.slip /\ o.fault = n.fault /\ o.reg = n.reg /\ o.gpr = n.gpr
  BY <1>1, ProtectDoes DEF ProtectGPR
<1>3. \A q : Same(n, o, q) /\ HostsOf(o, q) = HostsOf(n, q) /\ (IsMapped(o, q) <=> IsMapped(n, q))
  BY <1>1, ProtectDoes DEF ProtectGPR
<1> HIDE DEF o
<1>4. IsMapped(n, r) => Pinned(o, r)
  BY <1>2, <1>3 DEF Pinned
<1>5. \A k \in Nat : Room(n, k + 2) => Room(o, k)
  <2>1. Prots(o) \subseteq Prots(n) \cup {n.lo[r], n.hi[r]}
    BY <1>2 DEF HostsOf
  <2> QED
    BY <2>1, Rooms
<1>6. Is32Bit(n, r) => \A k \in Nat : Room(n, k + 1) => Room(o, k)
  <2>1. Is32Bit(n, r) => Prots(o) \subseteq Prots(n) \cup {n.lo[r]}
    BY <1>2 DEF HostsOf, Is32Bit
  <2> QED
    BY <2>1, Rooms
<1>7. ~IsMapped(n, r) \/ Pinned(n, r) => \A k \in Nat : Room(n, k) => Room(o, k)
  <2>1. ~IsMapped(n, r) \/ Pinned(n, r) => Prots(o) \subseteq Prots(n)
    BY <1>2 DEF HostsOf, Pinned
  <2> QED
    BY <2>1, Rooms
<1> QED
  BY <1>2, <1>3, <1>4, <1>5, <1>6, <1>7 DEF o

LEMMA UnProtectGPREnds ==
    ASSUME NEW n, Sound(n), NEW r \in Guest
    PROVE  LET o == UnProtectGPR(n, r)
           IN /\ Ends(n, o, {}) /\ Prots(o) = Prots(n) \ HostsOf(n, r)
              /\ o.mapped = n.mapped /\ o.slip = n.slip /\ o.fault = n.fault /\ o.reg = n.reg /\ o.gpr = n.gpr
              /\ \A q : Same(n, o, q) /\ HostsOf(o, q) = HostsOf(n, q) /\ (IsMapped(o, q) <=> IsMapped(n, q))
              /\ Temp(n) => Temp(o)
              /\ \A q \in Guest \ {r} : Pinned(n, q) => Pinned(o, q)
              /\ \A y \in Host : n.mapped[y] = "temp" /\ n.prot[y] => o.mapped[y] = "temp" /\ o.prot[y]
<1> DEFINE P == [y \in Host |-> y \notin HostsOf(n, r) /\ n.prot[y]]
           o == [n EXCEPT !.prot = P]
<1>1. P \in [Host -> BOOLEAN] /\ UnProtectGPR(n, r) = o
  BY DEF UnProtectGPR, Sound, Shape
<1>2. \A y \in Host : P[y] <=> (y \notin HostsOf(n, r) /\ n.prot[y])
  OBVIOUS
<1> HIDE DEF P
<1>3. /\ Ends(n, o, {}) /\ o.prot = P /\ o.mapped = n.mapped /\ o.slip = n.slip /\ o.fault = n.fault
      /\ o.reg = n.reg /\ o.gpr = n.gpr
  BY <1>1, Protecting
<1>4. \A q : Same(n, o, q) /\ HostsOf(o, q) = HostsOf(n, q) /\ (IsMapped(o, q) <=> IsMapped(n, q))
  BY <1>1, Protecting
<1> HIDE DEF o
<1>5. Prots(o) = Prots(n) \ HostsOf(n, r)
  BY <1>2, <1>3 DEF Prots
<1>6. \A y \in Host : n.mapped[y] = "temp" => y \notin HostsOf(n, r)
  BY DEF Sound, Marked
<1>7. \A y \in Host : n.mapped[y] = "temp" /\ n.prot[y] => o.mapped[y] = "temp" /\ o.prot[y]
  BY <1>2, <1>3, <1>6
<1>8. \A q \in Guest \ {r} : Pinned(n, q) => Pinned(o, q)
  BY <1>4, <1>5 DEF Pinned, Prots, Sound, Apart
<1> QED
  BY <1>1, <1>3, <1>4, <1>5, <1>7, <1>8 DEF Temp

LEMMA SetProtectionEnds ==
    ASSUME NEW n, Sound(n), NEW y \in Host, NEW b \in BOOLEAN
    PROVE  LET o == SetProtection(n, y, b)
           IN /\ Ends(n, o, {}) /\ Prots(o) = (IF b THEN Prots(n) \cup {y} ELSE Prots(n) \ {y})
              /\ o.mapped = n.mapped /\ o.slip = n.slip /\ o.fault = n.fault /\ o.reg = n.reg /\ o.gpr = n.gpr
              /\ \A q : Same(n, o, q) /\ HostsOf(o, q) = HostsOf(n, q) /\ (IsMapped(o, q) <=> IsMapped(n, q))
<1> DEFINE P == [n.prot EXCEPT ![y] = b]
           o == [n EXCEPT !.prot = P]
<1>1. P \in [Host -> BOOLEAN] /\ SetProtection(n, y, b) = o
  BY DEF SetProtection, Sound, Shape, Fields
<1>2. \A z \in Host : P[z] = IF z = y THEN b ELSE n.prot[z]
  BY DEF Sound, Shape
<1> HIDE DEF P
<1>3. /\ Ends(n, o, {}) /\ o.prot = P /\ o.mapped = n.mapped /\ o.slip = n.slip /\ o.fault = n.fault
      /\ o.reg = n.reg /\ o.gpr = n.gpr
  BY <1>1, Protecting
<1>4. \A q : Same(n, o, q) /\ HostsOf(o, q) = HostsOf(n, q) /\ (IsMapped(o, q) <=> IsMapped(n, q))
  BY <1>1, Protecting
<1> HIDE DEF o
<1>5. Prots(o) = (IF b THEN Prots(n) \cup {y} ELSE Prots(n) \ {y})
  BY <1>2, <1>3 DEF Prots
<1> QED
  BY <1>1, <1>3, <1>4, <1>5

(* What mapping does to the fields.                                        *)
LEMMA YoungestFields ==
    ASSUME NEW n, Shape(n), NEW X \in SUBSET Host
    PROVE  LET o == Youngest(n, X)
           IN /\ Shape(o) /\ o.st = n.st /\ o.lo = n.lo /\ o.hi = n.hi /\ o.mapped = n.mapped /\ o.prot = n.prot
              /\ o.x = n.x /\ o.gpr = n.gpr /\ o.live = n.live /\ o.slip = n.slip /\ o.fault = n.fault
              /\ o.reg = n.reg /\ o.order \in [Host -> Nat]
              /\ \A y \in Host : (y \in X => o.order[y] > 0) /\ (n.order[y] > 0 => o.order[y] > 0)
<1> DEFINE f == [y \in Host |-> IF y \in X THEN 1 ELSE IF n.order[y] > 0 THEN n.order[y] + 1 ELSE 0]
           o == [n EXCEPT !.order = f]
<1>1. Youngest(n, X) = o
  BY DEF Youngest, Shape, Fields
<1>2. f \in [Host -> Nat] /\ \A y \in Host : (y \in X => f[y] > 0) /\ (n.order[y] > 0 => f[y] > 0)
  BY DEF Shape
<1> HIDE DEF f
<1> QED
  BY <1>1, <1>2 DEF Shape, Fields

LEMMA SetX86Fields ==
    ASSUME NEW n, Shape(n), NEW y \in Host, NEW w
    PROVE  LET o == SetX86(n, y, w)
           IN /\ Shape(o) /\ o.st = n.st /\ o.lo = n.lo /\ o.hi = n.hi /\ o.mapped = n.mapped /\ o.prot = n.prot
              /\ o.gpr = n.gpr /\ o.live = n.live /\ o.slip = n.slip /\ o.fault = n.fault
              /\ o.reg = n.reg /\ o.order = n.order
              /\ \A z \in Host \ {y} : o.x[z] = n.x[z]
              /\ n.live => o.x[y] = w
BY DEF SetX86, Shape, Fields

LEMMA LoadLowFields ==
    ASSUME NEW n, Shape(n), NEW y \in Host, NEW r
    PROVE  LET o == LoadLow(n, y, r)
           IN /\ Shape(o) /\ o.st = n.st /\ o.lo = n.lo /\ o.hi = n.hi /\ o.mapped = n.mapped /\ o.prot = n.prot
              /\ o.gpr = n.gpr /\ o.live = n.live /\ o.slip = n.slip /\ o.fault = n.fault
              /\ o.reg = n.reg /\ o.order = n.order
              /\ \A z \in Host \ {y} : o.x[z] = n.x[z]
BY SetX86Fields DEF LoadLow

Narrow32 == {STATE_MAPPED_32_SIGN, STATE_MAPPED_32_ZERO}

LEMMA Hosted32Fields ==
    ASSUME NEW n, Shape(n), n.reg \in Host, NEW r \in Guest, NEW b \in BOOLEAN, NEW load
    PROVE  LET o == Hosted32(n, r, b, load)
           IN /\ Shape(o) /\ o.lo[r] = n.reg /\ o.st[r] \in Narrow32
              /\ \A q \in Guest \ {r} : Same(n, o, q)
              /\ \A y \in Host : o.mapped[y] = IF y = n.reg THEN "gpr" ELSE n.mapped[y]
              /\ \A y \in Host : o.prot[y] <=> (y = n.reg \/ n.prot[y])
              /\ o.gpr = n.gpr /\ o.live = n.live /\ o.slip = n.slip /\ o.fault = n.fault
              /\ o.reg = n.reg
              /\ \A z \in Host \ {n.reg} : o.x[z] = n.x[z]
              /\ \A y \in Host : (y = n.reg => o.order[y] > 0) /\ (n.order[y] > 0 => o.order[y] > 0)
<1> DEFINE j == Youngest(n, {n.reg})
           k == LoadLow(j, n.reg, load)
           o == Hosted32(n, r, b, load)
<1>1. /\ Shape(j) /\ j.st = n.st /\ j.lo = n.lo /\ j.hi = n.hi /\ j.mapped = n.mapped /\ j.prot = n.prot
      /\ j.x = n.x /\ j.gpr = n.gpr /\ j.live = n.live /\ j.slip = n.slip /\ j.fault = n.fault
      /\ j.reg = n.reg
      /\ \A y \in Host : (y = n.reg => j.order[y] > 0) /\ (n.order[y] > 0 => j.order[y] > 0)
  BY YoungestFields
<1> HIDE DEF j
<1>2. /\ Shape(k) /\ k.st = n.st /\ k.lo = n.lo /\ k.hi = n.hi /\ k.mapped = n.mapped /\ k.prot = n.prot
      /\ k.gpr = n.gpr /\ k.live = n.live /\ k.slip = n.slip /\ k.fault = n.fault
      /\ k.reg = n.reg /\ k.order = j.order
      /\ \A z \in Host \ {n.reg} : k.x[z] = n.x[z]
  BY <1>1, LoadLowFields
<1>3. o = [k EXCEPT
            !.mapped[n.reg] = "gpr", !.prot[n.reg] = TRUE, !.lo[r] = n.reg,
            !.hi[r] = IF n.st[r] = STATE_MAPPED_64 THEN 0 ELSE @,
            !.st[r] = IF b THEN STATE_MAPPED_32_SIGN ELSE STATE_MAPPED_32_ZERO]
  BY DEF Hosted32, k, j, NoReg, Host, EAX, ECX, EDX, EBX, ESI, EDI
<1> HIDE DEF k, o
<1>4. /\ DOMAIN o = Fields /\ o.order = k.order /\ o.x = k.x /\ o.gpr = k.gpr /\ o.live = k.live
      /\ o.slip = k.slip /\ o.fault = k.fault /\ o.reg = k.reg
      /\ o.mapped = [k.mapped EXCEPT ![n.reg] = "gpr"] /\ o.prot = [k.prot EXCEPT ![n.reg] = TRUE]
      /\ o.lo = [k.lo EXCEPT ![r] = n.reg]
      /\ o.hi = [k.hi EXCEPT ![r] = IF n.st[r] = STATE_MAPPED_64 THEN 0 ELSE @]
      /\ o.st = [k.st EXCEPT ![r] = IF b THEN STATE_MAPPED_32_SIGN ELSE STATE_MAPPED_32_ZERO]
  BY <1>2, <1>3 DEF Shape, Fields
<1>5. Shape(o)
  BY <1>2, <1>4 DEF Shape, Marks, RegisterStates
<1>6. o.lo[r] = n.reg /\ o.st[r] \in Narrow32 /\ \A q \in Guest \ {r} : Same(n, o, q)
  BY <1>2, <1>4 DEF Shape, Narrow32, Same
<1>7. /\ \A y \in Host : o.mapped[y] = IF y = n.reg THEN "gpr" ELSE n.mapped[y]
      /\ \A y \in Host : o.prot[y] <=> (y = n.reg \/ n.prot[y])
  BY <1>2, <1>4 DEF Shape
<1> QED
  BY <1>1, <1>2, <1>4, <1>5, <1>6, <1>7 DEF o

LEMMA Narrow32Facts ==
    ASSUME NEW n, NEW r, n.st[r] \in Narrow32
    PROVE  /\ IsMapped(n, r) /\ Is32Bit(n, r) /\ ~Is64Bit(n, r) /\ HostsOf(n, r) = {n.lo[r]}
           /\ n.st[r] # STATE_MAPPED_64
BY DEF Narrow32, IsMapped, IsConst, IsKnown, IsUnknown, Is64Bit, Is32Bit, HostsOf, STATE_UNKNOWN, STATE_CONST_32,
       STATE_CONST_64, STATE_MAPPED_32_SIGN, STATE_MAPPED_32_ZERO, STATE_MAPPED_64

LEMMA MappedStates ==
    ASSUME NEW n, NEW r, n.st[r] \in RegisterStates
    PROVE  /\ IsMapped(n, r) => n.st[r] \in Narrow32 \/ n.st[r] = STATE_MAPPED_64
           /\ IsMapped(n, r) => (Is64Bit(n, r) <=> n.st[r] = STATE_MAPPED_64)
BY DEF RegisterStates, Narrow32, IsMapped, IsConst, IsKnown, IsUnknown, Is64Bit, STATE_UNKNOWN, STATE_CONST_32,
       STATE_CONST_64, STATE_MAPPED_32_SIGN, STATE_MAPPED_32_ZERO, STATE_MAPPED_64

(* The register r with one x86 register.                                   *)
LEMMA MapGPR32 ==
    ASSUME NEW n, Sound(n), NEW r \in Guest \ {0}, IsMapped(n, r) \/ Room(n, 1), NEW b \in BOOLEAN, NEW load
    PROVE  LET o == Map_GPR_32bit(n, r, b, load)
           IN /\ Does(n, o, {r}) /\ o.st[r] \in Narrow32 /\ o.lo[r] \in Host /\ Pinned(o, r)
              /\ Prots(o) \subseteq Prots(n) \cup {o.lo[r]}
              /\ \A k \in Nat : Room(n, k + 1) => Room(o, k)
<1> DEFINE o == Map_GPR_32bit(n, r, b, load)
           f == OneHost(n, r)
<1>1. o = Hosted32(f, r, b, load)
  BY DEF Map_GPR_32bit
<1>2. CASE IsMapped(n, r)
  <2> DEFINE X == HostsOf(n, r)
             y == n.lo[r]
  <2>1. /\ Shape(f) /\ f.reg = y /\ y \in Host /\ y \in X /\ X \subseteq Host
        /\ f.st = n.st /\ f.lo = n.lo /\ f.hi = n.hi /\ f.x = n.x /\ f.gpr = n.gpr /\ f.live = n.live
        /\ f.slip = n.slip /\ f.fault = n.fault
        /\ \A z \in Host : f.mapped[z] = IF z \in X /\ z # y THEN "none" ELSE n.mapped[z]
        /\ \A z \in Host : f.prot[z] <=> (~(z \in X /\ z # y) /\ n.prot[z])
        /\ \A z \in Host : z \notin X \/ z = y => f.order[z] = n.order[z]
    <3>1. y \in Host /\ y \in X /\ X \subseteq Host
      BY <1>2, HostsInside, StateFacts DEF Sound, Homes
    <3>2. CASE ~Is64Bit(n, r)
      <4>1. f = Returning(n, y)
        BY <1>2, <3>2 DEF OneHost
      <4>2. X = {y}
        BY <1>2, <3>2 DEF HostsOf
      <4> HIDE DEF f, X
      <4> QED
        BY <3>1, <4>1, <4>2 DEF Returning, Sound, Shape, Fields
    <3>3. CASE Is64Bit(n, r)
      <4> DEFINE h == n.hi[r]
      <4>1. X = {y, h} /\ h \in Host /\ h # y
        BY <1>2, <3>3, MappedStates, HostsInside DEF HostsOf, Sound, Homes
      <4>2. f = Returning([Release(n, {h}) EXCEPT !.order[h] = 0], y)
        BY <1>2, <3>3 DEF OneHost
      <4> HIDE DEF f, X, h, y
      <4>3. /\ DOMAIN f = Fields /\ f.reg = y
            /\ f.st = n.st /\ f.lo = n.lo /\ f.hi = n.hi /\ f.x = n.x /\ f.gpr = n.gpr /\ f.live = n.live
            /\ f.slip = n.slip /\ f.fault = n.fault
            /\ f.mapped = [z \in Host |-> IF z \in {h} THEN "none" ELSE n.mapped[z]]
            /\ f.prot = [z \in Host |-> z \notin {h} /\ n.prot[z]]
            /\ f.order = [n.order EXCEPT ![h] = 0]
        BY <4>2 DEF Returning, Release, Sound, Shape, Fields
      <4>4. Shape(f)
        BY <4>1, <4>3 DEF Sound, Shape, Marks
      <4>5. \A z \in Host : (z \in X /\ z # y) <=> z = h
        BY <4>1
      <4>6. \A z \in Host : f.mapped[z] = IF z \in X /\ z # y THEN "none" ELSE n.mapped[z]
        BY <4>3, <4>5
      <4>7. \A z \in Host : f.prot[z] <=> (~(z \in X /\ z # y) /\ n.prot[z])
        BY <4>3, <4>5
      <4>8. \A z \in Host : z \notin X \/ z = y => f.order[z] = n.order[z]
        BY <4>1, <4>3 DEF Sound, Shape
      <4> QED
        BY <3>1, <4>3, <4>4, <4>6, <4>7, <4>8
    <3> QED
      BY <3>2, <3>3
  <2> HIDE DEF f, X, y
  <2>2. /\ Shape(o) /\ o.lo[r] = y /\ o.st[r] \in Narrow32
        /\ \A q \in Guest \ {r} : Same(f, o, q)
        /\ \A z \in Host : o.mapped[z] = IF z = y THEN "gpr" ELSE f.mapped[z]
        /\ \A z \in Host : o.prot[z] <=> (z = y \/ f.prot[z])
        /\ o.gpr = f.gpr /\ o.live = f.live /\ o.slip = f.slip /\ o.fault = f.fault
        /\ \A z \in Host \ {y} : o.x[z] = f.x[z]
        /\ \A z \in Host : (z = y => o.order[z] > 0) /\ (f.order[z] > 0 => o.order[z] > 0)
    BY <1>1, <2>1, Hosted32Fields
  <2> HIDE DEF o
  <2>3. IsMapped(o, r) /\ HostsOf(o, r) = {y} /\ o.st[r] # STATE_MAPPED_64
    BY <2>2, Narrow32Facts
  <2>4. \A q \in Guest \ {r} : Same(n, o, q)
    BY <2>1, <2>2 DEF Same
  <2>5. \A z \in X : n.mapped[z] = "gpr"
    BY <2>1 DEF X, Sound, Marked
  <2>6. \A z \in Host : o.mapped[z] = "gpr" <=> z \in HostsOf(o, r) \/ (n.mapped[z] = "gpr" /\ z \notin HostsOf(n, r))
    BY <2>1, <2>2, <2>3, <2>5 DEF X
  <2>7. \A z \in Host : o.mapped[z] = "gpr" => o.order[z] > 0
    BY <2>1, <2>2, <2>5 DEF Sound, Marked
  <2>8. \A z \in Host : z \notin HostsOf(n, r) /\ z \notin HostsOf(o, r) => o.x[z] = n.x[z]
    BY <2>1, <2>2, <2>3
  <2>9. \A z \in Host : n.prot[z] /\ z \notin HostsOf(n, r) => o.prot[z]
    BY <2>1, <2>2 DEF X
  <2>10. \A z \in Host : n.mapped[z] = "temp" /\ n.prot[z] => o.mapped[z] = "temp"
    BY <2>1, <2>2, <2>5
  <2>11. \A z \in HostsOf(o, r) : z \in HostsOf(n, r)
    BY <2>1, <2>3 DEF X
  <2>12. Does(n, o, {r})
    BY <2>1, <2>2, <2>3, <2>4, <2>6, <2>7, <2>8, <2>9, <2>10, <2>11, RehostedDoes
  <2>13. Pinned(o, r) /\ o.lo[r] \in Host /\ Prots(o) \subseteq Prots(n) \cup {o.lo[r]}
    BY <2>1, <2>2, <2>3 DEF Pinned, Prots
  <2>14. \A k \in Nat : Room(n, k + 1) => Room(o, k)
    BY <2>13, Rooms
  <2> QED
    BY <2>2, <2>12, <2>13, <2>14 DEF o
<1>3. CASE ~IsMapped(n, r)
  <2> DEFINE y == f.reg
  <2>1. f = FreeX86Reg(n) /\ Room(n, 1)
    BY <1>3 DEF OneHost
  <2> HIDE DEF f
  <2>2. /\ Does(n, f, {}) /\ Prots(f) \subseteq Prots(n)
        /\ y \in Host /\ f.mapped[y] = "none"
        /\ Same(n, f, r)
    BY <1>3, <2>1, FreeReg
  <2>3. Sound(f) /\ Shape(f) /\ ~IsMapped(f, r) /\ HostsOf(f, r) = {}
    BY <1>3, <2>2, SameHosts, StateFacts DEF Does, Sound, HostsOf
  <2> HIDE DEF y
  <2>4. /\ Shape(o) /\ o.lo[r] = y /\ o.st[r] \in Narrow32
        /\ \A q \in Guest \ {r} : Same(f, o, q)
        /\ \A z \in Host : o.mapped[z] = IF z = y THEN "gpr" ELSE f.mapped[z]
        /\ \A z \in Host : o.prot[z] <=> (z = y \/ f.prot[z])
        /\ o.gpr = f.gpr /\ o.live = f.live /\ o.slip = f.slip /\ o.fault = f.fault
        /\ \A z \in Host \ {y} : o.x[z] = f.x[z]
        /\ \A z \in Host : (z = y => o.order[z] > 0) /\ (f.order[z] > 0 => o.order[z] > 0)
    BY <1>1, <2>2, <2>3, Hosted32Fields DEF y
  <2> HIDE DEF o
  <2>5. IsMapped(o, r) /\ HostsOf(o, r) = {y} /\ o.st[r] # STATE_MAPPED_64
    BY <2>4, Narrow32Facts
  <2>6. \A z \in Host : o.mapped[z] = "gpr" <=> z \in HostsOf(o, r) \/ (f.mapped[z] = "gpr" /\ z \notin HostsOf(f, r))
    BY <2>3, <2>4, <2>5
  <2>7. \A z \in Host : o.mapped[z] = "gpr" => o.order[z] > 0
    BY <2>3, <2>4 DEF Sound, Marked
  <2>8. Does(f, o, {r})
    <3>1. \A z \in HostsOf(o, r) : z \in HostsOf(f, r) \/ f.mapped[z] # "gpr"
      BY <2>2, <2>5
    <3>2. \A z \in Host : z \notin HostsOf(f, r) /\ z \notin HostsOf(o, r) => o.x[z] = f.x[z]
      BY <2>4, <2>5
    <3>3. \A z \in Host : f.prot[z] => o.prot[z]
      BY <2>4
    <3>4. \A z \in Host : f.mapped[z] = "temp" /\ f.prot[z] => o.mapped[z] = "temp"
      BY <2>2, <2>4
    <3> QED
      BY <2>2, <2>3, <2>4, <2>5, <2>6, <2>7, <3>1, <3>2, <3>3, <3>4, RehostedDoes
  <2>9. Does(n, o, {r})
    BY <2>2, <2>8, DoesTrans
  <2>10. Pinned(o, r) /\ o.lo[r] \in Host /\ Prots(o) \subseteq Prots(n) \cup {o.lo[r]}
    BY <2>2, <2>4, <2>5 DEF Pinned, Prots
  <2>11. \A k \in Nat : Room(n, k + 1) => Room(o, k)
    BY <2>10, Rooms
  <2> QED
    BY <2>4, <2>9, <2>10, <2>11 DEF o
<1> QED
  BY <1>2, <1>3

LEMMA SetX86Rest ==
    ASSUME NEW n, Sound(n), NEW y, NEW w
    PROVE  /\ SetX86(n, y, w).mapped = n.mapped /\ SetX86(n, y, w).prot = n.prot
           /\ SetX86(n, y, w).live = n.live /\ SetX86(n, y, w).slip = n.slip
           /\ SetX86(n, y, w).reg = n.reg /\ SetX86(n, y, w).gpr = n.gpr
           /\ Prots(SetX86(n, y, w)) = Prots(n)
<1> DEFINE o == SetX86(n, y, w)
<1>1. /\ o.mapped = n.mapped /\ o.prot = n.prot /\ o.live = n.live /\ o.slip = n.slip
      /\ o.reg = n.reg /\ o.gpr = n.gpr
  BY DEF SetX86, Sound, Shape, Fields, Fault
<1> HIDE DEF o
<1>2. Prots(o) = Prots(n)
  BY <1>1 DEF Prots
<1> QED
  BY <1>1, <1>2 DEF o

(* What is then put into the register stays in it.                         *)
LEMMA SetHost ==
    ASSUME NEW n, Sound(n), NEW r \in Guest, NEW y \in HostsOf(n, r), NEW w
    PROVE  Does(n, SetX86(n, y, w), {r})
<1> DEFINE o == SetX86(n, y, w)
           Q == {q \in Guest : y \in HostsOf(n, q)}
<1>1. y \in Host
  BY HostsInside
<1>2. Sound(o) /\ Frame(n, o, {}) /\ Effect(n, o, Q)
  BY <1>1, SetX86Sound
<1>3. Q \subseteq {r}
  BY <1>1 DEF Sound, Apart
<1> HIDE DEF o, Q
<1>4. Frame(n, o, {r}) /\ Effect(n, o, {r})
  BY <1>2, <1>3 DEF Frame, Effect
<1> QED
  BY <1>2, <1>4 DEF Does, o

LEMMA SetLowDoes ==
    ASSUME NEW n, Sound(n), NEW r \in Guest, IsMapped(n, r), NEW w
    PROVE  LET o == SetLow(n, r, w)
           IN /\ Does(n, o, {r}) /\ Same(n, o, r) /\ Prots(o) = Prots(n) /\ o.prot = n.prot /\ o.mapped = n.mapped
              /\ o.slip = n.slip
<1>1. n.lo[r] \in HostsOf(n, r)
  BY StateFacts
<1>2. Does(n, SetLow(n, r, w), {r})
  BY <1>1, SetHost DEF SetLow
<1> DEFINE o == SetX86(n, n.lo[r], w)
<1>3. Same(n, o, r)
  BY SetX86Sound
<1>4. Prots(o) = Prots(n) /\ o.prot = n.prot
  BY SetX86Rest
<1>5. o.mapped = n.mapped /\ o.slip = n.slip
  BY SetX86Rest
<1> QED
  BY <1>2, <1>3, <1>4, <1>5 DEF SetLow

LEMMA SetBothDoes ==
    ASSUME NEW n, Sound(n), NEW r \in Guest, n.st[r] = STATE_MAPPED_64, NEW d
    PROVE  Does(n, SetBoth(n, r, d), {r})
<1> DEFINE o == SetHigh(n, r, d.hi)
<1>1. n.hi[r] \in HostsOf(n, r) /\ IsMapped(n, r)
  BY StateFacts
<1>2. Does(n, o, {r})
  BY <1>1, SetHost DEF SetHigh
<1>3. Same(n, o, r)
  BY SetX86Sound DEF SetHigh
<1> HIDE DEF o
<1>4. Sound(o) /\ IsMapped(o, r)
  BY <1>1, <1>2, <1>3, SameHosts DEF Does
<1>5. Does(o, SetLow(o, r, d.lo), {r})
  BY <1>4, SetLowDoes
<1>6. Does(n, SetLow(o, r, d.lo), {r})
  BY <1>2, <1>5, DoesTrans
<1> QED
  BY <1>6 DEF SetBoth, o

(* Register 0 is never mapped; what is emitted for it has no effect that   *)
(* counts, but the cache is sound.                                         *)
LEMMA MapSet32 ==
    ASSUME NEW n, Sound(n), NEW r \in Guest, IsMapped(n, r) \/ Room(n, 1), NEW b \in BOOLEAN, NEW load, NEW w
    PROVE  LET o == SetLow(Map_GPR_32bit(n, r, b, load), r, w)
           IN /\ Sound(o) /\ o.live = n.live /\ (n.slip => o.slip) 
              /\ r # 0 => Does(n, o, {r}) /\ Ends(n, o, {r}) /\ o.st[r] \in Narrow32
<1> DEFINE k == Map_GPR_32bit(n, r, b, load)
           o == SetLow(k, r, w)
<1>1. CASE r = 0
  <2>1. o = SetX86(n, n.lo[r], w)
    BY <1>1 DEF Map_GPR_32bit, SetLow
  <2> HIDE DEF o
  <2>2. Sound(o)
    BY <2>1, SetX86Sound
  <2>3. o.live = n.live /\ o.slip = n.slip
    BY <2>1, SetX86Rest
  <2> QED
    BY <1>1, <2>2, <2>3 DEF o
<1>2. CASE r # 0
  <2>1. Does(n, k, {r}) /\ k.st[r] \in Narrow32
    BY <1>2, MapGPR32
  <2> HIDE DEF k
  <2>2. Sound(k) /\ IsMapped(k, r)
    BY <2>1, Narrow32Facts DEF Does
  <2>3. Does(k, o, {r}) /\ Same(k, o, r)
    BY <2>2, SetLowDoes
  <2> HIDE DEF o
  <2>4. Does(n, o, {r})
    BY <2>1, <2>3, DoesTrans
  <2>5. o.st[r] \in Narrow32 /\ Sound(o) /\ o.live = n.live /\ (n.slip => o.slip) /\ Ends(n, o, {r})
    BY <2>1, <2>3, <2>4 DEF Same, Does, Effect, Ends
  <2> QED
    BY <1>2, <2>4, <2>5 DEF o, k
<1> QED
  BY <1>1, <1>2

LEMMA Load64Fields ==
    ASSUME NEW n, Shape(n), NEW h \in Host, NEW y \in Host, NEW r
    PROVE  LET o == Load64(n, h, y, r)
           IN /\ Shape(o) /\ o.st = n.st /\ o.lo = n.lo /\ o.hi = n.hi /\ o.mapped = n.mapped /\ o.prot = n.prot
              /\ o.gpr = n.gpr /\ o.live = n.live /\ (n.slip => o.slip) /\ o.fault = n.fault
              /\ o.reg = n.reg /\ o.order = n.order
              /\ \A z \in Host \ {h, y} : o.x[z] = n.x[z]
<1> DEFINE o == Load64(n, h, y, r)
<1>1. CASE r < 0
  <2>1. o = n
    BY <1>1 DEF Load64
  <2> HIDE DEF o
  <2>2. /\ Shape(o) /\ o.st = n.st /\ o.lo = n.lo /\ o.hi = n.hi /\ o.mapped = n.mapped /\ o.prot = n.prot
        /\ o.gpr = n.gpr /\ o.live = n.live /\ (n.slip => o.slip) /\ o.fault = n.fault
        /\ o.reg = n.reg /\ o.order = n.order
        /\ \A z \in Host \ {h, y} : o.x[z] = n.x[z]
    BY <2>1
  <2> QED
    BY <2>2 DEF o
<1>2. CASE ~(r < 0)
  <2> DEFINE w == IF HighLost(n, r) THEN 0 ELSE HighWord(n, r)
             v == LowWord(n, r)
             c == HighLost(n, r) /\ Negative(n.lo[r])
             j == SetX86(n, h, w)
             k == SetX86(j, y, v)
  <2>1. o = [k EXCEPT !.slip = @ \/ c]
    BY <1>2 DEF Load64, Slip
  <2> HIDE DEF o, w, v, c
  <2>2. /\ Shape(j) /\ j.st = n.st /\ j.lo = n.lo /\ j.hi = n.hi /\ j.mapped = n.mapped /\ j.prot = n.prot
        /\ j.gpr = n.gpr /\ j.live = n.live /\ j.slip = n.slip /\ j.fault = n.fault
        /\ j.reg = n.reg /\ j.order = n.order
        /\ \A z \in Host \ {h} : j.x[z] = n.x[z]
    BY SetX86Fields
  <2> HIDE DEF j
  <2>3. /\ Shape(k) /\ k.st = j.st /\ k.lo = j.lo /\ k.hi = j.hi /\ k.mapped = j.mapped /\ k.prot = j.prot
        /\ k.gpr = j.gpr /\ k.live = j.live /\ k.slip = j.slip /\ k.fault = j.fault
        /\ k.reg = j.reg /\ k.order = j.order
        /\ \A z \in Host \ {y} : k.x[z] = j.x[z]
    BY <2>2, SetX86Fields
  <2> HIDE DEF k
  <2>4. /\ DOMAIN o = Fields /\ o.st = k.st /\ o.lo = k.lo /\ o.hi = k.hi /\ o.mapped = k.mapped /\ o.prot = k.prot
        /\ o.gpr = k.gpr /\ o.live = k.live /\ o.fault = k.fault
        /\ o.reg = k.reg /\ o.order = k.order /\ o.x = k.x /\ o.slip = (k.slip \/ c)
    BY <2>1, <2>3 DEF Shape, Fields
  <2>5. Shape(o)
    BY <2>3, <2>4 DEF Shape
  <2>6. /\ Shape(o) /\ o.st = n.st /\ o.lo = n.lo /\ o.hi = n.hi /\ o.mapped = n.mapped /\ o.prot = n.prot
        /\ o.gpr = n.gpr /\ o.live = n.live /\ (n.slip => o.slip) /\ o.fault = n.fault
        /\ o.reg = n.reg /\ o.order = n.order
        /\ \A z \in Host \ {h, y} : o.x[z] = n.x[z]
    BY <2>2, <2>3, <2>4, <2>5
  <2> QED
    BY <2>6 DEF o
<1> QED
  BY <1>1, <1>2

LEMMA Hosted64Fields ==
    ASSUME NEW n, Shape(n), NEW y \in Host, n.reg = y, NEW h \in Host, NEW r \in Guest, NEW load
    PROVE  LET o == Hosted64(n, r, h, load)
           IN /\ Shape(o) /\ o.lo[r] = y /\ o.hi[r] = h /\ o.st[r] = STATE_MAPPED_64
              /\ \A q \in Guest \ {r} : Same(n, o, q)
              /\ \A z \in Host : o.mapped[z] = IF z \in {h, y} THEN "gpr" ELSE n.mapped[z]
              /\ \A z \in Host : o.prot[z] <=> (z \in {h, y} \/ n.prot[z])
              /\ o.gpr = n.gpr /\ o.live = n.live /\ (n.slip => o.slip) /\ o.fault = n.fault
              /\ \A z \in Host \ {h, y} : o.x[z] = n.x[z]
              /\ \A z \in Host : (z \in {h, y} => o.order[z] > 0) /\ (n.order[z] > 0 => o.order[z] > 0)
<1> DEFINE i == Protect(n, {h, y})
           j == Youngest(i, {h, y})
           k == Load64(j, h, y, load)
           o == Hosted64(n, r, h, load)
<1>0. /\ Shape(i) /\ i.st = n.st /\ i.lo = n.lo /\ i.hi = n.hi /\ i.mapped = n.mapped
      /\ i.x = n.x /\ i.gpr = n.gpr /\ i.live = n.live /\ i.slip = n.slip /\ i.fault = n.fault
      /\ i.reg = n.reg /\ i.order = n.order
      /\ \A z \in Host : i.prot[z] <=> (z \in {h, y} \/ n.prot[z])
  BY DEF Protect, Shape, Fields
<1> HIDE DEF i
<1>1. /\ Shape(j) /\ j.st = i.st /\ j.lo = i.lo /\ j.hi = i.hi /\ j.mapped = i.mapped /\ j.prot = i.prot
      /\ j.x = i.x /\ j.gpr = i.gpr /\ j.live = i.live /\ j.slip = i.slip /\ j.fault = i.fault
      /\ j.reg = i.reg
      /\ \A z \in Host : (z \in {h, y} => j.order[z] > 0) /\ (i.order[z] > 0 => j.order[z] > 0)
  <2>1. {h, y} \in SUBSET Host
    OBVIOUS
  <2> QED
    BY <1>0, <2>1, YoungestFields
<1> HIDE DEF j
<1>2. /\ Shape(k) /\ k.st = j.st /\ k.lo = j.lo /\ k.hi = j.hi /\ k.mapped = j.mapped /\ k.prot = j.prot
      /\ k.gpr = j.gpr /\ k.live = j.live /\ (j.slip => k.slip) /\ k.fault = j.fault
      /\ k.reg = j.reg /\ k.order = j.order
      /\ \A z \in Host \ {h, y} : k.x[z] = j.x[z]
  BY <1>1, Load64Fields
<1>3. o = [k EXCEPT !.mapped[h] = "gpr", !.mapped[y] = "gpr",
                    !.hi[r] = h, !.lo[r] = y, !.st[r] = STATE_MAPPED_64]
  BY DEF Hosted64, k, j, i, NoReg, Host, EAX, ECX, EDX, EBX, ESI, EDI
<1> HIDE DEF k, o
<1>4. /\ DOMAIN o = Fields /\ o.order = k.order /\ o.x = k.x /\ o.gpr = k.gpr /\ o.live = k.live
      /\ o.slip = k.slip /\ o.fault = k.fault /\ o.reg = k.reg /\ o.prot = k.prot
      /\ o.mapped = [[k.mapped EXCEPT ![h] = "gpr"] EXCEPT ![y] = "gpr"]
      /\ o.lo = [k.lo EXCEPT ![r] = y]
      /\ o.hi = [k.hi EXCEPT ![r] = h]
      /\ o.st = [k.st EXCEPT ![r] = STATE_MAPPED_64]
  BY <1>2, <1>3 DEF Shape, Fields
<1>5. Shape(o)
  BY <1>2, <1>4 DEF Shape, Marks, RegisterStates
<1>6. o.lo[r] = y /\ o.hi[r] = h /\ o.st[r] = STATE_MAPPED_64 /\ \A q \in Guest \ {r} : Same(n, o, q)
  BY <1>0, <1>1, <1>2, <1>4 DEF Shape, Same
<1>7. \A z \in Host : o.mapped[z] = IF z \in {h, y} THEN "gpr" ELSE n.mapped[z]
  BY <1>0, <1>1, <1>2, <1>4 DEF Shape
<1>8. \A z \in Host : o.prot[z] <=> (z \in {h, y} \/ n.prot[z])
  BY <1>0, <1>1, <1>2, <1>4
<1> QED
  BY <1>0, <1>1, <1>2, <1>4, <1>5, <1>6, <1>7, <1>8 DEF o

(* The register r with two.                                                *)
LEMMA MapGPR64 ==
    ASSUME NEW n, Sound(n), NEW r \in Guest \ {0}, NEW load,
           n.st[r] = STATE_MAPPED_64 \/ Room(n, 2) \/ (Pinned(n, r) /\ Room(n, 1))
    PROVE  LET o == Map_GPR_64bit(n, r, load)
           IN /\ Does(n, o, {r}) /\ o.st[r] = STATE_MAPPED_64 /\ Pinned(o, r)
              /\ \A k \in Nat : Room(n, k + 2) => Room(o, k)
<1> DEFINE p == ProtectGPR(n, r)
           g == HighHost(p, r)
           l == LowHost(g, r)
           h == g.reg
           y == l.reg
           o == Map_GPR_64bit(n, r, load)
<1>1. o = Hosted64(l, r, h, load)
  BY DEF Map_GPR_64bit, BesidesHigh
<1>2. /\ Does(n, p, {}) /\ Prots(p) = Prots(n) \cup HostsOf(n, r)
      /\ Same(n, p, r) /\ HostsOf(p, r) = HostsOf(n, r) /\ (IsMapped(p, r) <=> IsMapped(n, r))
      /\ p.mapped = n.mapped
  BY ProtectGPRDoes
<1>3. /\ IsMapped(n, r) => Pinned(p, r)
      /\ ~IsMapped(n, r) \/ Pinned(n, r) => \A k \in Nat : Room(n, k) => Room(p, k)
      /\ Is32Bit(n, r) => \A k \in Nat : Room(n, k + 1) => Room(p, k)
  BY ProtectGPRDoes
<1> HIDE DEF p
<1>4. /\ Sound(l) /\ Does(n, l, {}) /\ h \in Host /\ y \in Host /\ h # y
      /\ \A z \in {h, y} : z \in HostsOf(l, r) \/ l.mapped[z] = "none"
      /\ HostsOf(l, r) \subseteq {h, y} /\ Prots(l) \subseteq Prots(n) \cup {h, y}
  <2>1. CASE n.st[r] = STATE_MAPPED_64
    <3>1. g = Returning(p, p.hi[r]) /\ HostsOf(p, r) = {p.lo[r], p.hi[r]}
      BY <1>2, <2>1, StateFacts DEF HighHost, Same
    <3>2. /\ p.hi[r] \in Host /\ p.lo[r] \in Host /\ p.hi[r] # p.lo[r] /\ p.st[r] = STATE_MAPPED_64
          /\ IsMapped(p, r)
      BY <1>2, <2>1, StateFacts DEF Does, Sound, Homes, Same
    <3> HIDE DEF g
    <3>3. Does(p, g, {}) /\ Prots(g) = Prots(p) /\ h = p.hi[r]
      BY <1>2, <3>1, ReturningDoes DEF Does
    <3>4. Same(p, g, r) /\ HostsOf(g, r) = HostsOf(p, r) /\ (IsMapped(g, r) <=> IsMapped(p, r))
      BY <1>2, <3>1, ReturningDoes DEF Does
    <3>5. l = Returning(g, g.lo[r])
      BY <3>2, <3>4 DEF LowHost
    <3> HIDE DEF l
    <3>6. Does(g, l, {}) /\ Prots(l) = Prots(g) /\ y = g.lo[r]
      BY <3>3, <3>5, ReturningDoes DEF Does
    <3>7. HostsOf(l, r) = HostsOf(g, r)
      BY <3>3, <3>5, ReturningDoes DEF Does
    <3>8. y = p.lo[r]
      BY <3>4, <3>6 DEF Same
    <3>9. Does(n, l, {})
      <4>1. Does(n, g, {})
        BY <1>2, <3>3, DoesTrans
      <4> QED
        BY <3>6, <4>1, DoesTrans
    <3>10. Prots(l) \subseteq Prots(n) \cup {h, y}
      BY <1>2, <3>1, <3>3, <3>6, <3>8
    <3> QED
      BY <3>1, <3>2, <3>3, <3>4, <3>6, <3>7, <3>8, <3>9, <3>10 DEF Does
  <2>2. CASE IsMapped(n, r) /\ n.st[r] # STATE_MAPPED_64
    <3>1. n.st[r] \in Narrow32
      BY <2>2, MappedStates DEF Sound, Shape
    <3>2. Is32Bit(n, r) /\ p.st[r] \in Narrow32 /\ p.st[r] # STATE_MAPPED_64 /\ HostsOf(p, r) = {p.lo[r]} /\ p.lo[r] \in Host
      BY <1>2, <3>1, Narrow32Facts DEF Same, Does, Sound, Homes
    <3>3. Room(p, 1)
      <4>1. Room(n, 2) => Room(p, 1)
        BY <1>3, <3>2
      <4>2. Pinned(n, r) /\ Room(n, 1) => Room(p, 1)
        BY <1>3
      <4> QED
        BY <2>2, <4>1, <4>2
    <3>4. g = FreeX86Reg(p)
      BY <3>2 DEF HighHost
    <3> HIDE DEF g
    <3>5. /\ Does(p, g, {}) /\ Prots(g) \subseteq Prots(p) /\ h \in Host /\ ~p.prot[h] /\ g.mapped[h] = "none"
      BY <1>2, <3>3, <3>4, FreeReg DEF Does
    <3>6. Same(p, g, r)
      BY <1>3, <2>2, <3>5, ConstantFacts DEF Does, Frame
    <3>7. g.lo[r] = p.lo[r] /\ IsMapped(g, r) /\ HostsOf(g, r) = {p.lo[r]}
      BY <3>2, <3>6, SameHosts, Narrow32Facts DEF Same
    <3>8. l = Returning(g, p.lo[r])
      BY <3>7 DEF LowHost
    <3> HIDE DEF l
    <3>9. Does(g, l, {}) /\ Prots(l) = Prots(g) /\ y = p.lo[r] /\ l.mapped = g.mapped
      BY <3>5, <3>8, ReturningDoes DEF Does
    <3>10. HostsOf(l, r) = HostsOf(g, r)
      BY <3>5, <3>8, ReturningDoes DEF Does
    <3>11. p.prot[p.lo[r]]
      BY <1>3, <2>2, <3>2 DEF Pinned, Prots
    <3>12. Does(n, l, {})
      <4>1. Does(n, g, {})
        BY <1>2, <3>5, DoesTrans
      <4> QED
        BY <3>9, <4>1, DoesTrans
    <3>13. Prots(l) \subseteq Prots(n) \cup {h, y}
      BY <1>2, <3>2, <3>5, <3>9
    <3> QED
      BY <3>2, <3>5, <3>7, <3>9, <3>10, <3>11, <3>12, <3>13 DEF Does
  <2>3. CASE ~IsMapped(n, r)
    <3> DEFINE k == Protect(g, {h})
    <3>1. Room(n, 2) /\ p.st[r] # STATE_MAPPED_64 /\ HostsOf(n, r) = {}
      BY <1>2, <2>3, StateFacts DEF Pinned, HostsOf, Same
    <3>2. Room(p, 2) /\ Room(p, 1)
      <4>1. Room(p, 2)
        BY <1>3, <2>3, <3>1
      <4> QED
        BY <4>1, Rooms
    <3>3. g = FreeX86Reg(p)
      BY <3>1 DEF HighHost
    <3> HIDE DEF g
    <3>4. /\ Does(p, g, {}) /\ Prots(g) \subseteq Prots(p) /\ h \in Host /\ ~p.prot[h] /\ g.mapped[h] = "none"
          /\ Same(p, g, r)
      BY <1>2, <2>3, <3>2, <3>3, FreeReg DEF Does
    <3>5. ~IsMapped(g, r)
      BY <1>2, <2>3, <3>4, SameHosts
    <3>6. l = FreeX86Reg(k)
      BY <3>5 DEF LowHost
    <3> HIDE DEF k
    <3>7. /\ Does(g, k, {}) /\ Prots(k) = Prots(g) \cup {h} /\ k.mapped = g.mapped
      BY <3>4, ProtectDoes DEF Does, k
    <3>8. Same(g, k, r) /\ ~IsMapped(k, r)
      BY <3>4, <3>5, ProtectDoes DEF Does, k
    <3>9. Room(k, 1)
      <4>1. Prots(k) \subseteq Prots(p) \cup {h}
        BY <3>4, <3>7
      <4> QED
        BY <3>2, <4>1, RoomSteps
    <3> HIDE DEF l
    <3>10. /\ Does(k, l, {}) /\ Prots(l) \subseteq Prots(k) /\ y \in Host /\ ~k.prot[y] /\ l.mapped[y] = "none"
           /\ Same(k, l, r)
      BY <3>6, <3>7, <3>8, <3>9, FreeReg DEF Does
    <3>11. l.mapped[h] = "none"
      <4>1. l.mapped[h] \in {k.mapped[h], "none"}
        BY <3>4, <3>6, <3>7, <3>9, FreeReg DEF Does
      <4> QED
        BY <3>4, <3>7, <4>1
    <3>12. h # y
      BY <3>4, <3>7, <3>10 DEF Prots
    <3>13. HostsOf(l, r) = {}
      BY <3>8, <3>10, SameHosts DEF HostsOf
    <3>14. Does(n, l, {})
      <4>1. Does(n, g, {})
        BY <1>2, <3>4, DoesTrans
      <4>2. Does(n, k, {})
        BY <3>7, <4>1, DoesTrans
      <4> QED
        BY <3>10, <4>2, DoesTrans
    <3>15. Prots(l) \subseteq Prots(n) \cup {h, y}
      BY <1>2, <3>1, <3>4, <3>7, <3>10
    <3> QED
      BY <3>4, <3>10, <3>11, <3>12, <3>13, <3>14, <3>15 DEF Does
  <2> QED
    BY <2>1, <2>2, <2>3
<1> HIDE DEF g, l, h, y, o
<1>5. y = l.reg
  BY DEF y
<1>6. Shape(l)
  BY <1>4 DEF Sound
<1>7. /\ Shape(o) /\ o.lo[r] = y /\ o.hi[r] = h /\ o.st[r] = STATE_MAPPED_64
      /\ \A q \in Guest \ {r} : Same(l, o, q)
      /\ \A z \in Host : o.mapped[z] = IF z \in {h, y} THEN "gpr" ELSE l.mapped[z]
      /\ \A z \in Host : o.prot[z] <=> (z \in {h, y} \/ l.prot[z])
  BY <1>1, <1>4, <1>5, <1>6, Hosted64Fields
<1>8. /\ o.gpr = l.gpr /\ o.live = l.live /\ (l.slip => o.slip) /\ o.fault = l.fault
      /\ \A z \in Host \ {h, y} : o.x[z] = l.x[z]
      /\ \A z \in Host : (z \in {h, y} => o.order[z] > 0) /\ (l.order[z] > 0 => o.order[z] > 0)
  BY <1>1, <1>4, <1>5, <1>6, Hosted64Fields
<1>9. HostsOf(o, r) = {h, y} /\ IsMapped(o, r)
  BY <1>7, StateFacts
<1>10. \A z \in Host : o.mapped[z] = "gpr" <=> z \in HostsOf(o, r) \/ (l.mapped[z] = "gpr" /\ z \notin HostsOf(l, r))
  BY <1>4, <1>7, <1>9
<1>11. \A z \in Host : o.mapped[z] = "gpr" => o.order[z] > 0
  BY <1>4, <1>7, <1>8 DEF Sound, Marked
<1>12. Does(l, o, {r})
  <2>1. \A z \in HostsOf(o, r) : z \in HostsOf(l, r) \/ l.mapped[z] # "gpr"
    BY <1>4, <1>9
  <2>2. \A z \in Host : z \notin HostsOf(l, r) /\ z \notin HostsOf(o, r) => o.x[z] = l.x[z]
    BY <1>8, <1>9
  <2>3. \A z \in Host : l.prot[z] => o.prot[z]
    BY <1>7
  <2>4. \A z \in Host : l.mapped[z] = "temp" /\ l.prot[z] => o.mapped[z] = "temp"
    BY <1>4, <1>7 DEF Sound, Marked
  <2>5. HostsOf(o, r) \subseteq Host /\ o.hi[r] # o.lo[r] /\ \A q \in Guest \ {r} : o.gpr[q] = l.gpr[q]
    BY <1>4, <1>7, <1>8, <1>9
  <2> QED
    BY <1>4, <1>7, <1>8, <1>10, <1>11, <2>1, <2>2, <2>3, <2>4, <2>5, RehostedDoes
<1>13. Does(n, o, {r})
  BY <1>4, <1>12, DoesTrans
<1>14. Prots(o) \subseteq Prots(n) \cup {h, y} /\ Pinned(o, r)
  BY <1>4, <1>7, <1>9 DEF Prots, Pinned
<1>15. \A k \in Nat : Room(n, k + 2) => Room(o, k)
  BY <1>14, Rooms
<1> QED
  BY <1>7, <1>13, <1>14, <1>15 DEF o

LEMMA MapSet64 ==
    ASSUME NEW n, Sound(n), NEW r \in Guest, NEW load, NEW d,
           n.st[r] = STATE_MAPPED_64 \/ Room(n, 2) \/ (Pinned(n, r) /\ Room(n, 1))
    PROVE  LET o == SetBoth(Map_GPR_64bit(n, r, load), r, d)
           IN /\ Sound(o) /\ o.live = n.live /\ (n.slip => o.slip)
              /\ r # 0 => Does(n, o, {r}) /\ Ends(n, o, {r})
<1> DEFINE k == Map_GPR_64bit(n, r, load)
           o == SetBoth(k, r, d)
<1>1. CASE r = 0
  <2> DEFINE j == SetX86(n, n.hi[r], d.hi)
  <2>1. o = SetX86(j, j.lo[r], d.lo)
    BY <1>1 DEF Map_GPR_64bit, SetBoth, SetHigh, SetLow
  <2> HIDE DEF o
  <2>2. Sound(j)
    BY SetX86Sound
  <2>3. j.live = n.live /\ j.slip = n.slip
    BY SetX86Rest
  <2> HIDE DEF j
  <2>4. Sound(o)
    BY <2>1, <2>2, SetX86Sound
  <2>5. o.live = j.live /\ o.slip = j.slip
    BY <2>1, <2>2, SetX86Rest
  <2> QED
    BY <1>1, <2>3, <2>4, <2>5 DEF o
<1>2. CASE r # 0
  <2>1. Does(n, k, {r}) /\ k.st[r] = STATE_MAPPED_64
    BY <1>2, MapGPR64
  <2> HIDE DEF k
  <2>2. Sound(k)
    BY <2>1 DEF Does
  <2>3. Does(k, o, {r})
    BY <2>1, <2>2, SetBothDoes
  <2> HIDE DEF o
  <2>4. Does(n, o, {r})
    BY <2>1, <2>3, DoesTrans
  <2>5. Sound(o) /\ o.live = n.live /\ (n.slip => o.slip) /\ Ends(n, o, {r})
    BY <2>4 DEF Does, Effect, Ends
  <2> QED
    BY <1>2, <2>4, <2>5 DEF o, k
<1> QED
  BY <1>1, <1>2


(* The same machine, in which y is marked as a temporary.                  *)
AsTemp(n, y) == [n EXCEPT !.mapped[y] = "temp"]

(* A register that belongs to no guest register is marked as a temporary.  *)
LEMMA MarkTemp ==
    ASSUME NEW n, Sound(n), NEW y \in Host, n.mapped[y] # "gpr"
    PROVE  LET o == AsTemp(n, y)
           IN /\ Does(n, o, {}) /\ Prots(o) = Prots(n) /\ o.mapped[y] = "temp" /\ o.reg = n.reg
              /\ o.slip = n.slip /\ o.fault = n.fault
              /\ \A z \in Host : o.mapped[z] = IF z = y THEN "temp" ELSE n.mapped[z]
              /\ \A q : Same(n, o, q)
<1> DEFINE o == AsTemp(n, y)
<1>1. /\ DOMAIN o = Fields /\ o.st = n.st /\ o.lo = n.lo /\ o.hi = n.hi /\ o.order = n.order /\ o.prot = n.prot
      /\ o.x = n.x /\ o.gpr = n.gpr /\ o.live = n.live /\ o.slip = n.slip /\ o.fault = n.fault /\ o.reg = n.reg
      /\ o.mapped = [n.mapped EXCEPT ![y] = "temp"]
  BY DEF Sound, Shape, Fields, AsTemp
<1> HIDE DEF o
<1>2. \A q : Same(n, o, q) /\ HostsOf(o, q) = HostsOf(n, q) /\ (IsMapped(o, q) <=> IsMapped(n, q))
              /\ (IsConst(o, q) <=> IsConst(n, q))
  BY <1>1, SameHosts DEF Same
<1>3. \A z \in Host : o.mapped[z] = IF z = y THEN "temp" ELSE n.mapped[z]
  BY <1>1 DEF Sound, Shape
<1>4. Sound(o)
  <2>1. Shape(o)
    BY <1>1 DEF Sound, Shape, Marks
  <2>2. Homes(o) /\ Apart(o)
    BY <1>1, <1>2 DEF Sound, Homes, Apart
  <2>3. Marked(o)
    BY <1>1, <1>2, <1>3 DEF Sound, Marked
  <2> QED
    BY <1>2, <2>1, <2>2, <2>3 DEF Sound
<1>5. Effect(n, o, {})
  BY <1>1, <1>2, EffectOf
<1>6. Frame(n, o, {}) /\ Prots(o) = Prots(n)
  BY <1>1, <1>2, <1>3 DEF Frame, Pinned, Prots
<1>7. Does(n, o, {})
  BY <1>4, <1>5, <1>6 DEF Does
<1> QED
  BY <1>1, <1>2, <1>3, <1>6, <1>7 DEF o

(* There is room when a register is not protected.                         *)
LEMMA RoomLeft ==
    ASSUME NEW n, NEW y \in Host, ~n.prot[y]
    PROVE  Room(n, 1)
<1> DEFINE X == Prots(n)
           Y == X \cup {y}
<1>1. X \in SUBSET Host /\ Y \in SUBSET Host /\ y \notin X
  BY DEF Prots
<1> HIDE DEF X
<1>2. IsFiniteSet(X) /\ Cardinality(X) \in 0 .. 6 /\ Cardinality(Y) \in 0 .. 6
  BY <1>1, HostSets
<1>3. Cardinality(Y) = Cardinality(X) + 1
  BY <1>1, <1>2, FS_AddElement
<1> HIDE DEF Y
<1> QED
  BY <1>2, <1>3 DEF Room, X

(* What stays of the cache when a temporary is given a register.           *)
LEMMA TemporaryDoes ==
    ASSUME NEW n, Shape(n), NEW y \in Host, n.reg = y,
           NEW w, w = AsTemp(n, y), Sound(w), NEW load, NEW high
    PROVE  LET o == Temporary(n, load, high)
           IN /\ Does(w, o, {}) /\ Temp(o) /\ o.reg = y /\ Prots(o) = Prots(w) \cup {y}
              /\ o.slip = w.slip /\ o.fault = w.fault /\ o.mapped = w.mapped
              /\ \A q : Same(w, o, q)
<1> DEFINE j == LoadWord(n, y, load, high)
           k == [j EXCEPT !.mapped[y] = "temp", !.prot[y] = TRUE]
           o == Temporary(n, load, high)
<1>1. /\ Shape(j) /\ j.st = n.st /\ j.lo = n.lo /\ j.hi = n.hi /\ j.mapped = n.mapped /\ j.prot = n.prot
      /\ j.gpr = n.gpr /\ j.live = n.live /\ j.slip = n.slip /\ j.fault = n.fault
      /\ j.reg = n.reg /\ j.order = n.order
      /\ \A z \in Host \ {y} : j.x[z] = n.x[z]
  BY SetX86Fields DEF LoadWord
<1> HIDE DEF j
<1>2. /\ DOMAIN k = Fields /\ k.st = j.st /\ k.lo = j.lo /\ k.hi = j.hi /\ k.x = j.x
      /\ k.gpr = j.gpr /\ k.live = j.live /\ k.slip = j.slip /\ k.fault = j.fault
      /\ k.reg = j.reg /\ k.order = j.order
      /\ k.mapped = [j.mapped EXCEPT ![y] = "temp"] /\ k.prot = [j.prot EXCEPT ![y] = TRUE]
  BY <1>1 DEF Shape, Fields
<1>3. Shape(k)
  BY <1>1, <1>2 DEF Shape, Marks
<1>4. o = Youngest(k, {y})
  BY DEF Temporary, k, j, NoReg, Host, EAX, ECX, EDX, EBX, ESI, EDI
<1> HIDE DEF k, o
<1>5. /\ Shape(o) /\ o.st = k.st /\ o.lo = k.lo /\ o.hi = k.hi /\ o.mapped = k.mapped /\ o.prot = k.prot
      /\ o.x = k.x /\ o.gpr = k.gpr /\ o.live = k.live /\ o.slip = k.slip /\ o.fault = k.fault
      /\ o.reg = k.reg
      /\ \A z \in Host : (k.order[z] > 0 => o.order[z] > 0)
  BY <1>3, <1>4, YoungestFields
<1>6. /\ DOMAIN w = Fields /\ w.st = n.st /\ w.lo = n.lo /\ w.hi = n.hi /\ w.order = n.order /\ w.prot = n.prot
      /\ w.x = n.x /\ w.gpr = n.gpr /\ w.live = n.live /\ w.slip = n.slip /\ w.fault = n.fault
      /\ w.mapped = [n.mapped EXCEPT ![y] = "temp"]
  BY DEF Shape, Fields, AsTemp
<1>7. \A q : Same(w, o, q) /\ HostsOf(o, q) = HostsOf(w, q) /\ (IsMapped(o, q) <=> IsMapped(w, q))
              /\ (IsConst(o, q) <=> IsConst(w, q))
  BY <1>1, <1>2, <1>5, <1>6, SameHosts DEF Same
<1>8. Sound(w)
  OBVIOUS
<1>9. o.mapped = w.mapped
  BY <1>1, <1>2, <1>5, <1>6
<1>10. Sound(o)
  <2>1. Homes(o) /\ Apart(o)
    BY <1>1, <1>2, <1>5, <1>6, <1>7, <1>8 DEF Sound, Homes, Apart
  <2>2. Marked(o)
    BY <1>1, <1>2, <1>5, <1>6, <1>7, <1>8, <1>9 DEF Sound, Marked
  <2> QED
    BY <1>5, <1>7, <1>8, <2>1, <2>2 DEF Sound
<1>11. w.mapped[y] = "temp" /\ o.prot[y] /\ \A z \in Host : o.prot[z] <=> (z = y \/ w.prot[z])
  BY <1>1, <1>2, <1>5, <1>6 DEF Shape
<1>12. Effect(w, o, {})
  <2>1. ASSUME NEW q \in Guest PROVE \A z \in HostsOf(w, q) : o.x[z] = w.x[z]
    <3>1. \A z \in HostsOf(w, q) : z \in Host /\ z # y
      BY <1>8, <1>11, HostsInside DEF Sound, Marked
    <3> QED
      BY <1>1, <1>2, <1>5, <1>6, <3>1
  <2>2. /\ o.slip = w.slip /\ o.live = w.live /\ o.fault = w.fault /\ o.gpr = w.gpr
    BY <1>1, <1>2, <1>5, <1>6
  <2> QED
    BY <1>7, <1>8, <2>1, <2>2, EffectOf
<1>13. Frame(w, o, {}) /\ Prots(o) = Prots(w) \cup {y}
  BY <1>7, <1>9, <1>11 DEF Frame, Pinned, Prots
<1>14. Does(w, o, {}) /\ Temp(o) /\ o.reg = y
  BY <1>1, <1>2, <1>5, <1>9, <1>10, <1>11, <1>12, <1>13 DEF Does, Temp
<1> QED
  BY <1>1, <1>2, <1>5, <1>6, <1>7, <1>9, <1>13, <1>14 DEF o

(* A guest register moves from y to z, and y becomes a temporary.          *)
LEMMA MovedDoes ==
    ASSUME NEW n, Sound(n), NEW y \in Host, NEW z \in Host, n.mapped[z] = "none",
           NEW r \in Guest \ {0}, y \in HostsOf(n, r)
    PROVE  LET v == Moved(n, r, y, z)
               o == AsTemp(v, y)
           IN /\ Shape(v) /\ Does(n, o, {r}) /\ Effect(n, o, {}) /\ Prots(o) = Prots(n)
              /\ o.slip = n.slip /\ o.fault = n.fault
<1> DEFINE w == n.x[y]
           j == SetX86(n, z, w)
           v == Moved(n, r, y, z)
           o == AsTemp(v, y)
<1>1. /\ Shape(j) /\ j.st = n.st /\ j.lo = n.lo /\ j.hi = n.hi /\ j.mapped = n.mapped /\ j.prot = n.prot
      /\ j.gpr = n.gpr /\ j.live = n.live /\ j.slip = n.slip /\ j.fault = n.fault
      /\ j.reg = n.reg /\ j.order = n.order
      /\ \A q \in Host \ {z} : j.x[q] = n.x[q]
      /\ n.live => j.x[z] = w
  <2> HIDE DEF w
  <2> QED
    BY SetX86Fields DEF Sound
<1>2. v = [j EXCEPT !.mapped[z] = "gpr", !.order[z] = n.order[y],
             !.lo[r] = IF @ = y THEN z ELSE @, !.hi[r] = IF Is64Bit(n, r) /\ @ = y THEN z ELSE @]
  BY DEF Moved
<1>3. n.mapped[y] = "gpr" /\ n.order[y] > 0 /\ y # z /\ IsMapped(n, r)
  BY DEF Sound, Marked, HostsOf
<1> HIDE DEF w, j, v
<1>4. /\ DOMAIN v = Fields /\ v.st = j.st /\ v.x = j.x /\ v.prot = j.prot /\ v.gpr = j.gpr
      /\ v.live = j.live /\ v.slip = j.slip /\ v.fault = j.fault /\ v.reg = j.reg
      /\ v.mapped = [j.mapped EXCEPT ![z] = "gpr"] /\ v.order = [j.order EXCEPT ![z] = n.order[y]]
      /\ v.lo = [j.lo EXCEPT ![r] = IF @ = y THEN z ELSE @]
      /\ v.hi = [j.hi EXCEPT ![r] = IF Is64Bit(n, r) /\ @ = y THEN z ELSE @]
  BY <1>1, <1>2 DEF Shape, Fields
<1>5. Shape(v)
  BY <1>1, <1>4 DEF Sound, Shape, Marks
<1>6. /\ DOMAIN o = Fields /\ o.st = v.st /\ o.lo = v.lo /\ o.hi = v.hi /\ o.order = v.order /\ o.prot = v.prot
      /\ o.x = v.x /\ o.gpr = v.gpr /\ o.live = v.live /\ o.slip = v.slip /\ o.fault = v.fault /\ o.reg = v.reg
      /\ o.mapped = [v.mapped EXCEPT ![y] = "temp"]
  BY <1>5 DEF Shape, Fields, AsTemp
<1> HIDE DEF o
<1>7. Shape(o)
  BY <1>5, <1>6 DEF Shape, Marks
<1>8. \A q \in Guest \ {r} : Same(n, o, q)
  BY <1>1, <1>4, <1>6 DEF Same, Shape
<1>9. /\ o.st[r] = n.st[r] /\ o.lo[r] = (IF n.lo[r] = y THEN z ELSE n.lo[r])
      /\ o.hi[r] = (IF Is64Bit(n, r) /\ n.hi[r] = y THEN z ELSE n.hi[r])
  BY <1>1, <1>4, <1>6 DEF Shape
<1>10. /\ IsMapped(o, r) /\ (Is64Bit(o, r) <=> Is64Bit(n, r))
       /\ Is64Bit(n, r) => n.st[r] = STATE_MAPPED_64 /\ n.hi[r] # n.lo[r] /\ n.hi[r] \in Host
       /\ n.lo[r] \in Host
  BY <1>3, <1>9, MappedStates, HostsInside DEF IsMapped, IsKnown, IsUnknown, IsConst, Is64Bit, Sound, Homes
<1>11. HostsOf(o, r) = (HostsOf(n, r) \ {y}) \cup {z} /\ HostsOf(n, r) \subseteq Host
  <2>1. CASE Is64Bit(n, r)
    BY <1>3, <1>9, <1>10, <2>1 DEF HostsOf
  <2>2. CASE ~Is64Bit(n, r)
    BY <1>3, <1>9, <1>10, <2>2 DEF HostsOf
  <2> QED
    BY <2>1, <2>2
<1>12. o.st[r] = STATE_MAPPED_64 => o.hi[r] # o.lo[r]
  <2>1. z \notin HostsOf(n, r)
    BY DEF Sound, Marked
  <2>2. n.st[r] = STATE_MAPPED_64 => n.lo[r] # z /\ n.hi[r] # z
    BY <2>1, StateFacts
  <2>3. SUFFICES ASSUME n.st[r] = STATE_MAPPED_64 PROVE o.hi[r] # o.lo[r]
    BY <1>9
  <2>4. n.lo[r] # z /\ n.hi[r] # z /\ n.hi[r] # n.lo[r]
    BY <2>2, <2>3, <1>10 DEF Is64Bit
  <2> QED
    BY <1>3, <1>9, <2>4
<1>13. \A q \in Host : o.mapped[q] = IF q = y THEN "temp" ELSE IF q = z THEN "gpr" ELSE n.mapped[q]
  BY <1>1, <1>3, <1>4, <1>6 DEF Shape
<1>14. \A q \in Host : o.order[q] = IF q = z THEN n.order[y] ELSE n.order[q]
  BY <1>1, <1>4, <1>6 DEF Shape
<1>15. \A q \in Host : o.mapped[q] = "gpr" <=> q \in HostsOf(o, r) \/ (n.mapped[q] = "gpr" /\ q \notin HostsOf(n, r))
  <2>1. \A q \in HostsOf(n, r) : n.mapped[q] = "gpr"
    BY HostsInside DEF Sound, Marked
  <2> QED
    BY <1>3, <1>11, <1>13, <2>1
<1>16. \A q \in Host : o.mapped[q] = "gpr" => o.order[q] > 0
  BY <1>3, <1>13, <1>14 DEF Sound, Marked
<1>17. \A q \in Host : q \notin HostsOf(n, r) /\ q \notin HostsOf(o, r) => o.x[q] = n.x[q]
  BY <1>1, <1>4, <1>6, <1>11
<1>18. /\ o.slip = n.slip /\ o.live = n.live /\ o.fault = n.fault /\ o.gpr = n.gpr /\ o.prot = n.prot
  BY <1>1, <1>4, <1>6
<1>19. Does(n, o, {r})
  <2>1. HostsOf(o, r) \subseteq Host
    BY <1>11
  <2>2. \A q \in HostsOf(o, r) : q \in HostsOf(n, r) \/ n.mapped[q] # "gpr"
    BY <1>11
  <2>3. \A q \in Host : n.mapped[q] = "temp" /\ n.prot[q] => o.mapped[q] = "temp"
    BY <1>13
  <2> QED
    BY <1>7, <1>8, <1>12, <1>15, <1>16, <1>17, <1>18, <2>1, <2>2, <2>3, RehostedDoes
<1>20. n.live => Value(o, r) = Value(n, r)
  <2>1. SUFFICES ASSUME n.live PROVE LowWord(o, r) = LowWord(n, r) /\ HighWord(o, r) = HighWord(n, r)
    BY DEF Value
  <2>2. o.x[z] = n.x[y] /\ \A q \in HostsOf(n, r) \ {y} : o.x[q] = n.x[q]
    <3>1. z \notin HostsOf(n, r)
      BY DEF Sound, Marked
    <3> QED
      BY <1>1, <1>4, <1>6, <1>11, <2>1, <3>1 DEF w
  <2>3. o.x[o.lo[r]] = n.x[n.lo[r]]
    <3>1. n.lo[r] \in HostsOf(n, r)
      BY <1>3, StateFacts
    <3> QED
      BY <1>9, <2>2, <3>1
  <2>4. n.st[r] = STATE_MAPPED_64 => o.x[o.hi[r]] = n.x[n.hi[r]]
    <3>1. n.st[r] = STATE_MAPPED_64 => n.hi[r] \in HostsOf(n, r) /\ Is64Bit(n, r)
      BY StateFacts DEF Is64Bit
    <3> QED
      BY <1>9, <2>2, <3>1
  <2>5. CASE n.st[r] = STATE_MAPPED_64
    BY <1>9, <2>3, <2>4, <2>5, StateFacts
  <2>6. CASE n.st[r] \in Narrow32
    BY <1>9, <2>3, <2>6, StateFacts DEF Narrow32
  <2> QED
    BY <1>3, <2>5, <2>6, MappedStates, HostsInside
<1>21. Effect(n, o, {})
  BY <1>18, <1>19, <1>20 DEF Does, Effect
<1> QED
  BY <1>5, <1>18, <1>19, <1>21 DEF o, v, Prots

(* What a guest register leaves in an x86 register that a temporary wants. *)
LEMMA VacatedDoes ==
    ASSUME NEW n, Sound(n), NEW y \in Host, n.mapped[y] = "gpr", ~n.prot[y]
    PROVE  LET v == Vacated(n, y)
               o == AsTemp(v, y)
           IN /\ Shape(v) /\ Does(n, o, {}) /\ Prots(o) \subseteq Prots(n) \cup {y}
              /\ o.slip = n.slip /\ o.fault = n.fault
<1> DEFINE p == Protect(n, {y})
           f == FreeX86Reg(p)
           v == Vacated(n, y)
           o == AsTemp(v, y)
<1>1. /\ Does(n, p, {}) /\ Prots(p) = Prots(n) \cup {y}
      /\ p.mapped = n.mapped /\ p.slip = n.slip /\ p.fault = n.fault
      /\ \A q : Same(n, p, q) /\ HostsOf(p, q) = HostsOf(n, q) /\ (IsMapped(p, q) <=> IsMapped(n, q))
  BY ProtectDoes
<1>2. v = VacatedFor(f, n, y)
  BY DEF Vacated
<1>3. p.prot[y] /\ y \notin Prots(n) /\ Sound(p)
  BY <1>1 DEF Prots, Does
<1> HIDE DEF p
<1>4. ASSUME NEW r \in Guest, y \in HostsOf(n, r) PROVE ~Pinned(n, r)
  BY <1>3, <1>4 DEF Pinned
<1>5. CASE \E z \in Host : ~p.prot[z]
  <2>1. Room(p, 1)
    BY <1>5, RoomLeft
  <2> DEFINE z == f.reg
  <2>2. /\ Does(p, f, {}) /\ Prots(f) \subseteq Prots(p)
        /\ z \in Host /\ ~p.prot[z] /\ f.mapped[z] = "none"
        /\ f.slip = p.slip /\ f.fault = p.fault
        /\ \A q \in Guest : Same(p, f, q) \/ (IsMapped(p, q) /\ f.st[q] = STATE_UNKNOWN)
    BY <1>3, <2>1, FreeReg
  <2>3. Does(n, f, {}) /\ Sound(f) /\ Shape(f)
    BY <1>1, <2>2, DoesTrans DEF Does, Sound
  <2> HIDE DEF f
  <2>4. CASE Owners(f, y) = {}
    <3>1. v = f /\ f.mapped[y] # "gpr"
      BY <1>2, <2>3, <2>4, OwnersFacts DEF VacatedFor
    <3> HIDE DEF v
    <3>2. /\ Does(f, o, {}) /\ Prots(o) = Prots(f) /\ o.slip = f.slip /\ o.fault = f.fault
      BY <2>3, <3>1, MarkTemp
    <3> HIDE DEF o
    <3>3. Does(n, o, {})
      BY <2>3, <3>2, DoesTrans
    <3>4. Prots(o) \subseteq Prots(n) \cup {y}
      BY <1>1, <2>2, <3>2
    <3> QED
      BY <1>1, <2>2, <2>3, <3>1, <3>2, <3>3, <3>4 DEF o, v
  <2>5. CASE Owners(f, y) # {}
    <3> DEFINE r == Min(Owners(f, y))
    <3>1. r \in Guest \ {0} /\ y \in HostsOf(f, r)
      BY <2>3, <2>5, OwnersFacts
    <3>2. v = Moved(f, r, y, z)
      <4>1. f.reg # NoReg
        BY <2>2 DEF NoReg, Host, EAX, ECX, EDX, EBX, ESI, EDI
      <4> QED
        BY <1>2, <2>5, <4>1 DEF VacatedFor, MovedOff
    <3> HIDE DEF r, v, z
    <3>3. /\ Shape(v) /\ Does(f, o, {r}) /\ Effect(f, o, {}) /\ Prots(o) = Prots(f)
          /\ o.slip = f.slip /\ o.fault = f.fault
      BY <2>2, <2>3, <3>1, <3>2, MovedDoes DEF z
    <3> HIDE DEF o
    <3>4. Effect(n, o, {})
      BY <2>3, <3>3, EffectTrans DEF Does, Sound, Shape
    <3>5. y \in HostsOf(n, r)
      <4>1. Same(p, f, r)
        BY <2>2, <3>1 DEF HostsOf, IsMapped, IsKnown, IsUnknown
      <4> QED
        BY <1>1, <3>1, <4>1, SameHosts
    <3>6. Frame(n, o, {})
      <4>1. Frame(n, o, {r})
        BY <2>3, <3>3, DoesTrans DEF Does
      <4>2. ~Pinned(n, r)
        BY <1>4, <3>1, <3>5
      <4> QED
        BY <4>1, <4>2 DEF Frame
    <3>7. Does(n, o, {}) /\ Prots(o) \subseteq Prots(n) \cup {y}
      BY <1>1, <2>2, <3>3, <3>4, <3>6 DEF Does
    <3> QED
      BY <1>1, <2>2, <3>3, <3>7 DEF o, v
  <2> QED
    BY <2>4, <2>5
<1>6. CASE \A z \in Host : p.prot[z]
  <2>1. Unused(p) = {} /\ IdleTemps(p) = {} /\ \A z \in Host : ~UnMapsX86reg(p, z)
    BY <1>6 DEF Unused, IdleTemps, UnMapsX86reg
  <2>2. f = Returning(Fault(p, "out of registers"), NoReg)
    BY <2>1 DEF FreeX86Reg, EvictOldest
  <2>3. f.reg = NoReg /\ f.st = p.st /\ f.lo = p.lo /\ f.hi = p.hi
    BY <1>3, <2>2 DEF Returning, Fault, Sound, Shape, Fields
  <2> HIDE DEF f
  <2>4. Owners(f, y) = Owners(n, y)
    <3>1. \A q \in Guest : Same(n, f, q)
      BY <1>1, <2>3 DEF Same
    <3>2. \A q \in Guest : /\ f.lo[q] = n.lo[q] /\ f.hi[q] = n.hi[q] /\ (IsMapped(f, q) <=> IsMapped(n, q))
                           /\ (Is64Bit(f, q) <=> Is64Bit(n, q))
      BY <3>1, SameHosts DEF Same
    <3> QED
      BY <3>2 DEF Owners
  <2> DEFINE r == Min(Owners(n, y))
  <2>5. r \in Guest \ {0} /\ y \in HostsOf(n, r) /\ Owners(n, y) # {}
    BY OwnersFacts
  <2>6. v = UnMap_GPR(n, r, TRUE)
    BY <1>2, <2>3, <2>4, <2>5 DEF VacatedFor, MovedOff
  <2> HIDE DEF r, v
  <2>7. r \in Guest /\ r # 0 /\ TRUE \in BOOLEAN
    BY <2>5
  <2>8. Does(n, v, {r})
    BY <2>6, <2>7, UnMapGPR
  <2>9. Effect(n, v, {})
    BY <2>6, <2>7, UnMapGPR
  <2>10. Prots(v) \subseteq Prots(n) /\ v.mapped[y] = "none"
    BY <2>5, <2>6, <2>7, UnMapGPR
  <2>11. v.slip = n.slip /\ v.fault = n.fault
    BY <2>6, <2>7, UnMapGPR
  <2>12. Does(n, v, {})
    BY <1>4, <2>5, <2>7, <2>8, <2>9 DEF Does, Frame
  <2>13. Does(v, o, {}) /\ Prots(o) = Prots(v) /\ o.slip = v.slip /\ o.fault = v.fault
    BY <2>10, <2>12, MarkTemp DEF Does
  <2> HIDE DEF o
  <2>14. Does(n, o, {}) /\ Prots(o) \subseteq Prots(n) \cup {y}
    BY <2>10, <2>12, <2>13, DoesTrans
  <2> QED
    BY <2>11, <2>12, <2>13, <2>14 DEF o, v, Does, Sound
<1> QED
  BY <1>5, <1>6

(* A temporary is found, in the register that is wanted or in any.         *)
LEMMA MapTemp ==
    ASSUME NEW n, Sound(n), NEW want, want \in Host \/ want = AnyHost, want = AnyHost => Room(n, 1),
           want # AnyHost => n.mapped[want] # "gpr" \/ ~n.prot[want], NEW load, NEW high
    PROVE  LET o == Map_TempReg(n, want, load, high)
           IN /\ Does(n, o, {}) /\ Temp(o) /\ (want # AnyHost => o.reg = want)
              /\ Prots(o) \subseteq Prots(n) \cup {o.reg}
              /\ \A k \in Nat : Room(n, k + 1) => Room(o, k)
              /\ o.slip = n.slip /\ o.fault = n.fault
<1> DEFINE o == Map_TempReg(n, want, load, high)
           t == TempHost(n, want)
           y == t.reg
           w == AsTemp(t, y)
<1>1. /\ Shape(t) /\ y \in Host /\ (want # AnyHost => y = want)
      /\ Does(n, w, {}) /\ Prots(w) \subseteq Prots(n) \cup {y} /\ w.slip = n.slip /\ w.fault = n.fault
  <2>1. ASSUME NEW z \in Host, t = Returning(n, z), n.mapped[z] # "gpr", want # AnyHost => z = want
        PROVE  /\ Shape(t) /\ y \in Host /\ (want # AnyHost => y = want)
               /\ Does(n, w, {}) /\ Prots(w) \subseteq Prots(n) \cup {y} /\ w.slip = n.slip /\ w.fault = n.fault
    <3>1. /\ Does(n, t, {}) /\ Prots(t) = Prots(n) /\ y = z
          /\ t.mapped = n.mapped /\ t.slip = n.slip /\ t.fault = n.fault
      BY <2>1, ReturningDoes
    <3> HIDE DEF t, y
    <3>2. Does(t, w, {}) /\ Prots(w) = Prots(t) /\ w.slip = t.slip /\ w.fault = t.fault
      BY <2>1, <3>1, MarkTemp DEF Does
    <3> HIDE DEF w
    <3>3. Does(n, w, {})
      BY <3>1, <3>2, DoesTrans
    <3> QED
      BY <2>1, <3>1, <3>2, <3>3 DEF Does, Sound
  <2>2. CASE want = AnyHost /\ IdleTemps(n) # {}
    <3>1. IdleTemps(n) \in SUBSET Nat /\ IsFiniteSet(IdleTemps(n)) /\ IdleTemps(n) \in SUBSET Host
      <4>1. IdleTemps(n) \in SUBSET Host
        BY DEF IdleTemps
      <4> QED
        BY <4>1, HostSets, ConstantFacts
    <3>2. Max(IdleTemps(n)) \in IdleTemps(n)
      <4>1. \A z \in IdleTemps(n) : z <= 8
        BY <3>1, ConstantFacts
      <4> QED
        BY <2>2, <3>1, <4>1, Greatest
    <3>3. Max(IdleTemps(n)) \in Host /\ n.mapped[Max(IdleTemps(n))] # "gpr"
      BY <3>1, <3>2 DEF IdleTemps
    <3>4. t = Returning(n, Max(IdleTemps(n)))
      BY <2>2 DEF TempHost
    <3> HIDE DEF t
    <3> QED
      BY <2>1, <2>2, <3>3, <3>4
  <2>3. CASE want = AnyHost /\ IdleTemps(n) = {}
    <3>1. t = FreeX86Reg(n)
      BY <2>3 DEF TempHost
    <3>2. /\ Does(n, t, {}) /\ Prots(t) \subseteq Prots(n) /\ y \in Host /\ t.mapped[y] = "none"
          /\ t.slip = n.slip /\ t.fault = n.fault
      BY <2>3, <3>1, FreeReg
    <3> HIDE DEF t, y
    <3>3. Does(t, w, {}) /\ Prots(w) = Prots(t) /\ w.slip = t.slip /\ w.fault = t.fault
      BY <3>2, MarkTemp DEF Does
    <3> HIDE DEF w
    <3>4. Does(n, w, {})
      BY <3>2, <3>3, DoesTrans
    <3> QED
      BY <2>3, <3>2, <3>3, <3>4 DEF Does, Sound
  <2>4. CASE want \in Host /\ n.mapped[want] # "gpr"
    <3>1. t = Returning(n, want)
      <4>1. want # AnyHost
        BY <2>4 DEF AnyHost, Host, EAX, ECX, EDX, EBX, ESI, EDI
      <4> QED
        BY <2>4, <4>1 DEF TempHost
    <3> HIDE DEF t
    <3> QED
      BY <2>1, <2>4, <3>1
  <2>5. CASE want \in Host /\ n.mapped[want] = "gpr"
    <3>1. ~n.prot[want] /\ want # AnyHost
      BY <2>5 DEF AnyHost, Host, EAX, ECX, EDX, EBX, ESI, EDI
    <3> DEFINE v == Vacated(n, want)
               u == AsTemp(v, want)
    <3>2. t = Returning(v, want)
      BY <2>5, <3>1 DEF TempHost
    <3>3. /\ Shape(v) /\ Does(n, u, {}) /\ Prots(u) \subseteq Prots(n) \cup {want}
          /\ u.slip = n.slip /\ u.fault = n.fault
      BY <2>5, <3>1, VacatedDoes
    <3> HIDE DEF v, t
    <3>4. Shape(t) /\ y = want
      BY <3>2, <3>3 DEF Returning, Shape, Fields
    <3>5. w = Returning(u, want)
      BY <3>2, <3>3, <3>4 DEF Returning, Shape, Fields, AsTemp
    <3> HIDE DEF u, w, y
    <3>6. Does(u, w, {}) /\ Prots(w) = Prots(u) /\ w.slip = u.slip /\ w.fault = u.fault
      BY <3>3, <3>5, ReturningDoes DEF Does
    <3>7. Does(n, w, {})
      BY <3>3, <3>6, DoesTrans
    <3> QED
      BY <2>5, <3>3, <3>4, <3>6, <3>7
  <2> QED
    BY <2>2, <2>3, <2>4, <2>5
<1>2. o = Temporary(t, load, high)
  BY DEF Map_TempReg
<1> HIDE DEF t
<1>3. /\ Does(w, o, {}) /\ Temp(o) /\ o.reg = y /\ Prots(o) = Prots(w) \cup {y}
      /\ o.slip = w.slip /\ o.fault = w.fault
  <2> HIDE DEF o, y
  <2>1. Sound(w) /\ t.reg = y
    BY <1>1 DEF Does, y
  <2>2. Shape(t) /\ y \in Host
    BY <1>1
  <2>3. o = Temporary(t, load, high) /\ w = AsTemp(t, y)
    BY <1>2
  <2> HIDE DEF w
  <2>4. Does(w, o, {})
    BY <2>1, <2>2, <2>3, TemporaryDoes
  <2>5. Temp(o) /\ o.reg = y
    BY <2>1, <2>2, <2>3, TemporaryDoes
  <2>6. Prots(o) = Prots(w) \cup {y}
    BY <2>1, <2>2, <2>3, TemporaryDoes
  <2>7. o.slip = w.slip
    BY <2>1, <2>2, <2>3, TemporaryDoes
  <2>8. o.fault = w.fault
    BY <2>1, <2>2, <2>3, TemporaryDoes
  <2> QED
    BY <2>4, <2>5, <2>6, <2>7, <2>8
<1> HIDE DEF o, w, y
<1>4. Does(n, o, {})
  BY <1>1, <1>3, DoesTrans
<1>5. Prots(o) \subseteq Prots(n) \cup {o.reg}
  BY <1>1, <1>3
<1>6. \A k \in Nat : Room(n, k + 1) => Room(o, k)
  BY <1>5, Rooms
<1> QED
  BY <1>1, <1>3, <1>4, <1>5, <1>6 DEF o

(* A machine that differs in none of the guest registers and in nothing of *)
(* the cache.                                                              *)
Beside(n, o) ==
    /\ DOMAIN o = Fields /\ o.st = n.st /\ o.lo = n.lo /\ o.hi = n.hi /\ o.mapped = n.mapped /\ o.order = n.order
    /\ o.prot = n.prot /\ o.x = n.x /\ o.gpr = n.gpr /\ o.live = n.live /\ o.slip = n.slip /\ o.fault = n.fault

LEMMA BesideDoes ==
    ASSUME NEW n, Sound(n), NEW o, Beside(n, o)
    PROVE  /\ Does(n, o, {}) /\ Ends(n, o, {}) /\ Prots(o) = Prots(n) /\ o.slip = n.slip /\ o.fault = n.fault
           /\ \A q : Same(n, o, q) /\ HostsOf(o, q) = HostsOf(n, q) /\ (IsMapped(o, q) <=> IsMapped(n, q))
<1>1. Alike(n, o)
  BY DEF Alike, Beside, Sound, Shape
<1>2. Sound(o) /\ \A r : Same(n, o, r) /\ HostsOf(o, r) = HostsOf(n, r) /\ (IsMapped(o, r) <=> IsMapped(n, r))
  BY <1>1, AlikeSound DEF Sound, Shape, Beside
<1>3. Effect(n, o, {})
  BY <1>1, <1>2, EffectOf DEF Alike, Beside
<1>4. Frame(n, o, {}) /\ Prots(o) = Prots(n)
  BY <1>1, <1>2 DEF Frame, Pinned, Prots, Alike, Beside
<1> QED
  BY <1>2, <1>3, <1>4 DEF Does, Ends, Beside

(* Between two instructions.                                               *)
LEMMA UnprotectedEnds ==
    ASSUME NEW n, Sound(n)
    PROVE  LET o == Unprotected(n)
           IN /\ Ends(n, o, {}) /\ Prots(o) = {} /\ o.slip = n.slip /\ o.fault = n.fault /\ o.gpr = n.gpr
              /\ o.mapped = n.mapped /\ o.live = n.live /\ o.missed = n.missed
              /\ \A q : Same(n, o, q)
<1> DEFINE P == [y \in Host |-> FALSE]
           k == [n EXCEPT !.prot = P]
           o == Unprotected(n)
<1>1. P \in [Host -> BOOLEAN] /\ \A y \in Host : ~P[y]
  OBVIOUS
<1> HIDE DEF P
<1>2. /\ Ends(n, k, {}) /\ k.prot = P /\ k.mapped = n.mapped /\ k.slip = n.slip /\ k.fault = n.fault
      /\ k.reg = n.reg /\ k.gpr = n.gpr
  BY <1>1, Protecting
<1>3. \A q : Same(n, k, q)
  BY <1>1, Protecting
<1>4. k.missed = n.missed /\ k.live = n.live
  BY DEF Sound, Shape, Fields
<1>5. o = Returning(k, NoReg)
  BY DEF Unprotected, Returning, P, Sound, Shape, Fields
<1> HIDE DEF k, o
<1>6. o.missed = k.missed
  BY <1>2, <1>5 DEF Returning, Ends, Sound, Shape, Fields
<1>7. Does(k, o, {}) /\ Prots(o) = Prots(k) /\ o.mapped = k.mapped /\ o.slip = k.slip /\ o.fault = k.fault
      /\ o.gpr = k.gpr
  BY <1>2, <1>5, ReturningDoes DEF Ends
<1>8. \A q : Same(k, o, q)
  BY <1>2, <1>5, ReturningDoes DEF Ends
<1>9. Ends(n, o, {})
  BY <1>2, <1>7, DoesEnds, EndsTrans
<1>10. Prots(o) = {}
  BY <1>1, <1>2, <1>7 DEF Prots
<1>11. \A q : Same(n, o, q)
  BY <1>3, <1>8 DEF Same
<1>12. o.live = n.live
  BY <1>9 DEF Ends, Effect
<1> QED
  BY <1>2, <1>4, <1>6, <1>7, <1>9, <1>10, <1>11, <1>12 DEF o

-----------------------------------------------------------------------------
(* What is written back at the end of a block.                             *)
LEMMA UnMapConst ==
    ASSUME NEW n, Sound(n), NEW y \in Host, NEW q \in Guest
    PROVE  IsConst(UnMap_X86reg(n, y), q) <=> IsConst(n, q)
<1> DEFINE o == UnMap_X86reg(n, y)
<1>1. Same(n, o, q) \/ (IsMapped(n, q) /\ o.st[q] = STATE_UNKNOWN)
  BY UnMapX86
<1> HIDE DEF o
<1>2. CASE Same(n, o, q)
  BY <1>2, SameHosts DEF o
<1>3. CASE IsMapped(n, q) /\ o.st[q] = STATE_UNKNOWN
  BY <1>3, StateFacts DEF o
<1> QED
  BY <1>1, <1>2, <1>3

LEMMA UnMapThreeDoes ==
    ASSUME NEW n, Sound(n), Prots(n) = {}, NEW y \in Host, NEW z \in Host, NEW w \in Host
    PROVE  LET o == UnMapThree(n, y, z, w)
           IN /\ Does(n, o, {}) /\ Prots(o) = {} /\ o.slip = n.slip /\ o.fault = n.fault
              /\ \A q \in Host : (q \in {y, z, w} \/ n.mapped[q] = "none") => o.mapped[q] = "none"
              /\ \A q \in Guest : IsConst(o, q) <=> IsConst(n, q)
<1> DEFINE j == UnMap_X86reg(n, y)
           k == UnMap_X86reg(j, z)
           o == UnMap_X86reg(k, w)
<1>1. /\ Does(n, j, {}) /\ Prots(j) = {} /\ j.slip = n.slip /\ j.fault = n.fault /\ j.mapped[y] = "none"
      /\ \A q \in Host : n.mapped[q] = "none" => j.mapped[q] = "none"
  <2>1. ~n.prot[y]
    BY DEF Prots
  <2> QED
    BY <2>1, UnMapX86
<1>11. \A q \in Guest : IsConst(j, q) <=> IsConst(n, q)
  BY UnMapConst
<1> HIDE DEF j
<1>2. /\ Does(j, k, {}) /\ Prots(k) = {} /\ k.slip = j.slip /\ k.fault = j.fault /\ k.mapped[z] = "none"
      /\ \A q \in Host : j.mapped[q] = "none" => k.mapped[q] = "none"
  <2>1. ~j.prot[z] /\ Sound(j)
    BY <1>1 DEF Prots, Does
  <2> QED
    BY <1>1, <2>1, UnMapX86
<1>12. \A q \in Guest : IsConst(k, q) <=> IsConst(j, q)
  BY <1>1, UnMapConst DEF Does
<1> HIDE DEF k
<1>3. /\ Does(k, o, {}) /\ Prots(o) = {} /\ o.slip = k.slip /\ o.fault = k.fault /\ o.mapped[w] = "none"
      /\ \A q \in Host : k.mapped[q] = "none" => o.mapped[q] = "none"
  <2>1. ~k.prot[w] /\ Sound(k)
    BY <1>2 DEF Prots, Does
  <2> QED
    BY <1>2, <2>1, UnMapX86
<1>13. \A q \in Guest : IsConst(o, q) <=> IsConst(k, q)
  BY <1>2, UnMapConst DEF Does
<1> HIDE DEF o
<1>4. Does(n, o, {})
  <2>1. Does(n, k, {})
    BY <1>1, <1>2, DoesTrans
  <2> QED
    BY <1>3, <2>1, DoesTrans
<1>5. o = UnMapThree(n, y, z, w)
  BY DEF UnMapThree, o, k, j
<1> QED
  <2>1. \A q \in Guest : IsConst(o, q) <=> IsConst(n, q)
    BY <1>11, <1>12, <1>13
  <2> QED
    BY <1>1, <1>2, <1>3, <1>4, <1>5, <2>1

LEMMA UnMapAllEnds ==
    ASSUME NEW n, Sound(n)
    PROVE  LET o == UnMapAll(n)
           IN /\ Ends(n, o, {}) /\ Prots(o) = {} /\ o.slip = n.slip /\ o.fault = n.fault
              /\ \A q \in Guest : ~IsMapped(o, q)
              /\ \A y \in Host : o.mapped[y] = "none"
              /\ Constants(o) = Constants(n)
<1> DEFINE P == [y \in Host |-> FALSE]
           k == [n EXCEPT !.prot = P]
           l == UnMapThree(k, EAX, ECX, EDX)
           o == UnMapThree(l, EBX, ESI, EDI)
<1>1. P \in [Host -> BOOLEAN] /\ \A y \in Host : ~P[y]
  OBVIOUS
<1>2. o = UnMapAll(n)
  BY DEF UnMapAll
<1> HIDE DEF P
<1>3. Ends(n, k, {}) /\ k.prot = P /\ k.slip = n.slip /\ k.fault = n.fault
  BY <1>1, Protecting
<1>31. \A q \in Guest : IsConst(k, q) <=> IsConst(n, q)
  <2>1. \A q \in Guest : Same(n, k, q)
    BY <1>1, Protecting
  <2> HIDE DEF k
  <2> QED
    BY <2>1, SameHosts
<1> HIDE DEF k
<1>4. Sound(k) /\ Prots(k) = {}
  BY <1>1, <1>3 DEF Prots, Ends
<1>5. Does(k, l, {}) /\ Prots(l) = {} /\ l.slip = k.slip /\ l.fault = k.fault
      /\ \A q \in Host : (q \in {EAX, ECX, EDX} \/ k.mapped[q] = "none") => l.mapped[q] = "none"
  <2>1. EAX \in Host /\ ECX \in Host /\ EDX \in Host
    BY ConstantFacts
  <2>2. \A q \in Host : (q \in {EAX, ECX, EDX} \/ k.mapped[q] = "none") => l.mapped[q] = "none"
    BY <1>4, <2>1, UnMapThreeDoes
  <2>3. Does(k, l, {}) /\ Prots(l) = {} /\ l.slip = k.slip /\ l.fault = k.fault
    BY <1>4, <2>1, UnMapThreeDoes
  <2> QED
    BY <2>2, <2>3
<1>51. \A q \in Guest : IsConst(l, q) <=> IsConst(k, q)
  <2>1. EAX \in Host /\ ECX \in Host /\ EDX \in Host
    BY ConstantFacts
  <2> QED
    BY <1>4, <2>1, UnMapThreeDoes
<1> HIDE DEF l
<1>6. Does(l, o, {}) /\ Prots(o) = {} /\ o.slip = l.slip /\ o.fault = l.fault
      /\ \A q \in Host : (q \in {EBX, ESI, EDI} \/ l.mapped[q] = "none") => o.mapped[q] = "none"
  <2>1. EBX \in Host /\ ESI \in Host /\ EDI \in Host /\ Sound(l)
    BY <1>5, ConstantFacts DEF Does
  <2>2. \A q \in Host : (q \in {EBX, ESI, EDI} \/ l.mapped[q] = "none") => o.mapped[q] = "none"
    BY <1>5, <2>1, UnMapThreeDoes
  <2>3. Does(l, o, {}) /\ Prots(o) = {} /\ o.slip = l.slip /\ o.fault = l.fault
    BY <1>5, <2>1, UnMapThreeDoes
  <2> QED
    BY <2>2, <2>3
<1>61. \A q \in Guest : IsConst(o, q) <=> IsConst(l, q)
  <2>1. EBX \in Host /\ ESI \in Host /\ EDI \in Host /\ Sound(l)
    BY <1>5, ConstantFacts DEF Does
  <2> QED
    BY <1>5, <2>1, UnMapThreeDoes
<1> HIDE DEF o
<1>7. \A y \in Host : o.mapped[y] = "none"
  BY <1>5, <1>6 DEF Host
<1>8. \A q \in Guest : ~IsMapped(o, q)
  BY <1>6, <1>7, HostsInside, StateFacts DEF Does, Sound, Marked
<1>9. Ends(n, o, {})
  <2>1. Does(k, o, {})
    BY <1>5, <1>6, DoesTrans
  <2> QED
    BY <1>3, <2>1, DoesEnds, EndsTrans
<1> QED
  <2>1. Constants(o) = Constants(n)
    BY <1>31, <1>51, <1>61 DEF Constants
  <2> QED
    BY <1>2, <1>3, <1>5, <1>6, <1>7, <1>8, <1>9, <2>1

(* Nothing but register 0 is known.                                        *)
Written(n) == \A r \in Guest \ {0} : n.st[r] = STATE_UNKNOWN

LEMMA WriteBackEnds ==
    ASSUME NEW n, Sound(n)
    PROVE  LET o == WriteBackRegisters(n)
           IN Ends(n, o, {}) /\ Prots(o) = {} /\ Written(o) /\ (n.slip => o.slip) /\ o.fault = n.fault
<1> DEFINE k == UnMapAll(n)
           R == Constants(k)
           b == \E r \in R : OnesStored(k, r) /\ k.hi[r] # Ones
           o == WriteConstants(k, R)
<1>1. /\ Ends(n, k, {}) /\ Prots(k) = {} /\ k.slip = n.slip /\ k.fault = n.fault
      /\ \A q \in Guest : ~IsMapped(k, q)
      /\ \A y \in Host : k.mapped[y] = "none"
  <2>1. Ends(n, k, {}) /\ Prots(k) = {} /\ k.slip = n.slip /\ k.fault = n.fault
    BY UnMapAllEnds
  <2>2. \A q \in Guest : ~IsMapped(k, q)
    BY UnMapAllEnds
  <2>3. \A y \in Host : k.mapped[y] = "none"
    BY UnMapAllEnds
  <2> QED
    BY <2>1, <2>2, <2>3
<1>2. o = WriteBackRegisters(n)
  <2>1. Constants(k) = Constants(n)
    BY UnMapAllEnds
  <2> QED
    BY <2>1 DEF WriteBackRegisters
<1> HIDE DEF k
<1>3. R \subseteq Guest \ {0} /\ \A r \in Guest : r \in R <=> r # 0 /\ IsConst(k, r)
  BY DEF Constants
<1>4. \A r \in Guest \ {0} : r \notin R => k.st[r] = STATE_UNKNOWN
  BY <1>1, <1>3 DEF IsMapped, IsKnown, IsUnknown
<1> HIDE DEF R
<1>5. /\ DOMAIN o = Fields /\ o.lo = k.lo /\ o.hi = k.hi /\ o.mapped = k.mapped /\ o.order = k.order
      /\ o.prot = k.prot /\ o.x = k.x /\ o.live = k.live /\ o.fault = k.fault
      /\ o.slip = (k.slip \/ b)
      /\ o.gpr = [r \in Guest |-> IF r \in R THEN WordsStored(k, r) ELSE k.gpr[r]]
      /\ o.st = [r \in Guest |-> IF r \in R THEN STATE_UNKNOWN ELSE k.st[r]]
  <2> HIDE DEF b
  <2>1. o = [k EXCEPT !.slip = @ \/ b,
              !.gpr = [r \in Guest |-> IF r \in R THEN WordsStored(k, r) ELSE @[r]],
              !.st = [r \in Guest |-> IF r \in R THEN STATE_UNKNOWN ELSE @[r]]]
    BY DEF WriteConstants, b
  <2> HIDE DEF o
  <2> QED
    BY <1>1, <2>1 DEF Ends, Sound, Shape, Fields
<1>6. b \in BOOLEAN
  OBVIOUS
<1>7. (\E r \in R : OnesStored(k, r) /\ k.hi[r] # Ones) => b
  OBVIOUS
<1> HIDE DEF b, o
<1>8. Written(o) /\ o.st[0] = k.st[0] /\ o.gpr[0] = k.gpr[0]
  BY <1>3, <1>4, <1>5, ConstantFacts DEF Written
<1>9. \A r \in Guest : ~IsMapped(o, r) /\ HostsOf(o, r) = {}
  BY <1>1, <1>5, <1>8, StateFacts DEF Written, HostsOf, IsMapped, IsKnown, IsUnknown, IsConst
<1>10. Sound(o)
  <2>1. Shape(o)
    BY <1>1, <1>5, <1>6 DEF Ends, Sound, Shape, RegisterStates
  <2>2. IsConst(o, 0)
    BY <1>1, <1>8 DEF Ends, Sound, IsConst
  <2>3. \A r \in Guest : o.st[r] # STATE_MAPPED_64
    BY <1>9, StateFacts
  <2>4. Homes(o) /\ Apart(o)
    BY <1>9, <2>3 DEF Homes, Apart
  <2>5. Marked(o)
    BY <1>1, <1>5, <1>9 DEF Marked
  <2> QED
    BY <2>1, <2>2, <2>4, <2>5 DEF Sound
<1>11. Effect(k, o, {})
  <2>1. ASSUME ~b, NEW r \in Guest \ {0} PROVE Value(o, r) = Value(k, r)
    <3>1. o.st[r] = STATE_UNKNOWN
      BY <1>8 DEF Written
    <3>2. Value(o, r) = [hi |-> o.gpr[r].hi, lo |-> o.gpr[r].lo]
      BY <3>1, StateFacts DEF Value
    <3>3. CASE r \in R
      <4>1. o.gpr[r] = WordsStored(k, r)
        BY <1>5, <3>3
      <4>2. WordsStored(k, r) = Value(k, r)
        <5>1. CASE ~OnesStored(k, r)
          BY <5>1 DEF WordsStored
        <5>2. CASE OnesStored(k, r)
          <6>1. k.hi[r] = Ones
            BY <1>7, <2>1, <3>3, <5>2
          <6>2. k.st[r] = STATE_CONST_64 /\ k.lo[r] = Ones
            BY <5>2 DEF OnesStored
          <6> QED
            BY <5>2, <6>1, <6>2, StateFacts DEF WordsStored, Value
        <5> QED
          BY <5>1, <5>2
      <4> QED
        BY <3>2, <4>1, <4>2 DEF Value
    <3>4. CASE r \notin R
      <4>1. o.gpr[r] = k.gpr[r] /\ k.st[r] = STATE_UNKNOWN
        BY <1>4, <1>5, <3>4
      <4> QED
        BY <3>2, <4>1, StateFacts DEF Value
    <3> QED
      BY <3>3, <3>4
  <2>2. (k.slip => o.slip) /\ o.live = k.live /\ o.fault = k.fault /\ (~o.slip => ~b)
    BY <1>1, <1>5, <1>6 DEF Ends, Sound, Shape
  <2> QED
    BY <1>8, <2>1, <2>2 DEF Effect
<1>12. Ends(n, o, {})
  BY <1>1, <1>10, <1>11, EndsTrans DEF Ends
<1>13. Prots(o) = {}
  BY <1>1, <1>5 DEF Prots
<1> QED
  BY <1>1, <1>2, <1>5, <1>8, <1>12, <1>13 DEF Ends, Effect

(* A block that starts with what memory holds.                             *)
LEMMA InitilizeEnds ==
    ASSUME NEW n, Sound(n), Written(n)
    PROVE  LET o == InitilizeRegSet(n)
           IN Ends(n, o, {}) /\ Prots(o) = {} /\ Written(o) /\ o.slip = n.slip /\ o.fault = n.fault /\ o.gpr = n.gpr
<1> DEFINE o == InitilizeRegSet(n)
<1>1. /\ DOMAIN o = Fields /\ o.x = n.x /\ o.gpr = n.gpr /\ o.live = n.live /\ o.slip = n.slip /\ o.fault = n.fault
      /\ o.st = [r \in Guest |-> IF r = 0 THEN STATE_CONST_32 ELSE STATE_UNKNOWN]
      /\ o.lo = [r \in Guest |-> 0] /\ o.hi = [r \in Guest |-> 0]
      /\ o.mapped = [y \in Host |-> "none"] /\ o.order = [y \in Host |-> 0] /\ o.prot = [y \in Host |-> FALSE]
  BY DEF InitilizeRegSet, Sound, Shape, Fields
<1> HIDE DEF o
<1>2. \A r \in Guest : o.st[r] \in {STATE_CONST_32, STATE_UNKNOWN} /\ (r # 0 => o.st[r] = STATE_UNKNOWN)
  BY <1>1
<1>3. \A r \in Guest : ~IsMapped(o, r) /\ HostsOf(o, r) = {} /\ o.st[r] # STATE_MAPPED_64
  BY <1>2, StateFacts
<1>4. Sound(o)
  <2>1. Shape(o)
    BY <1>1 DEF Sound, Shape, RegisterStates, Marks
  <2>2. IsConst(o, 0)
    BY <1>1, ConstantFacts DEF IsConst
  <2>3. Homes(o) /\ Apart(o)
    BY <1>3 DEF Homes, Apart
  <2>4. Marked(o)
    BY <1>1, <1>3 DEF Marked
  <2> QED
    BY <2>1, <2>2, <2>3, <2>4 DEF Sound
<1>5. Effect(n, o, {})
  <2>1. ASSUME NEW r \in Guest \ {0} PROVE Value(o, r) = Value(n, r)
    <3>1. o.st[r] = STATE_UNKNOWN /\ n.st[r] = STATE_UNKNOWN
      BY <1>2 DEF Written
    <3> QED
      BY <1>1, <3>1, StateFacts DEF Value
  <2> QED
    BY <1>1, <2>1 DEF Effect
<1>6. Prots(o) = {} /\ Written(o)
  BY <1>1, <1>2 DEF Prots, Written
<1> QED
  BY <1>1, <1>4, <1>5, <1>6 DEF Ends, o

-----------------------------------------------------------------------------
(* Instructions start with nothing protected.                              *)
Idle(n) == Sound(n) /\ Prots(n) = {}

LEMMA IdleRoom ==
    ASSUME NEW n, Idle(n)
    PROVE  Sound(n) /\ Room(n, 6) /\ Room(n, 5) /\ Room(n, 4) /\ Room(n, 3) /\ Room(n, 2) /\ Room(n, 1)
           /\ \A y \in Host : ~n.prot[y]
<1>1. Cardinality({}) = 0
  BY FS_EmptySet
<1> QED
  BY <1>1 DEF Idle, Room, Prots

LEMMA SlipEnds ==
    ASSUME NEW n, NEW o, NEW R, Ends(n, o, R), NEW b
    PROVE  Ends(n, Slip(o, b), R)
<1> DEFINE p == Slip(o, b)
<1>1. /\ Alike(o, p) /\ p.prot = o.prot /\ p.x = o.x /\ p.fault = o.fault /\ p.slip = (o.slip \/ b)
  BY DEF Slip, Alike, Ends, Sound, Shape, Fields
<1> HIDE DEF p
<1>2. Sound(p) /\ \A r : Same(o, p, r)
  BY <1>1, AlikeSound DEF Ends, Sound, Shape
<1>3. ASSUME NEW r \in Guest PROVE Value(p, r) = Value(o, r)
  BY <1>1, <1>2, HostsInside, SameValue DEF Alike, Ends
<1>4. /\ (o.slip => p.slip) /\ p.live = o.live /\ p.gpr = o.gpr
      /\ (~p.slip => ~o.slip)
  BY <1>1 DEF Alike, Ends, Sound, Shape
<1>5. Effect(n, p, R)
  BY <1>1, <1>3, <1>4 DEF Ends, Effect
<1> QED
  BY <1>2, <1>5 DEF Ends, p

(* Where the case is known to go wrong.                                    *)
LEMMA SlippedEnds ==
    ASSUME NEW n, NEW o, Sound(o), o.live = n.live, NEW R, NEW b, b
    PROVE  Ends(n, Slip(o, b), R)
<1> DEFINE p == Slip(o, b)
<1>1. p.slip /\ p.live = n.live
  BY DEF Slip, Sound, Shape, Fields
<1>2. Ends(o, p, {})
  BY Nothing, SlipEnds
<1> HIDE DEF p
<1> QED
  BY <1>1, <1>2 DEF Ends, Effect, p

LEMMA Constant ==
    ASSUME NEW n, Sound(n), NEW r \in Guest, ~IsMapped(n, r), NEW o,
           /\ DOMAIN o = Fields /\ o.mapped = n.mapped /\ o.order = n.order
           /\ o.prot = n.prot /\ o.x = n.x /\ o.gpr = n.gpr /\ o.live = n.live /\ o.slip = n.slip /\ o.fault = n.fault
           /\ DOMAIN o.hi = Guest /\ DOMAIN o.lo = Guest /\ o.st \in [Guest -> RegisterStates] /\ IsConst(o, r),
           \A q \in Guest \ {r} : Same(n, o, q)
    PROVE  Does(n, o, {r}) /\ Ends(n, o, {r}) /\ Prots(o) = Prots(n)
<1>3. ~IsMapped(o, r) /\ HostsOf(o, r) = {} /\ HostsOf(n, r) = {} /\ o.st[r] # STATE_MAPPED_64
  BY StateFacts DEF IsMapped, HostsOf, IsConst
<1>4. \A q \in Guest : HostsOf(o, q) = HostsOf(n, q) /\ (IsMapped(o, q) <=> IsMapped(n, q))
  BY <1>3, SameHosts
<1>5. Sound(o)
  <2>1. Shape(o)
    BY DEF Sound, Shape
  <2>2. IsConst(o, 0)
    BY SameHosts, ConstantFacts DEF Sound
  <2>3. Homes(o)
    BY <1>3, <1>4 DEF Sound, Homes, Same
  <2>4. Apart(o) /\ Marked(o)
    BY <1>4 DEF Sound, Apart, Marked
  <2> QED
    BY <2>1, <2>2, <2>3, <2>4 DEF Sound
<1>6. Effect(n, o, {r})
  BY EffectOf
<1>7. Frame(n, o, {r}) /\ Prots(o) = Prots(n)
  BY <1>4 DEF Frame, Pinned, Prots
<1> QED
  BY <1>5, <1>6, <1>7 DEF Does, Ends

(* Register r leaves the cache.                                            *)
LEMMA DropDoes ==
    ASSUME NEW n, Sound(n), NEW r \in Guest
    PROVE  /\ Does(n, Drop(n, r), {r}) /\ Ends(n, Drop(n, r), {r}) /\ ~IsMapped(Drop(n, r), r)
           /\ Prots(Drop(n, r)) \subseteq Prots(n)
           /\ Does(n, DropMapped(n, r), {r}) /\ Ends(n, DropMapped(n, r), {r}) /\ ~IsMapped(DropMapped(n, r), r)
           /\ Prots(DropMapped(n, r)) \subseteq Prots(n)
<1>1. Does(n, Drop(n, r), {r})
  BY UnMapGPR DEF Drop
<1>2. Prots(Drop(n, r)) \subseteq Prots(n)
  BY UnMapGPR DEF Drop
<1>3. ~IsMapped(Drop(n, r), r)
  <2>1. CASE r = 0
    BY <2>1, HostsInside DEF Drop, UnMap_GPR
  <2>2. CASE r # 0
    <3>1. Drop(n, r).st[r] = STATE_UNKNOWN
      BY <2>2, UnMapGPR DEF Drop
    <3> QED
      BY <3>1, StateFacts
  <2> QED
    BY <2>1, <2>2
<1>4. Does(n, n, {r})
  BY Nothing
<1>5. DropMapped(n, r) = (IF IsMapped(n, r) THEN Drop(n, r) ELSE n)
  BY DEF DropMapped
<1> QED
  BY <1>1, <1>2, <1>3, <1>4, <1>5, DoesEnds

LEMMA SetConstEnds ==
    ASSUME NEW n, NEW k, NEW r \in Guest, Ends(n, k, {r}), ~IsMapped(k, r), NEW w, NEW d
    PROVE  Ends(n, SetConst32(k, r, w), {r}) /\ Ends(n, SetConst(k, r, d), {r})
<1>1. Sound(k)
  BY DEF Ends
<1>2. Ends(k, SetConst32(k, r, w), {r})
  <2> DEFINE o == SetConst32(k, r, w)
  <2>1. /\ DOMAIN o = Fields /\ o.mapped = k.mapped /\ o.order = k.order
        /\ o.prot = k.prot /\ o.x = k.x /\ o.gpr = k.gpr /\ o.live = k.live /\ o.slip = k.slip /\ o.fault = k.fault
    BY <1>1 DEF SetConst32, Sound, Shape, Fields
  <2>2. /\ DOMAIN o.hi = Guest /\ DOMAIN o.lo = Guest /\ o.st \in [Guest -> RegisterStates] /\ o.st[r] = STATE_CONST_32
        /\ \A q \in Guest \ {r} : Same(k, o, q)
    BY <1>1 DEF SetConst32, Sound, Shape, Fields, Same, RegisterStates
  <2> HIDE DEF o
  <2>3. IsConst(o, r)
    BY <2>2 DEF IsConst
  <2>4. Ends(k, o, {r})
    BY <1>1, <2>1, <2>2, <2>3, Constant
  <2> QED
    BY <2>4 DEF o
<1>3. Ends(k, SetConst(k, r, d), {r})
  <2> DEFINE o == SetConst(k, r, d)
             c == IF d = Extended(d.lo) THEN STATE_CONST_32 ELSE STATE_CONST_64
  <2>1. c \in {STATE_CONST_32, STATE_CONST_64}
    OBVIOUS
  <2>2. o = [k EXCEPT !.st[r] = c, !.hi[r] = d.hi, !.lo[r] = d.lo]
    BY DEF SetConst
  <2> HIDE DEF c, o
  <2>3. /\ DOMAIN o = Fields /\ o.mapped = k.mapped /\ o.order = k.order
        /\ o.prot = k.prot /\ o.x = k.x /\ o.gpr = k.gpr /\ o.live = k.live /\ o.slip = k.slip /\ o.fault = k.fault
    BY <1>1, <2>2 DEF Sound, Shape, Fields
  <2>4. /\ DOMAIN o.hi = Guest /\ DOMAIN o.lo = Guest /\ o.st \in [Guest -> RegisterStates] /\ o.st[r] = c
        /\ \A q \in Guest \ {r} : Same(k, o, q)
    BY <1>1, <2>1, <2>2 DEF Sound, Shape, Fields, Same, RegisterStates
  <2>5. IsConst(o, r)
    BY <2>1, <2>4 DEF IsConst
  <2>6. Ends(k, o, {r})
    BY <1>1, <2>3, <2>4, <2>5, Constant
  <2> QED
    BY <2>6 DEF o
<1> QED
  BY <1>2, <1>3, EndsTrans

(* A constant, once the register has left the cache.                       *)
LEMMA ConstInto ==
    ASSUME NEW n, Sound(n), NEW r \in Guest, NEW w
    PROVE  /\ Ends(n, SetConst32(DropMapped(n, r), r, w), {r})
           /\ Ends(n, SetConst32(Drop(n, r), r, w), {r})
BY DropDoes, SetConstEnds

LEMMA LongConstInto ==
    ASSUME NEW n, Sound(n), NEW r \in Guest, NEW d
    PROVE  /\ Ends(n, SetConst(DropMapped(n, r), r, d), {r})
           /\ Ends(n, SetConst(Drop(n, r), r, d), {r})
BY DropDoes, SetConstEnds

(* A word into a register that is mapped to 32 bits, or words to 64.       *)
LEMMA Low32 ==
    ASSUME NEW n, Sound(n), Room(n, 1), NEW r \in Guest \ {0}, NEW b \in BOOLEAN, NEW load, NEW w
    PROVE  Ends(n, SetLow(Map_GPR_32bit(n, r, b, load), r, w), {r})
BY MapSet32

LEMMA Both64 ==
    ASSUME NEW n, Sound(n), Room(n, 2), NEW r \in Guest \ {0}, NEW load, NEW d
    PROVE  Ends(n, SetBoth(Map_GPR_64bit(n, r, load), r, d), {r})
BY MapSet64

LEMMA Compile_ADDI_Ends ==
    ASSUME NEW n, Idle(n), NEW rt \in Guest, NEW rs \in Guest, NEW imm
    PROVE  Ends(n, Compile_ADDI(n, rt, rs, imm), {rt})
BY IdleRoom, Nothing, ConstInto, Low32 DEF Compile_ADDI, Map32, LowInto

-----------------------------------------------------------------------------
(* Work on register r; of register 0, to which some instructions write all *)
(* the same, only that the cache stays sound.                              *)
Fine(n, o, r) == Sound(o) /\ o.live = n.live /\ (r # 0 => Ends(n, o, {r}))

LEMMA FineFacts ==
    ASSUME NEW n, NEW o, NEW r
    PROVE  /\ Ends(n, o, {r}) => Fine(n, o, r)
           /\ Fine(n, o, r) /\ r # 0 => Ends(n, o, {r})
           /\ Fine(n, o, r) => Sound(o) /\ o.live = n.live
BY DEF Fine, Ends, Effect

LEMMA FineAfter ==
    ASSUME NEW n, NEW k, Ends(n, k, {}), NEW o, NEW r, Fine(k, o, r)
    PROVE  Fine(n, o, r)
<1>1. o.live = n.live /\ Sound(o)
  BY DEF Fine, Ends, Effect
<1>2. r # 0 => Ends(n, o, {r})
  BY EndsTrans DEF Fine
<1> QED
  BY <1>1, <1>2 DEF Fine

LEMMA FineSlip ==
    ASSUME NEW n, NEW o, NEW r, Fine(n, o, r), NEW b, r = 0 => b
    PROVE  Ends(n, Slip(o, b), {r}) /\ Fine(n, Slip(o, b), r)
<1>1. Ends(n, Slip(o, b), {r})
  <2>1. CASE r = 0
    BY <2>1, SlippedEnds DEF Fine
  <2>2. CASE r # 0
    BY <2>2, SlipEnds DEF Fine
  <2> QED
    BY <2>1, <2>2
<1> QED
  BY <1>1, FineFacts

LEMMA Fine32 ==
    ASSUME NEW n, Sound(n), NEW r \in Guest, IsMapped(n, r) \/ Room(n, 1), NEW b \in BOOLEAN, NEW load, NEW w
    PROVE  Fine(n, SetLow(Map_GPR_32bit(n, r, b, load), r, w), r)
BY MapSet32 DEF Fine

LEMMA Fine64 ==
    ASSUME NEW n, Sound(n), NEW r \in Guest, NEW load, NEW d,
           n.st[r] = STATE_MAPPED_64 \/ Room(n, 2) \/ (Pinned(n, r) /\ Room(n, 1))
    PROVE  Fine(n, SetBoth(Map_GPR_64bit(n, r, load), r, d), r)
BY MapSet64 DEF Fine

LEMMA FineLow64 ==
    ASSUME NEW n, Sound(n), NEW r \in Guest, NEW load, NEW w, Room(n, 2)
    PROVE  Fine(n, SetLow(Map_GPR_64bit(n, r, load), r, w), r)
<1>1. CASE r = 0
  <2>1. Map_GPR_64bit(n, r, load) = n
    BY <1>1 DEF Map_GPR_64bit
  <2>2. Sound(SetX86(n, n.lo[r], w))
    BY SetX86Sound
  <2>3. SetX86(n, n.lo[r], w).live = n.live
    BY SetX86Rest
  <2> QED
    BY <1>1, <2>1, <2>2, <2>3 DEF SetLow, Fine
<1>2. CASE r # 0
  <2> DEFINE k == Map_GPR_64bit(n, r, load)
  <2>1. Does(n, k, {r}) /\ k.st[r] = STATE_MAPPED_64
    BY <1>2, MapGPR64
  <2> HIDE DEF k
  <2>2. Sound(k) /\ IsMapped(k, r)
    BY <2>1, StateFacts DEF Does
  <2>3. Does(k, SetLow(k, r, w), {r})
    BY <2>2, SetLowDoes
  <2>4. Does(n, SetLow(k, r, w), {r})
    BY <2>1, <2>3, DoesTrans
  <2>5. Fine(n, SetLow(k, r, w), r)
    BY <2>4, DoesEnds, FineFacts
  <2> QED
    BY <2>5 DEF k
<1> QED
  BY <1>1, <1>2

(* What protecting a register leaves.                                      *)
LEMMA ProtectSteps ==
    ASSUME NEW n, Sound(n), NEW r \in Guest
    PROVE  LET o == ProtectGPR(n, r)
           IN /\ Does(n, o, {}) /\ Ends(n, o, {}) /\ Sound(o)
              /\ IsMapped(n, r) => Pinned(o, r)
              /\ Room(n, 6) => Room(o, 4)
              /\ Room(n, 5) => Room(o, 3)
              /\ Room(n, 4) => Room(o, 2)
              /\ Room(n, 3) => Room(o, 1)
<1> DEFINE o == ProtectGPR(n, r)
<1>1. Does(n, o, {}) /\ (IsMapped(n, r) => Pinned(o, r)) /\ Sound(o) /\ Ends(n, o, {})
  BY ProtectGPRDoes, DoesEnds
<1>2. \A k \in Nat : Room(n, k + 2) => Room(o, k)
  BY ProtectGPRDoes
<1> HIDE DEF o
<1>3. /\ Room(n, 6) => Room(o, 4)
      /\ Room(n, 5) => Room(o, 3)
      /\ Room(n, 4) => Room(o, 2)
      /\ Room(n, 3) => Room(o, 1)
  <2>1. Room(n, 4 + 2) => Room(o, 4)
    BY <1>2
  <2>2. Room(n, 3 + 2) => Room(o, 3)
    BY <1>2
  <2>3. Room(n, 2 + 2) => Room(o, 2)
    BY <1>2
  <2>4. Room(n, 1 + 2) => Room(o, 1)
    BY <1>2
  <2>5. 4 + 2 = 6 /\ 3 + 2 = 5 /\ 2 + 2 = 4 /\ 1 + 2 = 3
    OBVIOUS
  <2> QED
    BY <2>1, <2>2, <2>3, <2>4, <2>5
<1> QED
  BY <1>1, <1>3 DEF o

LEMMA ConstantChanged ==
    ASSUME NEW n, NEW k, NEW r \in Guest, NEW q \in Guest, IsConst(n, q), Sound(n),
           Ends(n, k, {r}), ~IsMapped(k, r), NEW w
    PROVE  Ends(n, LowChanged(n, k, r, q, w), {r})
<1> DEFINE o == LowChanged(n, k, r, q, w)
           c == n.st[q]
           h == n.hi[q]
<1>1. Sound(k) /\ c \in RegisterStates /\ c \in {STATE_CONST_32, STATE_CONST_64}
  BY DEF Ends, Sound, Shape, IsConst
<1>2. o = [k EXCEPT !.st[r] = c, !.hi[r] = h, !.lo[r] = w]
  BY DEF LowChanged
<1> HIDE DEF c, o, h
<1>3. /\ DOMAIN o = Fields /\ o.mapped = k.mapped /\ o.order = k.order
      /\ o.prot = k.prot /\ o.x = k.x /\ o.gpr = k.gpr /\ o.live = k.live /\ o.slip = k.slip /\ o.fault = k.fault
  BY <1>1, <1>2 DEF Sound, Shape, Fields
<1>4. /\ DOMAIN o.hi = Guest /\ DOMAIN o.lo = Guest /\ o.st \in [Guest -> RegisterStates] /\ o.st[r] = c
      /\ \A p \in Guest \ {r} : Same(k, o, p)
  BY <1>1, <1>2 DEF Sound, Shape, Fields, Same
<1>5. IsConst(o, r)
  BY <1>1, <1>4 DEF IsConst
<1>6. Ends(k, o, {r})
  BY <1>1, <1>3, <1>4, <1>5, Constant
<1>7. Ends(n, o, {r})
  BY <1>6, EndsTrans
<1> QED
  BY <1>7 DEF o

-----------------------------------------------------------------------------
(* With an immediate.                                                      *)
LEMMA Compile_ADDIU_Ends ==
    ASSUME NEW n, Idle(n), NEW rt \in Guest, NEW rs \in Guest, NEW imm
    PROVE  Ends(n, Compile_ADDIU(n, rt, rs, imm), {rt})
BY IdleRoom, Nothing, ConstInto, Low32 DEF Compile_ADDIU, Map32, LowInto

LEMMA Compile_SLTIU_Ends ==
    ASSUME NEW n, Idle(n), NEW rt \in Guest, NEW rs \in Guest, NEW imm
    PROVE  Ends(n, Compile_SLTIU(n, rt, rs, imm), {rt})
BY IdleRoom, Nothing, ConstInto, Low32, SlipEnds DEF Compile_SLTIU, FlagInto

LEMMA Compile_SLTI_Ends ==
    ASSUME NEW n, Idle(n), NEW rt \in Guest, NEW rs \in Guest, NEW imm
    PROVE  Ends(n, Compile_SLTI(n, rt, rs, imm), {rt})
<1> DEFINE k == ProtectGPR(n, rs)
<1>1. Sound(n) /\ Room(n, 6) /\ Room(n, 1)
  BY IdleRoom
<1>2. Ends(n, k, {}) /\ Sound(k) /\ Room(k, 4)
  BY <1>1, ProtectSteps
<1>3. Room(k, 1)
  BY <1>2, Rooms
<1> HIDE DEF k
<1>4. ASSUME NEW w, rt # 0 PROVE Ends(n, SetLow(Map_GPR_32bit(k, rt, FALSE, -1), rt, w), {rt})
  BY <1>2, <1>3, <1>4, Low32, EndsTrans
<1>5. \A w, b : rt # 0 => Ends(n, Slip(SetLow(Map_GPR_32bit(k, rt, FALSE, -1), rt, w), b), {rt})
  BY <1>4, SlipEnds
<1> QED
  BY <1>1, <1>5, Nothing, ConstInto, Low32 DEF Compile_SLTI, FlagInto, FlagLessImmediate, k

LEMMA Compile_ANDI_Ends ==
    ASSUME NEW n, Idle(n), NEW rt \in Guest, NEW rs \in Guest, NEW imm
    PROVE  Ends(n, Compile_ANDI(n, rt, rs, imm), {rt})
<1>1. rt # 0 => Ends(n, Map_GPR_32bit(n, rt, FALSE, 0), {rt})
  BY IdleRoom, MapGPR32, DoesEnds
<1> QED
  BY <1>1, IdleRoom, Nothing, ConstInto, Low32 DEF Compile_ANDI, Map32, LowInto

LEMMA LikeSourceEnds ==
    ASSUME NEW n, Idle(n), NEW rt \in Guest \ {0}, NEW rs \in Guest, NEW w
    PROVE  /\ \A b \in BOOLEAN : Ends(n, SetLow(Map_GPR_32bit(n, rt, b, rs), rt, w), {rt})
           /\ Ends(n, SetLow(Map_GPR_64bit(n, rt, rs), rt, w), {rt})
<1>1. Fine(n, SetLow(Map_GPR_64bit(n, rt, rs), rt, w), rt)
  BY IdleRoom, FineLow64
<1> QED
  BY <1>1, IdleRoom, Low32, FineFacts

LEMMA SignedBoolean ==
    ASSUME NEW n, NEW r
    PROVE  IsSigned(n, r) \in BOOLEAN
BY DEF IsSigned

LEMMA Compile_ORI_Ends ==
    ASSUME NEW n, Idle(n), NEW rt \in Guest, NEW rs \in Guest, NEW imm
    PROVE  Ends(n, Compile_ORI(n, rt, rs, imm), {rt})
<1>1. IsConst(n, rs) => \A w : Ends(n, LowChanged(n, DropMapped(n, rt), rt, rs, w), {rt})
  BY IdleRoom, DropDoes, ConstantChanged
<1> QED
  BY <1>1, IdleRoom, Nothing, LikeSourceEnds, SignedBoolean DEF Compile_ORI, LikeSource, LowInto

LEMMA Compile_XORI_Ends ==
    ASSUME NEW n, Idle(n), NEW rt \in Guest, NEW rs \in Guest, NEW imm
    PROVE  Ends(n, Compile_XORI(n, rt, rs, imm), {rt})
<1>1. IsConst(n, rs) => \A w : Ends(n, LowChanged(n, Drop(n, rt), rt, rs, w), {rt})
  BY IdleRoom, DropDoes, ConstantChanged
<1>2. IsConst(n, rs) /\ rs = rt => \A w : Ends(n, LowChanged(n, n, rt, rs, w), {rt})
  BY IdleRoom, Nothing, StateFacts, ConstantChanged
<1> QED
  BY <1>1, <1>2, IdleRoom, Nothing, LikeSourceEnds, SignedBoolean DEF Compile_XORI, LikeSource, LowInto

LEMMA Compile_LUI_Ends ==
    ASSUME NEW n, Idle(n), NEW rt \in Guest, NEW imm
    PROVE  Ends(n, Compile_LUI(n, rt, imm), {rt})
BY IdleRoom, Nothing, ConstInto DEF Compile_LUI

-----------------------------------------------------------------------------
(* Shifts.                                                                 *)
LEMMA TempSet ==
    ASSUME NEW n, Sound(n), NEW y \in Host, n.mapped[y] # "gpr", NEW w
    PROVE  LET o == SetX86(n, y, w)
           IN /\ Does(n, o, {}) /\ Ends(n, o, {}) /\ Sound(o) /\ Prots(o) = Prots(n) /\ o.reg = n.reg
              /\ o.mapped = n.mapped /\ o.prot = n.prot /\ o.slip = n.slip /\ o.fault = n.fault
              /\ \A q : Same(n, o, q)
<1> DEFINE o == SetX86(n, y, w)
<1>1. Sound(o) /\ Frame(n, o, {}) /\ o.mapped = n.mapped /\ o.prot = n.prot /\ Prots(o) = Prots(n) /\ o.reg = n.reg
      /\ o.slip = n.slip
  <2>1. Sound(o) /\ Frame(n, o, {})
    BY SetX86Sound
  <2> QED
    BY <2>1, SetX86Rest
<1>2. o.fault = n.fault /\ Effect(n, o, {r \in Guest : y \in HostsOf(n, r)})
  BY SetX86Sound
<1>3. \A q : Same(n, o, q)
  BY SetX86Sound
<1> HIDE DEF o
<1>4. {r \in Guest : y \in HostsOf(n, r)} = {}
  BY DEF Sound, Marked
<1> QED
  BY <1>1, <1>2, <1>3, <1>4 DEF Does, Ends, o

(* A temporary of any x86 register, or of one that is free to be taken.    *)
TempFrom(n, want, o) ==
    /\ Does(n, o, {}) /\ Ends(n, o, {}) /\ Sound(o) /\ Temp(o) /\ o.reg \in Host
    /\ o.mapped[o.reg] # "gpr" /\ (want \in Host => o.reg = want)
    /\ Prots(o) \subseteq Prots(n) \cup {o.reg}
    /\ o.slip = n.slip /\ o.fault = n.fault
    /\ Room(n, 6) => Room(o, 5)
    /\ Room(n, 5) => Room(o, 4)
    /\ Room(n, 4) => Room(o, 3)
    /\ Room(n, 3) => Room(o, 2)
    /\ Room(n, 2) => Room(o, 1)

LEMMA TempSteps ==
    ASSUME NEW n, Sound(n), NEW want, NEW load, NEW high,
           (want = AnyHost /\ Room(n, 1)) \/ (want \in Host /\ (n.mapped[want] # "gpr" \/ ~n.prot[want]))
    PROVE  TempFrom(n, want, Map_TempReg(n, want, load, high))
<1> DEFINE o == Map_TempReg(n, want, load, high)
<1>1. AnyHost \notin Host
  BY ConstantFacts DEF AnyHost
<1>2. /\ Does(n, o, {}) /\ Temp(o) /\ (want # AnyHost => o.reg = want) /\ Prots(o) \subseteq Prots(n) \cup {o.reg}
      /\ o.slip = n.slip /\ o.fault = n.fault
  BY <1>1, MapTemp
<1> HIDE DEF o
<1>3. Ends(n, o, {}) /\ Sound(o)
  BY <1>2, DoesEnds
<1>4. /\ Room(n, 6) => Room(o, 5)
      /\ Room(n, 5) => Room(o, 4)
      /\ Room(n, 4) => Room(o, 3)
      /\ Room(n, 3) => Room(o, 2)
      /\ Room(n, 2) => Room(o, 1)
  BY <1>2, RoomSteps
<1>5. o.reg \in Host /\ o.mapped[o.reg] # "gpr"
  BY <1>2 DEF Temp
<1>6. TempFrom(n, want, o)
  BY <1>1, <1>2, <1>3, <1>4, <1>5 DEF TempFrom
<1> QED
  BY <1>6 DEF o

LEMMA AnyTemp ==
    ASSUME NEW n, Sound(n), Room(n, 1), NEW load, NEW high
    PROVE  TempFrom(n, AnyHost, Map_TempReg(n, AnyHost, load, high))
BY TempSteps

LEMMA FreeTemp ==
    ASSUME NEW n, Sound(n), NEW y \in Host, n.mapped[y] # "gpr" \/ ~n.prot[y], NEW load, NEW high
    PROVE  TempFrom(n, y, Map_TempReg(n, y, load, high))
BY TempSteps

LEMMA IdleTemp ==
    ASSUME NEW n, Idle(n), NEW want, want = AnyHost \/ want \in Host, NEW load, NEW high
    PROVE  TempFrom(n, want, Map_TempReg(n, want, load, high))
BY IdleRoom, TempSteps

LEMMA TempFacts ==
    ASSUME NEW n, NEW want, NEW o, TempFrom(n, want, o)
    PROVE  /\ Does(n, o, {}) /\ Ends(n, o, {}) /\ Sound(o) /\ Temp(o) /\ o.reg \in Host /\ o.mapped[o.reg] # "gpr"
           /\ Prots(o) \subseteq Prots(n) \cup {o.reg}
           /\ want \in Host => o.reg = want
           /\ Idle(n) => Room(o, 5) /\ Prots(o) \subseteq {o.reg}
BY IdleRoom DEF TempFrom, Idle

LEMMA SmallerRoom ==
    ASSUME NEW n
    PROVE  /\ Room(n, 6) => Room(n, 5) /\ Room(n, 4) /\ Room(n, 3) /\ Room(n, 2) /\ Room(n, 1)
           /\ Room(n, 5) => Room(n, 4) /\ Room(n, 3) /\ Room(n, 2) /\ Room(n, 1)
           /\ Room(n, 4) => Room(n, 3) /\ Room(n, 2) /\ Room(n, 1)
           /\ Room(n, 3) => Room(n, 2) /\ Room(n, 1)
           /\ Room(n, 2) => Room(n, 1)
BY Rooms DEF Room

LEMMA Compile_SLL_Ends ==
    ASSUME NEW n, Idle(n), NEW rd \in Guest, NEW rt \in Guest, NEW sa
    PROVE  Ends(n, Compile_SLL(n, rd, rt, sa), {rd})
<1> DEFINE k == ProtectGPR(n, rt)
<1>1. Sound(n) /\ Room(n, 6) /\ Room(n, 1)
  BY IdleRoom
<1>2. Ends(n, k, {}) /\ Sound(k) /\ Room(k, 4)
  BY <1>1, ProtectSteps
<1>3. Room(k, 1)
  BY <1>2, SmallerRoom
<1> HIDE DEF k
<1>4. ASSUME NEW w, rd # 0 PROVE Ends(n, SetLow(Map_GPR_32bit(k, rd, TRUE, -1), rd, w), {rd})
  BY <1>2, <1>3, <1>4, Low32, EndsTrans
<1> QED
  BY <1>1, <1>4, Nothing, ConstInto, Low32 DEF Compile_SLL, ShiftedAddress, Map32, LowInto, k

LEMMA Compile_SRL_Ends ==
    ASSUME NEW n, Idle(n), NEW rd \in Guest, NEW rt \in Guest, NEW sa
    PROVE  /\ Ends(n, Compile_SRL(n, rd, rt, sa), {rd})
           /\ Ends(n, Compile_SRA(n, rd, rt, sa), {rd})
BY IdleRoom, Nothing, ConstInto, Low32 DEF Compile_SRL, Compile_SRA, Shifted, Map32, LowInto

(* With the count in ECX.                                                  *)
LEMMA CountIn ==
    ASSUME NEW n, Idle(n), NEW rs \in Guest, NEW w
    PROVE  LET k == SetX86(Map_TempReg(n, ECX, rs, FALSE), ECX, w)
           IN Ends(n, k, {}) /\ Sound(k) /\ Room(k, 5)
<1> DEFINE e == Map_TempReg(n, ECX, rs, FALSE)
           k == SetX86(e, ECX, w)
<1>1. ECX \in Host
  BY ConstantFacts
<1>11. TempFrom(n, ECX, e)
  BY <1>1, IdleTemp
<1> HIDE DEF e
<1>2. Ends(n, e, {}) /\ Sound(e) /\ Room(e, 5) /\ e.mapped[ECX] # "gpr"
  BY <1>1, <1>11, TempFacts
<1>3. Ends(e, k, {}) /\ Sound(k) /\ Prots(k) = Prots(e)
  BY <1>1, <1>2, TempSet
<1> HIDE DEF k
<1>4. Ends(n, k, {}) /\ Room(k, 5)
  BY <1>2, <1>3, EndsTrans DEF Room
<1> QED
  BY <1>3, <1>4 DEF k, e

LEMMA CountedInto ==
    ASSUME NEW n, Idle(n), NEW rs \in Guest, NEW v, NEW rd \in Guest \ {0}, NEW rt
    PROVE  LET k == SetX86(Map_TempReg(n, ECX, rs, FALSE), ECX, v)
           IN /\ \A w : Ends(n, SetLow(Map_GPR_32bit(k, rd, TRUE, rt), rd, w), {rd})
              /\ \A d : Ends(n, SetBoth(Map_GPR_64bit(k, rd, rt), rd, d), {rd})
<1> DEFINE k == SetX86(Map_TempReg(n, ECX, rs, FALSE), ECX, v)
<1>1. Ends(n, k, {}) /\ Sound(k) /\ Room(k, 5)
  BY CountIn
<1> HIDE DEF k
<1>2. Room(k, 2) /\ Room(k, 1)
  BY <1>1, SmallerRoom
<1>3. ASSUME NEW w PROVE Ends(n, SetLow(Map_GPR_32bit(k, rd, TRUE, rt), rd, w), {rd})
  BY <1>1, <1>2, Low32, EndsTrans
<1>4. ASSUME NEW d PROVE Ends(n, SetBoth(Map_GPR_64bit(k, rd, rt), rd, d), {rd})
  BY <1>1, <1>2, Both64, EndsTrans
<1> QED
  BY <1>3, <1>4 DEF k

LEMMA Compile_SLLV_Ends ==
    ASSUME NEW n, Idle(n), NEW rd \in Guest, NEW rs \in Guest, NEW rt \in Guest
    PROVE  /\ Ends(n, Compile_SLLV(n, rd, rs, rt), {rd})
           /\ Ends(n, Compile_SRLV(n, rd, rs, rt), {rd})
           /\ Ends(n, Compile_SRAV(n, rd, rs, rt), {rd})
<1>1. Ends(n, Compile_SLLV(n, rd, rs, rt), {rd})
  BY IdleRoom, Nothing, ConstInto, Low32, CountedInto DEF Compile_SLLV, ShiftedBy, Shifted, Map32, LowInto,
     Counted, ByECX
<1>2. Ends(n, Compile_SRLV(n, rd, rs, rt), {rd})
  BY IdleRoom, Nothing, ConstInto, Low32, CountedInto DEF Compile_SRLV, ShiftedBy, Shifted, Map32, LowInto,
     Counted, ByECX
<1>3. Ends(n, Compile_SRAV(n, rd, rs, rt), {rd})
  BY IdleRoom, Nothing, ConstInto, Low32, CountedInto DEF Compile_SRAV, ShiftedBy, Shifted, Map32, LowInto,
     Counted, ByECX
<1> QED
  BY <1>1, <1>2, <1>3

LEMMA Unknown ==
    ASSUME NEW n, Sound(n)
    PROVE  /\ Sound(UnknownOpcode(n)) /\ UnknownOpcode(n).slip /\ UnknownOpcode(n).live = n.live
           /\ Prots(UnknownOpcode(n)) = Prots(n)
           /\ \A R : Ends(n, UnknownOpcode(n), R)
<1> DEFINE k == Fault(n, "unknown opcode")
           o == UnknownOpcode(n)
<1>1. Alike(n, o) /\ o.prot = n.prot /\ o.slip
  BY DEF UnknownOpcode, Fault, Slip, Alike, Sound, Shape, Fields
<1> HIDE DEF o
<1>2. Sound(o)
  BY <1>1, AlikeSound DEF Sound, Shape
<1> QED
  BY <1>1, <1>2 DEF Alike, Ends, Effect, Prots, o

LEMMA Compile_DSLLV_Ends ==
    ASSUME NEW n, Idle(n), NEW rd \in Guest, NEW rs \in Guest, NEW rt \in Guest
    PROVE  /\ Ends(n, Compile_DSLLV(n, rd, rs, rt), {rd})
           /\ Ends(n, Compile_DSRLV(n, rd, rs, rt), {rd})
           /\ Ends(n, Compile_DSRAV(n, rd, rs, rt), {rd})
<1>1. Ends(n, Compile_DSLLV(n, rd, rs, rt), {rd})
  BY IdleRoom, Nothing, Unknown, CountedInto DEF Compile_DSLLV, LongShiftedBy, Counted, LongByECX
<1>2. Ends(n, Compile_DSRLV(n, rd, rs, rt), {rd})
  BY IdleRoom, Nothing, LongConstInto, CountedInto DEF Compile_DSRLV, LongShiftedBy, Counted, LongByECX
<1>3. Ends(n, Compile_DSRAV(n, rd, rs, rt), {rd})
  BY IdleRoom, Nothing, Unknown, CountedInto DEF Compile_DSRAV, LongShiftedBy, Counted, LongByECX
<1> QED
  BY <1>1, <1>2, <1>3

-----------------------------------------------------------------------------
(* HI and LO, temporaries of named registers, jumps over emitted code.     *)
LEMMA HiLoBeside ==
    ASSUME NEW n, Sound(n), NEW d
    PROVE  Beside(n, SetHI(n, d)) /\ Beside(n, SetLO(n, d))
BY DEF Beside, SetHI, SetLO, Sound, Shape, Fields

LEMMA HiLoEnds ==
    ASSUME NEW n, NEW k, NEW R, Ends(n, k, R), NEW d
    PROVE  /\ Ends(n, SetHI(k, d), R) /\ Prots(SetHI(k, d)) = Prots(k)
           /\ Ends(n, SetLO(k, d), R) /\ Prots(SetLO(k, d)) = Prots(k)
<1>1. Sound(k)
  BY DEF Ends
<1>2. Beside(k, SetHI(k, d)) /\ Beside(k, SetLO(k, d))
  BY <1>1, HiLoBeside
<1>3. Ends(k, SetHI(k, d), {}) /\ Prots(SetHI(k, d)) = Prots(k)
  BY <1>1, <1>2, BesideDoes
<1>4. Ends(k, SetLO(k, d), {}) /\ Prots(SetLO(k, d)) = Prots(k)
  BY <1>1, <1>2, BesideDoes
<1> QED
  BY <1>3, <1>4, EndsTrans

LEMMA HiLoSetEnds ==
    ASSUME NEW n, NEW k, NEW R, Ends(n, k, R), NEW h, NEW l
    PROVE  Ends(n, HiLoSet(k, h, l), R) /\ Prots(HiLoSet(k, h, l)) = Prots(k)
<1> DEFINE j == SetLO(k, Extended(l))
<1>1. Ends(n, j, R) /\ Prots(j) = Prots(k)
  BY HiLoEnds
<1> HIDE DEF j
<1>2. Ends(n, SetHI(j, Extended(h)), R) /\ Prots(SetHI(j, Extended(h))) = Prots(j)
  BY <1>1, HiLoEnds
<1> QED
  BY <1>1, <1>2 DEF HiLoSet, j

LEMMA Compile_MFLO_Ends ==
    ASSUME NEW n, Idle(n), NEW rd \in Guest
    PROVE  Ends(n, Compile_MFLO(n, rd), {rd}) /\ Ends(n, Compile_MFHI(n, rd), {rd})
BY IdleRoom, Nothing, Both64 DEF Compile_MFLO, Compile_MFHI

(* Both words of a register through the same temporary.                    *)
LEMMA LowThroughEnds ==
    ASSUME NEW n, Sound(n), n.reg \in Host, n.mapped[n.reg] # "gpr", NEW r
    PROVE  TempFrom(n, n.reg, LowThrough(n, r)) /\ Ends(n, LowThrough(n, r), {})
<1>1. TempFrom(n, n.reg, LowThrough(n, r))
  BY FreeTemp DEF LowThrough
<1> QED
  BY <1>1, TempFacts

LEMMA Compile_MTLO_Ends ==
    ASSUME NEW n, Idle(n), NEW rs \in Guest
    PROVE  Ends(n, Compile_MTLO(n, rs), {}) /\ Ends(n, Compile_MTHI(n, rs), {})
<1> DEFINE e == Map_TempReg(n, AnyHost, rs, TRUE)
<1>1. TempFrom(n, AnyHost, e)
  BY IdleTemp
<1>2. Sound(n) /\ Ends(n, n, {})
  BY IdleRoom, Nothing
<1> HIDE DEF e
<1>3. Ends(n, e, {}) /\ Sound(e) /\ e.reg \in Host /\ e.mapped[e.reg] # "gpr"
  BY <1>1, TempFacts
<1>4. Ends(n, LowThrough(e, rs), {})
  BY <1>3, LowThroughEnds, EndsTrans
<1>5. Ends(n, MovedThrough(e, n, rs, SetLO), {})
  BY <1>2, <1>3, <1>4, HiLoEnds, SlipEnds DEF MovedThrough
<1>6. Ends(n, MovedThrough(e, n, rs, SetHI), {})
  BY <1>2, <1>3, <1>4, HiLoEnds, SlipEnds DEF MovedThrough
<1> QED
  BY <1>5, <1>6 DEF Compile_MTLO, Compile_MTHI, MovedTo, e

LEMMA EAXLoadedEnds ==
    ASSUME NEW n, Idle(n), NEW rs
    PROVE  LET k == EAXLoaded(n, rs)
           IN Ends(n, k, {}) /\ Sound(k) /\ Prots(k) \subseteq {EAX} /\ k.slip = n.slip /\ k.fault = n.fault
<1> DEFINE i == SetProtection(n, EDX, TRUE)
           j == Map_TempReg(i, EAX, rs, FALSE)
           k == SetProtection(j, EDX, FALSE)
<1>1. EAX \in Host /\ EDX \in Host /\ EAX # EDX /\ Sound(n) /\ Prots(n) = {}
  BY IdleRoom, ConstantFacts DEF EAX, EDX, Idle
<1>2. Ends(n, i, {}) /\ Prots(i) = Prots(n) \cup {EDX} /\ i.slip = n.slip /\ i.fault = n.fault
  BY <1>1, SetProtectionEnds
<1> HIDE DEF i
<1>3. Sound(i) /\ ~i.prot[EAX]
  BY <1>1, <1>2 DEF Prots, Ends
<1>4. TempFrom(i, EAX, j)
  BY <1>1, <1>3, FreeTemp
<1> HIDE DEF j
<1>5. Ends(i, j, {}) /\ Sound(j) /\ Prots(j) \subseteq {EDX, EAX} /\ j.slip = i.slip /\ j.fault = i.fault
  BY <1>1, <1>2, <1>4 DEF TempFrom
<1>6. Ends(j, k, {}) /\ Prots(k) = Prots(j) \ {EDX} /\ k.slip = j.slip /\ k.fault = j.fault
  BY <1>1, <1>5, SetProtectionEnds
<1>7. k = EAXLoaded(n, rs)
  BY DEF EAXLoaded, i, j
<1> HIDE DEF k
<1>8. Ends(n, k, {})
  BY <1>2, <1>5, <1>6, EndsTrans
<1> QED
  BY <1>2, <1>5, <1>6, <1>7, <1>8 DEF Ends

LEMMA NextTemp ==
    ASSUME NEW n, NEW k, Ends(n, k, {}), NEW X, Prots(k) \subseteq X, NEW y \in Host, y \notin X, NEW load, NEW high
    PROVE  LET o == Map_TempReg(k, y, load, high)
           IN Ends(n, o, {}) /\ Prots(o) \subseteq X \cup {y} /\ TempFrom(k, y, o)
<1> DEFINE o == Map_TempReg(k, y, load, high)
<1>1. Sound(k) /\ ~k.prot[y]
  BY DEF Ends, Prots
<1>2. TempFrom(k, y, o)
  BY <1>1, FreeTemp
<1> HIDE DEF o
<1>3. Ends(k, o, {}) /\ Prots(o) \subseteq Prots(k) \cup {o.reg} /\ o.reg = y
  BY <1>2, TempFacts
<1>4. Ends(n, o, {})
  BY <1>3, EndsTrans
<1> QED
  BY <1>2, <1>3, <1>4 DEF o

(* The same, to be applied to constants of the code.                       *)
TempNext(n, X, y, o) == Ends(n, o, {}) /\ Prots(o) \subseteq X \cup {y} /\ o.mapped[y] # "gpr" /\ o.reg = y
LEMMA TempNextFacts ==
    ASSUME NEW n, NEW k, Ends(n, k, {}), NEW X, Prots(k) \subseteq X, NEW y \in Host, y \notin X, NEW load, NEW high
    PROVE  TempNext(n, X, y, Map_TempReg(k, y, load, high))
<1> DEFINE o == Map_TempReg(k, y, load, high)
<1>1. Ends(n, o, {}) /\ Prots(o) \subseteq X \cup {y} /\ TempFrom(k, y, o)
  BY NextTemp
<1> HIDE DEF o
<1>2. o.reg = y /\ o.mapped[o.reg] # "gpr"
  BY <1>1, TempFacts
<1> QED
  BY <1>1, <1>2 DEF TempNext, o

LEMMA FactorsLoadedEnds ==
    ASSUME NEW n, Idle(n), NEW rs, NEW rt
    PROVE  LET k == FactorsLoaded(n, rs, rt)
           IN Ends(n, k, {}) /\ Prots(k) \subseteq {EAX, EDX}
<1> DEFINE j == EAXLoaded(n, rs)
           k == Map_TempReg(j, EDX, rt, FALSE)
<1>1. EDX \in Host /\ EDX \notin {EAX}
  BY ConstantFacts DEF EAX, EDX
<1>2. Ends(n, j, {}) /\ Prots(j) \subseteq {EAX}
  BY EAXLoadedEnds
<1> HIDE DEF j
<1>3. TempNext(n, {EAX}, EDX, k)
  BY <1>1, <1>2, TempNextFacts
<1>4. k = FactorsLoaded(n, rs, rt)
  BY DEF FactorsLoaded, j
<1> HIDE DEF k
<1> QED
  BY <1>3, <1>4 DEF TempNext

LEMMA Compile_MULT_Ends ==
    ASSUME NEW n, Idle(n), NEW rs \in Guest, NEW rt \in Guest
    PROVE  Ends(n, Compile_MULT(n, rs, rt), {}) /\ Ends(n, Compile_MULTU(n, rs, rt), {})
<1> DEFINE k == FactorsLoaded(n, rs, rt)
<1>1. Ends(n, k, {})
  BY FactorsLoadedEnds
<1> HIDE DEF k
<1>2. Ends(n, SignedProduct(k), {}) /\ Ends(n, UnsignedProduct(k), {})
  BY <1>1, HiLoSetEnds DEF SignedProduct, UnsignedProduct, Multiplied
<1> QED
  BY <1>2 DEF Compile_MULT, Compile_MULTU, k

LEMMA AllTemporaryEnds ==
    ASSUME NEW n, NEW k, Ends(n, k, {}), Prots(k) \subseteq {EAX, EDX}
    PROVE  Ends(n, AllTemporary(k), {})
<1> DEFINE b == Map_TempReg(k, EBX, -1, FALSE)
           c == Map_TempReg(b, ECX, -1, FALSE)
           i == Map_TempReg(c, ESI, -1, FALSE)
           o == Map_TempReg(i, EDI, -1, FALSE)
<1>1. /\ EBX \in Host /\ ECX \in Host /\ ESI \in Host /\ EDI \in Host
      /\ EBX \notin {EAX, EDX} /\ ECX \notin {EAX, EDX} \cup {EBX} /\ ESI \notin ({EAX, EDX} \cup {EBX}) \cup {ECX}
      /\ EDI \notin (({EAX, EDX} \cup {EBX}) \cup {ECX}) \cup {ESI}
  BY ConstantFacts DEF EAX, EDX, EBX, ECX, ESI, EDI
<1>2. TempNext(n, {EAX, EDX}, EBX, b)
  BY <1>1, TempNextFacts
<1> HIDE DEF b
<1>3. Ends(n, b, {}) /\ Prots(b) \subseteq {EAX, EDX} \cup {EBX}
  BY <1>2 DEF TempNext
<1>4. TempNext(n, {EAX, EDX} \cup {EBX}, ECX, c)
  BY <1>1, <1>3, TempNextFacts
<1> HIDE DEF c
<1>5. Ends(n, c, {}) /\ Prots(c) \subseteq ({EAX, EDX} \cup {EBX}) \cup {ECX}
  BY <1>4 DEF TempNext
<1>6. TempNext(n, ({EAX, EDX} \cup {EBX}) \cup {ECX}, ESI, i)
  BY <1>1, <1>5, TempNextFacts
<1> HIDE DEF i
<1>7. Ends(n, i, {}) /\ Prots(i) \subseteq (({EAX, EDX} \cup {EBX}) \cup {ECX}) \cup {ESI}
  BY <1>6 DEF TempNext
<1>8. TempNext(n, (({EAX, EDX} \cup {EBX}) \cup {ECX}) \cup {ESI}, EDI, o)
  BY <1>1, <1>7, TempNextFacts
<1>9. o = AllTemporary(k)
  BY DEF AllTemporary, TwoTemporary, i, c, b
<1> HIDE DEF o
<1> QED
  BY <1>8, <1>9 DEF TempNext

LEMMA Compile_DMULTU_Ends ==
    ASSUME NEW n, Idle(n), NEW rs \in Guest, NEW rt \in Guest
    PROVE  Ends(n, Compile_DMULTU(n, rs, rt), {})
<1> DEFINE k == AllTemporary(FactorsLoaded(n, rs, rt))
<1>1. Ends(n, k, {})
  BY FactorsLoadedEnds, AllTemporaryEnds
<1> HIDE DEF k
<1>2. \A a, b : Ends(n, LongProductOf(k, a, b), {})
  BY <1>1, HiLoEnds DEF LongProductOf
<1> QED
  BY <1>2, SlipEnds DEF Compile_DMULTU, k

(* The cache of o is that of n.                                            *)
CacheAs(n, o) ==
    /\ DOMAIN o = Fields /\ o.st = n.st /\ o.lo = n.lo /\ o.hi = n.hi /\ o.mapped = n.mapped /\ o.order = n.order
    /\ o.prot = n.prot /\ DOMAIN o.x = Host /\ DOMAIN o.gpr = Guest
    /\ o.live \in BOOLEAN /\ o.slip \in BOOLEAN

LEMMA CacheAsSound ==
    ASSUME NEW n, Sound(n), NEW o, CacheAs(n, o)
    PROVE  /\ Sound(o) /\ Prots(o) = Prots(n) /\ \A r : Same(n, o, r)
           /\ \A r : HostsOf(o, r) = HostsOf(n, r) /\ (IsMapped(o, r) <=> IsMapped(n, r))
<1>1. \A r : Same(n, o, r)
  BY DEF CacheAs, Same
<1>2. \A r : HostsOf(o, r) = HostsOf(n, r) /\ (IsMapped(o, r) <=> IsMapped(n, r)) /\ (IsConst(o, r) <=> IsConst(n, r))
  BY <1>1, SameHosts
<1>3. Shape(o) /\ Homes(o) /\ Apart(o) /\ Marked(o)
  BY <1>2 DEF Sound, Shape, Homes, Apart, Marked, CacheAs
<1> QED
  BY <1>1, <1>2, <1>3 DEF Sound, Prots, CacheAs

LEMMA LiveSet ==
    ASSUME NEW n, Sound(n), NEW b \in BOOLEAN
    PROVE  LET o == [n EXCEPT !.live = b]
           IN /\ Sound(o) /\ Prots(o) = Prots(n) /\ o.live = b /\ o.slip = n.slip /\ o.fault = n.fault /\ o.gpr = n.gpr
              /\ o.HI = n.HI /\ o.LO = n.LO
              /\ \A r \in Guest : Value(o, r) = Value(n, r)
              /\ b = n.live => Ends(n, o, {})
<1> DEFINE o == [n EXCEPT !.live = b]
<1>1. /\ CacheAs(n, o) /\ o.live = b /\ o.slip = n.slip /\ o.fault = n.fault /\ o.gpr = n.gpr /\ o.x = n.x
      /\ o.HI = n.HI /\ o.LO = n.LO
  BY DEF CacheAs, Sound, Shape, Fields
<1> HIDE DEF o
<1>2. Sound(o) /\ Prots(o) = Prots(n) /\ \A r : Same(n, o, r)
  BY <1>1, CacheAsSound
<1>3. \A r \in Guest : Value(o, r) = Value(n, r)
  BY <1>1, <1>2, HostsInside, SameValue
<1>4. b = n.live => Ends(n, o, {})
  BY <1>1, <1>2, <1>3 DEF Ends, Effect
<1> QED
  BY <1>1, <1>2, <1>3, <1>4 DEF o

(* Code under a jump, by its machine before and its machine after.         *)
Before(n, b, j) == j = [n EXCEPT !.live = @ /\ b]
After(n, k, o) == o = [k EXCEPT !.live = n.live]
RunUnder(n, b, k, o) ==
    /\ Sound(o) /\ o.live = n.live /\ (n.slip => o.slip) /\ Prots(o) = Prots(k)
    /\ b = TRUE \/ (\A r \in Guest : Value(o, r) = Value(n, r)) => Ends(n, o, {})
LEMMA UnderEnds ==
    ASSUME NEW n, Sound(n), NEW b \in BOOLEAN, NEW j, Before(n, b, j), NEW k, Ends(j, k, {}), NEW o, After(n, k, o)
    PROVE  RunUnder(n, b, k, o)
<1> DEFINE c == n.live /\ b
<1>1. c \in BOOLEAN /\ n.live \in BOOLEAN /\ (b = TRUE => c = n.live)
  BY DEF Sound, Shape
<1>2. j = [n EXCEPT !.live = c]
  BY DEF Before, Sound, Shape, Fields
<1>21. o = [k EXCEPT !.live = n.live]
  BY DEF After
<1> HIDE DEF c
<1>3. Sound(j) /\ j.live = c /\ j.slip = n.slip /\ j.fault = n.fault /\ j.gpr = n.gpr
  BY <1>1, <1>2, LiveSet
<1>4. \A r \in Guest : Value(j, r) = Value(n, r)
  BY <1>1, <1>2, LiveSet
<1>5. Sound(k)
  BY DEF Ends
<1>6. Sound(o) /\ Prots(o) = Prots(k) /\ o.live = n.live /\ o.slip = k.slip /\ o.fault = k.fault /\ o.gpr = k.gpr
  BY <1>1, <1>21, <1>5, LiveSet
<1>7. \A r \in Guest : Value(o, r) = Value(k, r)
  BY <1>1, <1>21, <1>5, LiveSet
<1>8. (n.slip => o.slip) /\ (~o.slip => o.fault = n.fault /\ o.gpr[0] = n.gpr[0])
  BY <1>3, <1>6 DEF Ends, Effect
<1>9. ASSUME b = TRUE, ~o.slip, n.live PROVE \A r \in Guest : r # 0 => Value(o, r) = Value(n, r)
  BY <1>1, <1>3, <1>4, <1>6, <1>7, <1>9 DEF Ends, Effect
<1>10. b = TRUE \/ (\A r \in Guest : Value(o, r) = Value(n, r)) => Ends(n, o, {})
  BY <1>6, <1>8, <1>9 DEF Ends, Effect
<1> QED
  BY <1>6, <1>8, <1>10 DEF RunUnder

LEMMA ClearedDead ==
    ASSUME NEW n, n.live = FALSE
    PROVE  Cleared(n) = n
BY DEF Cleared, HiLoSet, SetHI, SetLO

LEMMA DividedEnds ==
    ASSUME NEW n, Idle(n), NEW z \in BOOLEAN, NEW i, i = Slip(n, z), NEW k, k = Under(i, z, Cleared),
           NEW b \in BOOLEAN, b = ~z, NEW j, Before(k, b, j)
    PROVE  /\ Idle(j)
           /\ \A q, o : Ends(j, q, {}) /\ After(k, q, o) => Ends(n, o, {})
<1>1. Sound(n) /\ Prots(n) = {}
  BY DEF Idle
<1>2. Ends(n, i, {}) /\ Prots(i) = Prots(n) /\ (z => i.slip)
  BY <1>1, SlipDoes
<1>3. Sound(i)
  BY <1>2 DEF Ends
<1> DEFINE f == [i EXCEPT !.live = @ /\ z]
           g == Cleared(f)
<1>4. Before(i, z, f) /\ After(i, g, k)
  BY DEF Under, Before, After
<1>5. Sound(f) /\ Prots(f) = Prots(i)
  <2> DEFINE c == i.live /\ z
  <2>1. c \in BOOLEAN
    OBVIOUS
  <2>2. f = [i EXCEPT !.live = c]
    BY <1>3 DEF Sound, Shape, Fields
  <2> HIDE DEF c, f
  <2> QED
    BY <1>3, <2>1, <2>2, LiveSet
<1>6. Ends(f, g, {}) /\ Prots(g) = Prots(f)
  <2> HIDE DEF f
  <2>1. Ends(f, f, {})
    BY <1>5, Nothing
  <2> QED
    BY <2>1, HiLoSetEnds DEF Cleared
<1>61. g = Cleared(f)
  OBVIOUS
<1> HIDE DEF f, g
<1>7. Ends(i, k, {}) /\ Prots(k) = {}
  <2>0. RunUnder(i, z, g, k)
    BY <1>3, <1>4, <1>6, UnderEnds
  <2>1. Sound(k) /\ k.live = i.live /\ Prots(k) = Prots(g)
    BY <2>0 DEF RunUnder
  <2>2. z = TRUE \/ (\A r \in Guest : Value(k, r) = Value(i, r)) => Ends(i, k, {})
    BY <2>0 DEF RunUnder
  <2>3. CASE z = TRUE
    BY <1>1, <1>2, <1>5, <1>6, <2>1, <2>2, <2>3
  <2>4. CASE z = FALSE
    <3>1. f.live = FALSE
      BY <1>3, <1>4, <2>4 DEF Before, Sound, Shape, Fields
    <3>2. g = f
      BY <1>61, <3>1, ClearedDead
    <3>3. k = [f EXCEPT !.live = i.live] /\ i.live \in BOOLEAN
      BY <1>3, <1>4, <3>2 DEF After, Sound, Shape
    <3>4. \A r \in Guest : Value(k, r) = Value(f, r)
      BY <1>5, <3>3, LiveSet
    <3>5. f = [i EXCEPT !.live = FALSE]
      BY <1>3, <1>4, <2>4 DEF Before, Sound, Shape, Fields
    <3>6. \A r \in Guest : Value(f, r) = Value(i, r)
      BY <1>3, <3>5, LiveSet
    <3> QED
      BY <1>1, <1>2, <1>5, <1>6, <2>1, <2>2, <3>4, <3>6
  <2> QED
    BY <2>3, <2>4
<1>8. Sound(k)
  BY <1>7 DEF Ends
<1>9. Idle(j)
  <2> DEFINE c == k.live /\ b
  <2>1. c \in BOOLEAN
    OBVIOUS
  <2>2. j = [k EXCEPT !.live = c]
    BY <1>8 DEF Before, Sound, Shape, Fields
  <2> HIDE DEF c
  <2>3. Sound(j) /\ Prots(j) = Prots(k)
    BY <1>8, <2>1, <2>2, LiveSet
  <2> QED
    BY <1>7, <2>3 DEF Idle
<1>10. ASSUME NEW q, NEW o, Ends(j, q, {}), After(k, q, o)
       PROVE  Ends(n, o, {})
  <2>1. RunUnder(k, b, q, o)
    BY <1>8, <1>10, UnderEnds
  <2>2. Sound(o) /\ o.live = k.live /\ (k.slip => o.slip)
    BY <2>1 DEF RunUnder
  <2>3. b = TRUE => Ends(k, o, {})
    BY <2>1 DEF RunUnder
  <2>4. Ends(n, k, {})
    BY <1>2, <1>7, EndsTrans
  <2>5. CASE z = TRUE
    <3>1. o.slip /\ o.live = n.live
      BY <1>2, <1>7, <2>2, <2>4, <2>5 DEF Ends, Effect
    <3> QED
      BY <2>2, <3>1 DEF Ends, Effect
  <2>6. CASE z = FALSE
    <3>1. b = TRUE
      BY <2>6
    <3> QED
      BY <2>3, <2>4, <3>1, EndsTrans
  <2> QED
    BY <2>5, <2>6
<1> QED
  BY <1>9, <1>10

LEMMA PairRoom ==
    ASSUME NEW n, Prots(n) \subseteq {EAX, EDX}
    PROVE  Room(n, 1)
<1>2. {EAX, EDX} \in SUBSET Host
  BY ConstantFacts
<1>3. Cardinality({}) = 0 /\ {} \in SUBSET Host /\ {EAX, EDX} \subseteq {} \cup {EAX, EDX}
  BY FS_EmptySet
<1>4. Cardinality({EAX, EDX}) <= 2
  <2>1. Cardinality({EAX, EDX}) <= Cardinality({}) + 2
    BY <1>2, <1>3, HostSets
  <2> QED
    BY <1>3, <2>1
<1>5. Cardinality(Prots(n)) <= Cardinality({EAX, EDX}) /\ Cardinality({EAX, EDX}) \in Nat /\ Cardinality(Prots(n)) \in Nat
  <2>1. Prots(n) \in SUBSET {EAX, EDX} /\ Prots(n) \in SUBSET Host
    BY DEF Prots
  <2> QED
    BY <1>2, <2>1, HostSets
<1> QED
  BY <1>4, <1>5 DEF Room

LEMMA QuotientEnds ==
    ASSUME NEW n, NEW k, Ends(n, k, {}), NEW a, NEW b
    PROVE  Ends(n, QuotientOf(k, a, b), {})
BY HiLoSetEnds DEF QuotientOf

LEMMA SignedQuotientsEnds ==
    ASSUME NEW n, Idle(n), NEW rs \in Guest, NEW rt \in Guest
    PROVE  Ends(n, SignedQuotients(n, rs, rt), {})
<1> DEFINE j == EAXLoaded(n, rs)
           k == Map_TempReg(j, EDX, -1, FALSE)
           l == SignInEDX(k)
           o == DivisorHost(l, rt)
<1>1. EDX \in Host /\ EDX \notin {EAX}
  BY ConstantFacts DEF EAX, EDX
<1>2. Ends(n, j, {}) /\ Prots(j) \subseteq {EAX}
  BY EAXLoadedEnds
<1> HIDE DEF j
<1>3. TempNext(n, {EAX}, EDX, k)
  BY <1>1, <1>2, TempNextFacts
<1> HIDE DEF k
<1>4. Ends(n, k, {}) /\ Sound(k) /\ Prots(k) \subseteq {EAX, EDX} /\ k.mapped[EDX] # "gpr"
  BY <1>3 DEF TempNext, Ends
<1>5. Ends(k, l, {}) /\ Sound(l) /\ Prots(l) = Prots(k)
  BY <1>1, <1>4, TempSet DEF SignInEDX
<1> HIDE DEF l
<1>6. Ends(n, l, {})
  BY <1>4, <1>5, EndsTrans
<1>7. Room(l, 1)
  BY <1>4, <1>5, PairRoom
<1>8. Ends(l, o, {})
  <2>1. Ends(l, Returning(l, l.lo[rt]), {})
    BY <1>5, ReturningDoes, DoesEnds
  <2>2. TempFrom(l, AnyHost, Map_TempReg(l, AnyHost, rt, FALSE))
    BY <1>5, <1>7, AnyTemp
  <2>3. Ends(l, Map_TempReg(l, AnyHost, rt, FALSE), {})
    BY <2>2, TempFacts
  <2> QED
    BY <2>1, <2>3 DEF DivisorHost
<1>9. SignedQuotients(n, rs, rt) = SignedQuotient(o)
  BY DEF SignedQuotients, l, k, j
<1> HIDE DEF o
<1>10. Ends(n, o, {})
  BY <1>6, <1>8, EndsTrans
<1> QED
  BY <1>9, <1>10, QuotientEnds DEF SignedQuotient

LEMMA UnsignedQuotientsEnds ==
    ASSUME NEW n, Idle(n), NEW rs \in Guest, NEW rt \in Guest
    PROVE  Ends(n, UnsignedQuotients(n, rs, rt), {})
<1> DEFINE i == SetProtection(n, EAX, TRUE)
           j == Map_TempReg(i, EDX, 0, FALSE)
           k == SetProtection(j, EAX, FALSE)
           l == Map_TempReg(k, EAX, rs, FALSE)
           o == Map_TempReg(l, AnyHost, rt, FALSE)
<1>1. EAX \in Host /\ EDX \in Host /\ EDX \notin {EAX} /\ EAX \notin {EDX} /\ Sound(n) /\ Prots(n) = {}
  BY IdleRoom, ConstantFacts DEF EAX, EDX, Idle
<1>21. Ends(n, i, {}) /\ Prots(i) = Prots(n) \cup {EAX}
  BY <1>1, SetProtectionEnds
<1>2. Ends(n, i, {}) /\ Prots(i) \subseteq {EAX}
  BY <1>1, <1>21
<1> HIDE DEF i
<1>3. TempNext(n, {EAX}, EDX, j)
  BY <1>1, <1>2, TempNextFacts
<1> HIDE DEF j
<1>4. Ends(n, j, {}) /\ Sound(j) /\ Prots(j) \subseteq {EAX, EDX}
  BY <1>3 DEF TempNext, Ends
<1>5. Ends(j, k, {}) /\ Prots(k) = Prots(j) \ {EAX}
  BY <1>1, <1>4, SetProtectionEnds
<1> HIDE DEF k
<1>6. Ends(n, k, {}) /\ Prots(k) \subseteq {EDX}
  BY <1>4, <1>5, EndsTrans
<1>7. TempNext(n, {EDX}, EAX, l)
  BY <1>1, <1>6, TempNextFacts
<1> HIDE DEF l
<1>8. Ends(n, l, {}) /\ Sound(l) /\ Prots(l) \subseteq {EAX, EDX}
  BY <1>7 DEF TempNext, Ends
<1>9. Room(l, 1)
  BY <1>1, <1>8, PairRoom
<1>10. TempFrom(l, AnyHost, o)
  BY <1>8, <1>9, AnyTemp
<1>11. UnsignedQuotients(n, rs, rt) = UnsignedQuotient(o)
  BY DEF UnsignedQuotients, EDXCleared, l, k, j, i
<1> HIDE DEF o
<1>12. Ends(n, o, {})
  BY <1>8, <1>10, TempFacts, EndsTrans
<1> QED
  BY <1>11, <1>12, QuotientEnds DEF UnsignedQuotient

LEMMA Compile_DIV_Ends ==
    ASSUME NEW n, Idle(n), NEW rs \in Guest, NEW rt \in Guest
    PROVE  Ends(n, Compile_DIV(n, rs, rt), {}) /\ Ends(n, Compile_DIVU(n, rs, rt), {})
<1> DEFINE z == LowWord(n, rt) = 0
           b == ~z
           i == Slip(n, z)
           k == Under(i, z, Cleared)
           j == [k EXCEPT !.live = @ /\ b]
<1>1. z \in BOOLEAN /\ b \in BOOLEAN /\ b = ~z /\ i = Slip(n, z) /\ k = Under(i, z, Cleared) /\ Before(k, b, j)
  BY DEF Before
<1>2. Sound(n) /\ Prots(n) = {}
  BY DEF Idle
<1>3. Compile_DIV(n, rs, rt) =
        (IF IsConst(i, rt) THEN IF z THEN Cleared(i) ELSE SignedQuotients(i, rs, rt)
         ELSE [SignedQuotients(j, rs, rt) EXCEPT !.live = k.live])
  BY DEF Compile_DIV, Divided, DividedUnless, Under
<1>4. Compile_DIVU(n, rs, rt) =
        (IF IsConst(i, rt) THEN IF z THEN Cleared(i) ELSE UnsignedQuotients(i, rs, rt)
         ELSE [UnsignedQuotients(j, rs, rt) EXCEPT !.live = k.live])
  BY DEF Compile_DIVU, Divided, DividedUnless, Under
<1>5. Idle(j)
  <2> HIDE DEF z, b, i, k, j
  <2> QED
    BY <1>1, DividedEnds
<1>6. \A q, o : Ends(j, q, {}) /\ After(k, q, o) => Ends(n, o, {})
  <2> HIDE DEF z, b, i, k, j
  <2> QED
    BY <1>1, DividedEnds
<1> HIDE DEF z, b, i, k, j
<1>7. Ends(n, i, {}) /\ Prots(i) = Prots(n)
  BY <1>1, <1>2, SlipDoes
<1>8. Idle(i)
  BY <1>2, <1>7 DEF Ends, Idle
<1>9. Ends(n, Cleared(i), {})
  BY <1>7, HiLoSetEnds DEF Cleared
<1>10. Ends(n, SignedQuotients(i, rs, rt), {}) /\ Ends(n, UnsignedQuotients(i, rs, rt), {})
  BY <1>7, <1>8, SignedQuotientsEnds, UnsignedQuotientsEnds, EndsTrans
<1>11. Ends(n, [SignedQuotients(j, rs, rt) EXCEPT !.live = k.live], {})
  BY <1>5, <1>6, SignedQuotientsEnds DEF After
<1>12. Ends(n, [UnsignedQuotients(j, rs, rt) EXCEPT !.live = k.live], {})
  BY <1>5, <1>6, UnsignedQuotientsEnds DEF After
<1> QED
  BY <1>3, <1>4, <1>9, <1>10, <1>11, <1>12

(* A function of the interpreter changes the memory of one register only.  *)
Poked(n, r, o) ==
    /\ CacheAs(n, o) /\ o.x = n.x /\ o.live = n.live /\ o.slip = n.slip /\ o.fault = n.fault
    /\ \A q \in Guest \ {r} : o.gpr[q] = n.gpr[q]

LEMMA PokedFine ==
    ASSUME NEW n, Sound(n), NEW r \in Guest, NEW o, Poked(n, r, o)
    PROVE  Fine(n, o, r)
<1>1. CacheAs(n, o)
  BY DEF Poked
<1>2. Sound(o) /\ \A q : Same(n, o, q)
  BY <1>1, CacheAsSound
<1>3. \A q \in Guest \ {r} : Value(o, q) = Value(n, q)
  <2> TAKE q \in Guest \ {r}
  <2>1. n.st[q] \in RegisterStates
    BY DEF Sound, Shape
  <2>2. Same(n, o, q)
    BY <1>2
  <2> QED
    BY <2>1, <2>2, SameValue DEF Poked
<1> QED
  BY <1>2, <1>3, ConstantFacts DEF Fine, Ends, Effect, Poked

LEMMA AlreadySlipped ==
    ASSUME NEW n, NEW o, Sound(o), o.live = n.live, o.slip, NEW R
    PROVE  Ends(n, o, R)
BY DEF Ends, Effect

LEMMA WrittenBack ==
    ASSUME NEW n, Sound(n), NEW r \in Guest
    PROVE  Ends(n, UnMap_GPR(n, r, TRUE), {})
BY UnMapGPR DEF Does, Ends

LEMMA TwoWrittenBack ==
    ASSUME NEW n, Sound(n), NEW r \in Guest, NEW q \in Guest
    PROVE  Ends(n, UnMap_GPR(UnMap_GPR(n, r, TRUE), q, TRUE), {})
<1> DEFINE k == UnMap_GPR(n, r, TRUE)
<1>1. Ends(n, k, {})
  BY WrittenBack
<1> HIDE DEF k
<1> DEFINE o == UnMap_GPR(k, q, TRUE)
<1>2. Ends(k, o, {})
  BY <1>1, WrittenBack DEF Ends
<1> HIDE DEF o
<1>3. Ends(n, o, {})
  BY <1>1, <1>2, EndsTrans
<1> QED
  BY <1>3 DEF k, o

(* Of a call that keeps the registers, and of one that sets the register r. *)
CallKeeps(n, o) == o = n \/ \E h, l : o = [n EXCEPT !.gpr = n.gpr, !.HI = h, !.LO = l]
LEMMA HiLoCalled ==
    ASSUME NEW n, Sound(n), NEW o, CallKeeps(n, o)
    PROVE  Ends(n, o, {})
<1>1. Beside(n, o)
  BY DEF CallKeeps, Beside, Sound, Shape, Fields
<1> QED
  BY <1>1, BesideDoes

LEMMA Compile_DADDIU_Ends ==
    ASSUME NEW n, Idle(n), NEW rt \in Guest, NEW rs \in Guest, NEW imm
    PROVE  Ends(n, Compile_DADDIU(n, rt, rs, imm), {rt})
<1> DEFINE j == IF rs = 0 THEN n ELSE UnMap_GPR(UnMap_GPR(n, rs, TRUE), rt, TRUE)
           b == (rs = 0 /\ IsKnown(n, rt)) \/ rt = 0
           k == Slip(j, b)
           o == Compile_DADDIU(n, rt, rs, imm)
<1>1. Sound(n)
  BY DEF Idle
<1>2. Ends(n, j, {})
  BY <1>1, Nothing, TwoWrittenBack
<1> HIDE DEF j
<1>3. Ends(n, k, {})
  BY <1>2, SlipEnds
<1>4. rt = 0 => k.slip
  BY <1>2 DEF Slip, Ends, Sound, Shape, Fields
<1>5. o = CallInterpreter(k, LAMBDA t : DADDIU(t, rt, rs, imm))
  BY DEF Compile_DADDIU, j
<1> HIDE DEF k, b, o
<1>6. Poked(k, rt, o)
  BY <1>3, <1>5 DEF CallInterpreter, DADDIU, Put, Poked, CacheAs, Ends, Sound, Shape, Fields
<1>7. Fine(k, o, rt)
  BY <1>3, <1>6, PokedFine DEF Ends
<1>8. Fine(n, o, rt)
  BY <1>3, <1>7, FineAfter
<1>9. ASSUME rt = 0 PROVE Ends(n, o, {rt})
  <2>1. Sound(o) /\ o.live = n.live
    BY <1>8, FineFacts
  <2>2. o.slip
    BY <1>4, <1>6, <1>9 DEF Poked
  <2> QED
    BY <2>1, <2>2, AlreadySlipped
<1>10. ASSUME rt # 0 PROVE Ends(n, o, {rt})
  BY <1>8, <1>10, FineFacts
<1> QED
  BY <1>9, <1>10 DEF o

LEMMA Called ==
    ASSUME NEW n, NEW k, Ends(n, k, {}), NEW o,
           CallKeeps(k, o)
    PROVE  Ends(n, o, {})
<1>1. Sound(k)
  BY DEF Ends
<1>3. Ends(k, o, {})
  BY <1>1, HiLoCalled
<1> QED
  BY <1>3, EndsTrans

LEMMA Compile_DDIV_Ends ==
    ASSUME NEW n, Idle(n), NEW rs \in Guest, NEW rt \in Guest
    PROVE  /\ Ends(n, Compile_DMULT(n, rs, rt), {})
           /\ Ends(n, Compile_DDIV(n, rs, rt), {})
           /\ Ends(n, Compile_DDIVU(n, rs, rt), {})
<1> DEFINE k == UnMap_GPR(UnMap_GPR(n, rs, TRUE), rt, TRUE)
           j == IF rs = 0 THEN n ELSE k
           t(l) == [gpr |-> l.gpr, HI |-> l.HI, LO |-> l.LO]
<1>1. Sound(n)
  BY DEF Idle
<1>2. Ends(n, k, {}) /\ Ends(n, j, {})
  BY <1>1, Nothing, TwoWrittenBack
<1>3. /\ Compile_DMULT(n, rs, rt) = CallInterpreter(j, LAMBDA u : DMULT(u, rs, rt))
      /\ Compile_DDIV(n, rs, rt) = CallInterpreter(k, LAMBDA u : DDIV(u, rs, rt))
      /\ Compile_DDIVU(n, rs, rt) = CallInterpreter(k, LAMBDA u : DDIVU(u, rs, rt))
  BY DEF Compile_DMULT, Compile_DDIV, Compile_DDIVU
<1> HIDE DEF k, j
<1>4. \A l : /\ DMULT(t(l), rs, rt).gpr = l.gpr
             /\ DDIV(t(l), rs, rt).gpr = l.gpr
             /\ DDIVU(t(l), rs, rt).gpr = l.gpr
  BY DEF DMULT, LongProduct, DDIV, DDIVU, HiLo
<1> DEFINE c1 == CallInterpreter(j, LAMBDA u : DMULT(u, rs, rt))
           c2 == CallInterpreter(k, LAMBDA u : DDIV(u, rs, rt))
           c3 == CallInterpreter(k, LAMBDA u : DDIVU(u, rs, rt))
           Call(l, v) == IF l.live THEN [l EXCEPT !.gpr = v.gpr, !.HI = v.HI, !.LO = v.LO] ELSE l
<1>5. c1 = Call(j, DMULT(t(j), rs, rt)) /\ c2 = Call(k, DDIV(t(k), rs, rt)) /\ c3 = Call(k, DDIVU(t(k), rs, rt))
  BY DEF CallInterpreter
<1>6. ASSUME NEW l, NEW v, v.gpr = l.gpr PROVE CallKeeps(l, Call(l, v))
  BY <1>6 DEF CallKeeps
<1> HIDE DEF Call, t
<1>7. CallKeeps(j, c1) /\ CallKeeps(k, c2) /\ CallKeeps(k, c3)
  BY <1>4, <1>5, <1>6
<1> HIDE DEF c1, c2, c3
<1>8. Ends(n, c1, {})
  BY <1>2, <1>7, Called
<1>9. Ends(n, c2, {}) /\ Ends(n, c3, {})
  BY <1>2, <1>7, Called
<1> QED
  BY <1>3, <1>8, <1>9 DEF c1, c2, c3

(* An instruction that is left to the interpreter.                         *)
LEMMA UnlessZeroedEnds ==
    ASSUME NEW n, NEW k, Ends(n, k, {}), NEW rt \in Guest, NEW o, Poked(k, rt, o)
    PROVE  Ends(n, UnlessZeroed(o, n), {rt})
<1> DEFINE p == Slip(o, o.gpr[0] # n.gpr[0])
<1>2. Ends(n, k, {})
  OBVIOUS
<1>3. UnlessZeroed(o, n) = p
  BY DEF UnlessZeroed
<1>4. Poked(k, rt, o)
  OBVIOUS
<1>5. Fine(k, o, rt)
  BY <1>2, <1>4, PokedFine DEF Ends
<1>6. Fine(n, o, rt)
  BY <1>2, <1>5, FineAfter
<1>7. CASE rt # 0
  BY <1>3, <1>6, <1>7, FineFacts, SlipEnds
<1>8. CASE rt = 0
  <2>1. Sound(p) /\ p.live = n.live /\ (k.slip => p.slip)
    <3>1. Ends(o, p, {})
      BY <1>6, FineFacts, Nothing, SlipEnds
    <3> QED
      BY <1>4, <1>6, <3>1, FineFacts DEF Ends, Effect, Poked
  <2>2. o.gpr[0] # n.gpr[0] => p.slip
    BY <1>6, FineFacts DEF Slip, Sound, Shape, Fields
  <2>3. p.gpr = o.gpr /\ p.fault = o.fault
    BY <1>6, FineFacts DEF Slip, Sound, Shape, Fields
  <2>4. ~p.slip => ~k.slip
    BY <2>1
  <2>5. ~k.slip => k.fault = n.fault /\ k.gpr[0] = n.gpr[0]
    BY <1>2 DEF Ends, Effect
  <2>6. ~k.slip /\ n.live => \A q \in Guest : q # 0 => Value(k, q) = Value(n, q)
    BY <1>2 DEF Ends, Effect
  <2>7. \A q \in Guest : q # 0 => Value(p, q) = Value(k, q)
    <3> TAKE q \in Guest
    <3> SUFFICES ASSUME q # 0 PROVE Value(p, q) = Value(k, q)
      OBVIOUS
    <3>1. CacheAs(k, o)
      BY <1>4 DEF Poked
    <3>2. Same(k, o, q)
      BY <1>2, <3>1, CacheAsSound DEF Ends
    <3>3. Same(k, p, q) /\ p.x = o.x
      BY <1>6, <3>2, FineFacts DEF Slip, Same, Sound, Shape, Fields
    <3>4. k.st[q] \in RegisterStates
      BY <1>2 DEF Ends, Sound, Shape
    <3>5. p.gpr[q] = k.gpr[q] /\ o.x = k.x
      BY <1>4, <1>8, <2>3 DEF Poked
    <3> QED
      BY <3>3, <3>4, <3>5, SameValue
  <2>8. n.slip => k.slip
    BY <1>2 DEF Ends, Effect
  <2>9. o.fault = k.fault
    BY <1>4 DEF Poked
  <2> HIDE DEF p
  <2>10. Effect(n, p, {rt})
    BY <2>1, <2>2, <2>3, <2>4, <2>5, <2>6, <2>7, <2>8, <2>9 DEF Effect
  <2> QED
    BY <1>3, <2>1, <2>10 DEF Ends
<1> QED
  BY <1>7, <1>8

LEMMA Compile_LDL_Ends ==
    ASSUME NEW n, Idle(n), NEW rt \in Guest, NEW base \in Guest, NEW offset
    PROVE  /\ Ends(n, Compile_LDL(n, rt, base, offset), {rt})
           /\ Ends(n, Compile_LDR(n, rt, base, offset), {rt})
           /\ Ends(n, Compile_SDL(n, rt, base, offset), {rt})
           /\ Ends(n, Compile_SDR(n, rt, base, offset), {rt})
<1> DEFINE k == UnMap_GPR(UnMap_GPR(n, base, TRUE), rt, TRUE)
<1>1. Sound(n)
  BY DEF Idle
<1>2. Ends(n, k, {})
  BY <1>1, TwoWrittenBack
<1>3. /\ Compile_LDL(n, rt, base, offset) = UnlessZeroed(LDL(k, rt, base, offset), n)
      /\ Compile_LDR(n, rt, base, offset) = UnlessZeroed(LDR(k, rt, base, offset), n)
      /\ Compile_SDL(n, rt, base, offset) = UnlessZeroed(SDL(k, rt, base, offset), n)
      /\ Compile_SDR(n, rt, base, offset) = UnlessZeroed(SDR(k, rt, base, offset), n)
  BY DEF Compile_LDL, Compile_LDR, Compile_SDL, Compile_SDR, Interpreted
<1> HIDE DEF k
<1>4. Sound(k)
  BY <1>2 DEF Ends
<1>5. Poked(k, rt, k)
  BY <1>4 DEF Poked, CacheAs, Sound, Shape
<1>6. ASSUME NEW d PROVE Poked(k, rt, Put(k, rt, d))
  BY <1>4 DEF Put, Poked, CacheAs, Sound, Shape, Fields
<1>7. Poked(k, rt, LDL(k, rt, base, offset)) /\ Poked(k, rt, LDR(k, rt, base, offset))
  BY <1>5, <1>6 DEF LDL, LDR
<1>8. ASSUME NEW l, Poked(k, rt, l), NEW a, NEW b, NEW w PROVE Poked(k, rt, Stored(l, a, b, w))
  BY <1>8 DEF Stored, Poked, CacheAs, Fields
<1>9. ASSUME NEW a, NEW d PROVE Poked(k, rt, StoredLong(k, a, d))
  BY <1>5, <1>8 DEF StoredLong
<1>10. Poked(k, rt, SDL(k, rt, base, offset)) /\ Poked(k, rt, SDR(k, rt, base, offset))
  BY <1>9 DEF SDL, SDR
<1> QED
  BY <1>2, <1>3, <1>7, <1>10, UnlessZeroedEnds

(* Work on r after some that touched no register.                          *)
LEMMA FineLow ==
    ASSUME NEW n, NEW k, Ends(n, k, {}), Room(k, 1), NEW r \in Guest, NEW b \in BOOLEAN, NEW load, NEW w
    PROVE  Fine(n, SetLow(Map_GPR_32bit(k, r, b, load), r, w), r)
<1> DEFINE o == SetLow(Map_GPR_32bit(k, r, b, load), r, w)
<1>1. Fine(k, o, r)
  BY Fine32 DEF Ends
<1> HIDE DEF o
<1>2. Fine(n, o, r)
  BY <1>1, FineAfter
<1> QED
  BY <1>2 DEF o

LEMMA FineBoth ==
    ASSUME NEW n, NEW k, Ends(n, k, {}), Room(k, 2), NEW r \in Guest, NEW load, NEW d
    PROVE  Fine(n, SetBoth(Map_GPR_64bit(k, r, load), r, d), r)
<1> DEFINE o == SetBoth(Map_GPR_64bit(k, r, load), r, d)
<1>1. Fine(k, o, r)
  BY Fine64 DEF Ends
<1> HIDE DEF o
<1>2. Fine(n, o, r)
  BY <1>1, FineAfter
<1> QED
  BY <1>2 DEF o

LEMMA FineNothing ==
    ASSUME NEW n, Sound(n), NEW r
    PROVE  Fine(n, n, r) /\ Fine(n, UnknownOpcode(n), r)
BY Nothing, Unknown, FineFacts

LEMMA FineConst ==
    ASSUME NEW n, Sound(n), NEW r \in Guest, NEW w, NEW d
    PROVE  /\ Fine(n, SetConst32(DropMapped(n, r), r, w), r) /\ Fine(n, SetConst32(Drop(n, r), r, w), r)
           /\ Fine(n, SetConst(DropMapped(n, r), r, d), r) /\ Fine(n, SetConst(Drop(n, r), r, d), r)
BY ConstInto, LongConstInto, FineFacts

LEMMA IdleSelf ==
    ASSUME NEW n, Idle(n)
    PROVE  Sound(n) /\ Ends(n, n, {}) /\ Room(n, 6) /\ Room(n, 1) /\ Room(n, 2)
BY IdleRoom, Nothing

LEMMA Compile_ADD_Ends ==
    ASSUME NEW n, Idle(n), NEW rd \in Guest, NEW rs \in Guest, NEW rt \in Guest
    PROVE  /\ Ends(n, Compile_ADD(n, rd, rs, rt), {rd})
           /\ Ends(n, Compile_ADDU(n, rd, rs, rt), {rd})
BY IdleRoom, Nothing, ConstInto, Low32 DEF Compile_ADD, Compile_ADDU, Map32With, LowWith

LEMMA Compile_SUB_Ends ==
    ASSUME NEW n, Idle(n), NEW rd \in Guest, NEW rs \in Guest, NEW rt \in Guest
    PROVE  /\ Ends(n, Compile_SUB(n, rd, rs, rt), {rd})
           /\ Ends(n, Compile_SUBU(n, rd, rs, rt), {rd})
<1> DEFINE k == Map_TempReg(n, AnyHost, rt, FALSE)
           o(w) == SetLow(Map_GPR_32bit(k, rd, TRUE, rs), rd, w)
<1>1. Sound(n) /\ Room(n, 1)
  BY IdleRoom
<1>2. TempFrom(n, AnyHost, k)
  BY IdleTemp
<1> HIDE DEF k
<1>3. Ends(n, k, {}) /\ Room(k, 1)
  BY <1>2, TempFacts, SmallerRoom
<1>4. ASSUME NEW w PROVE Fine(n, o(w), rd)
  BY <1>3, FineLow
<1>5. ASSUME rd # 0, NEW w PROVE Ends(n, o(w), {rd})
  BY <1>4, <1>5, FineFacts
<1>6. SubtractedFrom(k, rd, rs) = o(Minus(LowWord(Map_GPR_32bit(k, rd, TRUE, rs), rd), Map_GPR_32bit(k, rd, TRUE, rs).x[k.reg]))
  BY DEF SubtractedFrom, LessTemporary
<1> HIDE DEF o
<1>7. rd # 0 => Ends(n, SubtractedFrom(k, rd, rs), {rd})
  BY <1>5, <1>6
<1>8. Ends(n, Subtracted(n, rd, rs, rt), {rd})
  BY <1>1, <1>7, Nothing, ConstInto, Low32 DEF Subtracted, Map32With, LowWith, k
<1> QED
  BY <1>8 DEF Compile_SUB, Compile_SUBU

(* Of two registers mapped, and both protected.                            *)
LEMMA BothProtected ==
    ASSUME NEW n, Idle(n), NEW r \in Guest, NEW q \in Guest
    PROVE  LET o == ProtectGPR(ProtectGPR(n, r), q)
           IN /\ Does(n, o, {}) /\ Ends(n, o, {}) /\ Sound(o) /\ Room(o, 2) /\ Room(o, 1)
              /\ \A i \in {r, q} : IsMapped(n, i) => Pinned(o, i)
              /\ \A i : Same(n, o, i)
              /\ Is32Bit(n, q) \/ Is32Bit(n, r) => Room(o, 3)
<1> DEFINE k == ProtectGPR(n, r)
           o == ProtectGPR(k, q)
<1>1. Sound(n) /\ Room(n, 6)
  BY IdleRoom
<1>2. Does(n, k, {}) /\ Ends(n, k, {}) /\ Sound(k) /\ Room(k, 4) /\ (IsMapped(n, r) => Pinned(k, r))
  BY <1>1, ProtectSteps
<1>3. \A i : Same(n, k, i) /\ (IsMapped(k, i) <=> IsMapped(n, i)) /\ HostsOf(k, i) = HostsOf(n, i)
  BY <1>1, ProtectGPRDoes
<1>4. Is32Bit(n, r) => Room(k, 5)
  BY <1>1, ProtectGPRDoes
<1> HIDE DEF k
<1>5. Does(k, o, {}) /\ Ends(k, o, {}) /\ Sound(o) /\ (IsMapped(k, q) => Pinned(o, q)) /\ Room(o, 2)
  BY <1>2, ProtectSteps
<1>6. \A i : Same(k, o, i) /\ (IsMapped(o, i) <=> IsMapped(k, i)) /\ HostsOf(o, i) = HostsOf(k, i)
  BY <1>2, ProtectGPRDoes
<1>7. Prots(o) = Prots(k) \cup HostsOf(k, q)
  BY <1>2, ProtectGPRDoes
<1>8. Is32Bit(k, q) => Room(o, 3)
  BY <1>2, ProtectGPRDoes
<1>9. Room(k, 5) => Room(o, 3)
  BY <1>2, ProtectSteps
<1>10. Is32Bit(n, q) => Is32Bit(k, q)
  BY <1>3, SameHosts
<1> HIDE DEF o
<1>11. Does(n, o, {}) /\ Ends(n, o, {})
  BY <1>2, <1>5, DoesTrans, EndsTrans
<1>12. \A i \in {r, q} : IsMapped(n, i) => Pinned(o, i)
  BY <1>2, <1>3, <1>5, <1>6, <1>7 DEF Pinned
<1>13. \A i : Same(n, o, i)
  BY <1>3, <1>6 DEF Same
<1>14. Room(o, 1)
  BY <1>5, SmallerRoom
<1> QED
  BY <1>4, <1>5, <1>8, <1>9, <1>10, <1>11, <1>12, <1>13, <1>14 DEF o, k

LEMMA PairProtected ==
    ASSUME NEW n, Idle(n), NEW r \in Guest, NEW q \in Guest
    PROVE  Ends(n, ProtectGPR(ProtectGPR(n, r), q), {}) /\ Room(ProtectGPR(ProtectGPR(n, r), q), 1)
BY BothProtected

LEMMA NarrowFine ==
    ASSUME NEW n, Idle(n), NEW rd \in Guest, NEW s1 \in Guest, NEW s2 \in Guest, NEW b \in BOOLEAN, NEW w
    PROVE  Fine(n, SetLow(Map_GPR_32bit(ProtectGPR(ProtectGPR(n, s1), s2), rd, b, s1), rd, w), rd)
BY PairProtected, FineLow

LEMMA AnySet ==
    ASSUME NEW n, Sound(n), NEW y, NEW w
    PROVE  Sound(SetX86(n, y, w)) /\ SetX86(n, y, w).live = n.live
<1>1. Sound(SetX86(n, y, w))
  BY SetX86Sound
<1> QED
  BY <1>1, SetX86Rest

(* A pair worked upon with 64 bits, without and with the temporary.        *)
Wide(n, rd, s1, s2) == Map_GPR_64bit(ProtectGPR(ProtectGPR(n, s1), s2), rd, s1)
WideHigh(n, rd, s1, s2) == Map_TempReg(Wide(n, rd, s1, s2), AnyHost, s2, TRUE)
LEMMA WideFine ==
    ASSUME NEW n, Idle(n), NEW rd \in Guest, NEW s1 \in Guest, NEW s2 \in Guest, IsMapped(n, s2)
    PROVE  /\ \A d : Fine(n, SetBoth(Wide(n, rd, s1, s2), rd, d), rd)
           /\ ~Is64Bit(Wide(n, rd, s1, s2), s2) => \A d : Fine(n, SetBoth(WideHigh(n, rd, s1, s2), rd, d), rd)
<1> DEFINE p == ProtectGPR(ProtectGPR(n, s1), s2)
           q == Map_GPR_64bit(p, rd, s1)
           t == Map_TempReg(q, AnyHost, s2, TRUE)
<1>1. /\ Does(n, p, {}) /\ Ends(n, p, {}) /\ Sound(p) /\ Room(p, 2) /\ Pinned(p, s2) /\ Same(n, p, s2)
      /\ Is32Bit(n, s2) => Room(p, 3)
  BY BothProtected
<1>2. Wide(n, rd, s1, s2) = q /\ WideHigh(n, rd, s1, s2) = t
  BY DEF Wide, WideHigh
<1> HIDE DEF p
<1>3. ASSUME NEW d PROVE Fine(n, SetBoth(q, rd, d), rd)
  BY <1>1, FineBoth
<1>4. CASE rd = 0
  <2>1. q = p
    BY <1>4 DEF Map_GPR_64bit
  <2>2. Room(p, 1)
    BY <1>1, SmallerRoom
  <2>3. TempFrom(p, AnyHost, t)
    BY <1>1, <2>1, <2>2, AnyTemp
  <2> HIDE DEF t
  <2>4. Ends(p, t, {}) /\ Sound(t)
    BY <2>3, TempFacts
  <2>5. Sound(t) /\ t.live = n.live
    BY <1>1, <2>4 DEF Ends, Effect
  <2>6. ASSUME NEW d PROVE Fine(n, SetBoth(t, rd, d), rd)
    <3> DEFINE u == SetHigh(t, rd, d.hi)
               v == SetLow(u, rd, d.lo)
    <3>1. Sound(u) /\ u.live = t.live
      BY <2>5, AnySet DEF SetHigh
    <3> HIDE DEF u
    <3>2. Sound(v) /\ v.live = u.live
      BY <3>1, AnySet DEF SetLow
    <3>3. SetBoth(t, rd, d) = v
      BY DEF SetBoth, u
    <3> HIDE DEF v
    <3> QED
      BY <1>4, <2>5, <3>1, <3>2, <3>3 DEF Fine
  <2> QED
    BY <1>2, <1>3, <2>6
<1>5. CASE rd # 0
  <2>1. Does(p, q, {rd}) /\ q.st[rd] = STATE_MAPPED_64 /\ Pinned(q, rd) /\ (Room(p, 3) => Room(q, 1))
    <3>1. rd \in Guest \ {0}
      BY <1>5
    <3>2. 1 \in Nat /\ 1 + 2 = 3
      OBVIOUS
    <3>3. Does(p, q, {rd}) /\ q.st[rd] = STATE_MAPPED_64 /\ Pinned(q, rd)
      BY <1>1, <3>1, MapGPR64
    <3>4. \A k \in Nat : Room(p, k + 2) => Room(q, k)
      BY <1>1, <3>1, MapGPR64
    <3> HIDE DEF q
    <3>5. Room(p, 1 + 2) => Room(q, 1)
      BY <3>2, <3>4
    <3> QED
      BY <3>2, <3>3, <3>5
  <2> HIDE DEF q
  <2>2. ASSUME ~Is64Bit(q, s2) PROVE Room(q, 1)
    <3>1. s2 # rd
      BY <2>1, <2>2 DEF Is64Bit
    <3>2. Same(p, q, s2)
      BY <1>1, <2>1, <3>1 DEF Does, Frame
    <3>3. Same(n, q, s2)
      BY <1>1, <3>2 DEF Same
    <3>4. Is32Bit(n, s2)
      BY <2>2, <3>3, SameHosts DEF Is32Bit, IsMapped
    <3> QED
      BY <1>1, <2>1, <3>4
  <2>3. ASSUME Room(q, 1), NEW d PROVE Fine(n, SetBoth(t, rd, d), rd)
    <3>1. Sound(q)
      BY <2>1 DEF Does
    <3>2. TempFrom(q, AnyHost, t)
      BY <2>3, <3>1, AnyTemp
    <3> HIDE DEF t
    <3>3. Does(q, t, {}) /\ Ends(q, t, {}) /\ Sound(t)
      BY <3>2, TempFacts
    <3>4. Same(q, t, rd)
      BY <2>1, <3>3 DEF Does, Frame
    <3>5. t.st[rd] = STATE_MAPPED_64
      BY <2>1, <3>4 DEF Same
    <3> DEFINE o == SetBoth(t, rd, d)
    <3>6. Does(t, o, {rd})
      BY <3>3, <3>5, SetBothDoes
    <3> HIDE DEF o
    <3>7. Ends(t, o, {rd}) /\ Ends(p, q, {rd})
      BY <2>1, <3>6, DoesEnds
    <3>8. Ends(p, t, {rd})
      BY <3>3, <3>7, EndsTrans
    <3>9. Ends(n, t, {rd})
      BY <1>1, <3>8, EndsTrans
    <3>10. Ends(n, o, {rd})
      BY <3>7, <3>9, EndsTrans
    <3>11. Fine(n, o, rd)
      BY <3>10, FineFacts
    <3> QED
      BY <3>11 DEF o
  <2> QED
    BY <1>2, <1>3, <2>2, <2>3 DEF q
<1> QED
  BY <1>4, <1>5

LEMMA OfOneFine ==
    ASSUME NEW n, Idle(n), NEW rd \in Guest, NEW load
    PROVE  /\ \A b \in BOOLEAN : \A w : Fine(n, SetLow(Map_GPR_32bit(n, rd, b, load), rd, w), rd)
           /\ \A d : Fine(n, SetBoth(Map_GPR_64bit(n, rd, load), rd, d), rd)
BY IdleSelf, FineLow, FineBoth

LEMMA ProtectedFine ==
    ASSUME NEW n, Idle(n), NEW q \in Guest, NEW rd \in Guest, NEW load
    PROVE  /\ \A b \in BOOLEAN : \A w : Fine(n, SetLow(Map_GPR_32bit(ProtectGPR(n, q), rd, b, load), rd, w), rd)
           /\ \A d : Fine(n, SetBoth(Map_GPR_64bit(ProtectGPR(n, q), rd, load), rd, d), rd)
<1> DEFINE k == ProtectGPR(n, q)
<1>1. Sound(n) /\ Room(n, 6)
  BY IdleSelf
<1>2. Ends(n, k, {}) /\ Room(k, 4)
  BY <1>1, ProtectSteps
<1>3. Room(k, 2) /\ Room(k, 1)
  BY <1>2, SmallerRoom
<1> HIDE DEF k
<1>4. ASSUME NEW b \in BOOLEAN, NEW w PROVE Fine(n, SetLow(Map_GPR_32bit(k, rd, b, load), rd, w), rd)
  BY <1>2, <1>3, FineLow
<1>5. ASSUME NEW d PROVE Fine(n, SetBoth(Map_GPR_64bit(k, rd, load), rd, d), rd)
  BY <1>2, <1>3, FineBoth
<1> QED
  BY <1>4, <1>5 DEF k

(* What a pair may be, for the five ways of knowing it.                    *)
LEMMA WithMemoryFine ==
    ASSUME NEW n, Idle(n), NEW rd \in Guest, NEW k, NEW u
    PROVE  /\ Fine(n, WithMemory(n, rd, k, u, Or), rd)
           /\ Fine(n, WithMemory(n, rd, k, u, Xor), rd)
           /\ Fine(n, WithMemory(n, rd, k, u, Nor), rd)
           /\ Fine(n, InMemory(n, rd, k, u, And), rd)
           /\ Fine(n, InMemory(n, rd, k, u, Or), rd)
           /\ Fine(n, InMemory(n, rd, k, u, Xor), rd)
           /\ Fine(n, InMemory(n, rd, k, u, Nor), rd)
BY OfOneFine DEF WithMemory, InMemory, Map64With, Combine

LEMMA MappedFine ==
    ASSUME NEW n, Idle(n), NEW rd \in Guest, NEW s1 \in Guest, NEW s2 \in Guest, IsMapped(n, s2)
    PROVE  /\ Fine(n, OrMapped(n, rd, s1, s2), rd)
           /\ Fine(n, XorMapped(n, rd, s1, s2), rd)
           /\ Fine(n, NorMapped(n, rd, s1, s2), rd)
           /\ Fine(n, AndMapped(n, rd, s1, s2), rd)
<1> DEFINE N(b, w) == SetLow(Map_GPR_32bit(ProtectGPR(ProtectGPR(n, s1), s2), rd, b, s1), rd, w)
           q == Wide(n, rd, s1, s2)
           h == WideHigh(n, rd, s1, s2)
<1>1. ASSUME NEW b \in BOOLEAN, NEW w PROVE Fine(n, N(b, w), rd)
  BY NarrowFine
<1>2. ASSUME NEW d PROVE Fine(n, SetBoth(q, rd, d), rd)
  BY WideFine
<1>3. ASSUME NEW d, ~Is64Bit(q, s2) PROVE Fine(n, SetBoth(h, rd, d), rd)
  BY <1>3, WideFine
<1>4. (IsSigned(n, s1) /\ IsSigned(n, s2)) \in BOOLEAN /\ EitherSigned(n, s1, s2) \in BOOLEAN
  BY DEF IsSigned, EitherSigned
<1>5. Fine(n, NarrowPair(n, rd, s1, s2, TRUE, Or), rd)
  BY NarrowFine DEF NarrowPair, Map32With, LowWith
<1>6. Fine(n, NarrowPair(n, rd, s1, s2, FALSE, And), rd)
  BY NarrowFine DEF NarrowPair, Map32With, LowWith
<1>7. Fine(n, NarrowPair(n, rd, s1, s2, EitherSigned(n, s1, s2), Xor), rd)
  BY <1>4, NarrowFine DEF NarrowPair, Map32With, LowWith
<1>8. Fine(n, NarrowPair(n, rd, s1, s2, EitherSigned(n, s1, s2), Nor), rd)
  BY <1>4, NarrowFine DEF NarrowPair, Map32With, LowWith
<1>9. Fine(n, NarrowPair(n, rd, s1, s2, IsSigned(n, s1) /\ IsSigned(n, s2), And), rd)
  BY <1>4, NarrowFine DEF NarrowPair, Map32With, LowWith
<1> HIDE DEF q, h
<1>10. Fine(n, WidePair(n, rd, s1, s2, Or, LAMBDA i : ~Is64Bit(i, s2)), rd)
  BY <1>2, <1>3 DEF WidePair, HighReady, CombineWith, Combine, WideHigh, Wide, q, h
<1>11. Fine(n, WidePair(n, rd, s1, s2, Nor, LAMBDA i : ~Is64Bit(i, s2)), rd)
  BY <1>2, <1>3 DEF WidePair, HighReady, CombineWith, Combine, WideHigh, Wide, q, h
<1>12. Is32Bit(q, s2) => ~Is64Bit(q, s2)
  BY DEF Is32Bit
<1>13. Fine(n, WidePair(n, rd, s1, s2, And, LAMBDA i : Is32Bit(i, s2)), rd)
  BY <1>2, <1>3, <1>12 DEF WidePair, HighReady, CombineWith, Combine, WideHigh, Wide, q, h
<1>14. Fine(n, WidePair(n, rd, s1, s2, Xor, LAMBDA i : Is32Bit(i, s2) /\ IsSigned(i, s2)), rd)
  BY <1>2, <1>3, <1>12 DEF WidePair, HighReady, CombineWith, Combine, WideHigh, Wide, q, h
<1>15. Fine(n, OrMapped(n, rd, s1, s2), rd)
  BY <1>5, <1>10 DEF OrMapped
<1>16. Fine(n, XorMapped(n, rd, s1, s2), rd)
  BY <1>7, <1>14 DEF XorMapped
<1>17. Fine(n, NorMapped(n, rd, s1, s2), rd)
  BY <1>8, <1>11 DEF NorMapped
<1>18. Fine(n, AndMapped(n, rd, s1, s2), rd)
  BY <1>6, <1>9, <1>13 DEF AndMapped
<1> QED
  BY <1>15, <1>16, <1>17, <1>18

LEMMA ConstMappedFine ==
    ASSUME NEW n, Idle(n), NEW rd \in Guest, NEW c, NEW g
    PROVE  /\ Fine(n, AndConstMapped(n, rd, c, g), rd)
           /\ Fine(n, OrConstMapped(n, rd, c, g), rd)
           /\ Fine(n, XorConstMapped(n, rd, c, g), rd)
           /\ Fine(n, NorConstMapped(n, rd, c, g), rd)
<1> DEFINE N(b, load, w) == SetLow(Map_GPR_32bit(n, rd, b, load), rd, w)
           W(load, d) == SetBoth(Map_GPR_64bit(n, rd, load), rd, d)
<1>1. ASSUME NEW b \in BOOLEAN, NEW load, NEW w PROVE Fine(n, N(b, load, w), rd)
  BY OfOneFine
<1>2. ASSUME NEW load, NEW d PROVE Fine(n, W(load, d), rd)
  BY OfOneFine
<1>3. (Is32Bit(n, c) /\ (Is64Bit(n, g) \/ (n.lo[c] # 0 /\ IsSigned(n, g)))) \in BOOLEAN /\ EitherSigned(n, c, g) \in BOOLEAN
  BY DEF IsSigned, EitherSigned, Is32Bit, IsKnown
<1>4. Fine(n, AndConstMapped(n, rd, c, g), rd)
  BY <1>1, <1>2, <1>3 DEF AndConstMapped, Map64With, Combine, Map32, LowInto
<1>5. Fine(n, OrConstMapped(n, rd, c, g), rd)
  BY <1>1, <1>2, <1>3 DEF OrConstMapped, Map64With, Combine, Map32, LowInto
<1>6. Fine(n, XorConstMapped(n, rd, c, g), rd)
  BY <1>1, <1>2, <1>3 DEF XorConstMapped, Map64With, Combine, Map32, LowInto
<1>7. Fine(n, NorConstMapped(n, rd, c, g), rd)
  BY <1>1, <1>2, <1>3 DEF NorConstMapped, Map64With, Combine, Map32, LowInto
<1> QED
  BY <1>4, <1>5, <1>6, <1>7

LEMMA AndKnownFine ==
    ASSUME NEW n, Idle(n), NEW rd \in Guest, NEW k \in Guest, NEW u
    PROVE  Fine(n, AndKnown(n, rd, k, u), rd)
BY ProtectedFine, SignedBoolean DEF AndKnown, Map64With, Combine, Map32, LowInto

(* The registers that the cases of a pair name are two of the guests.      *)
LEMMA PairNames ==
    ASSUME NEW n, NEW rd, NEW rs \in Guest, NEW rt \in Guest
    PROVE  /\ Source1(rd, rs, rt) \in Guest /\ Source2(rd, rs, rt) \in Guest
           /\ BothMapped(n, rs, rt) => IsMapped(n, Source2(rd, rs, rt))
           /\ TheConst(n, rs, rt) \in Guest /\ TheMapped(n, rs, rt) \in Guest
           /\ TheKnown(n, rs, rt) \in Guest /\ TheOther(n, rs, rt) \in Guest
BY DEF Source1, Source2, BothMapped, TheConst, TheMapped, TheKnown, TheOther

LEMMA Compile_OR_Ends ==
    ASSUME NEW n, Idle(n), NEW rd \in Guest, NEW rs \in Guest, NEW rt \in Guest
    PROVE  Ends(n, Compile_OR(n, rd, rs, rt), {rd})
<1>1. Sound(n)
  BY IdleSelf
<1>2. Fine(n, OrConstants(n, rd, rs, rt), rd)
  BY <1>1, FineConst DEF OrConstants
<1>3. Fine(n, ORCases(n, rd, rs, rt), rd)
  BY <1>2, MappedFine, PairNames, ConstMappedFine, WithMemoryFine DEF ORCases
<1> QED
  BY <1>3, FineSlip DEF Compile_OR

LEMMA Compile_XOR_Ends ==
    ASSUME NEW n, Idle(n), NEW rd \in Guest, NEW rs \in Guest, NEW rt \in Guest
    PROVE  Ends(n, Compile_XOR(n, rd, rs, rt), {rd})
<1>1. Sound(n)
  BY IdleSelf
<1>2. Ends(n, UnknownOpcode(DropMapped(n, rd)), {rd})
  <2>1. Ends(n, DropMapped(n, rd), {rd})
    BY <1>1, DropDoes
  <2>2. Ends(DropMapped(n, rd), UnknownOpcode(DropMapped(n, rd)), {rd})
    BY <2>1, Unknown DEF Ends
  <2> QED
    BY <2>1, <2>2, EndsTrans
<1>3. rd # 0 /\ BothMapped(n, rs, rt) => Ends(n, XorMapped(n, rd, Source1(rd, rs, rt), Source2(rd, rs, rt)), {rd})
  BY MappedFine, PairNames, FineFacts
<1>4. rd # 0 => /\ \A c, g : Ends(n, XorConstMapped(n, rd, c, g), {rd})
                /\ \A k, u : Ends(n, WithMemory(n, rd, k, u, Xor), {rd}) /\ Ends(n, InMemory(n, rd, k, u, Xor), {rd})
  BY ConstMappedFine, WithMemoryFine, FineFacts
<1>5. Ends(n, XORCases(n, rd, rs, rt), {rd})
  BY <1>1, <1>2, <1>3, <1>4, Nothing, ConstInto DEF XORCases
<1> QED
  BY <1>5, SlipEnds DEF Compile_XOR

LEMMA Compile_NOR_Ends ==
    ASSUME NEW n, Idle(n), NEW rd \in Guest, NEW rs \in Guest, NEW rt \in Guest
    PROVE  Ends(n, Compile_NOR(n, rd, rs, rt), {rd})
<1>1. Sound(n)
  BY IdleSelf
<1>2. Fine(n, UnknownOpcode(DropMapped(n, rd)), rd)
  <2>1. Ends(n, DropMapped(n, rd), {rd})
    BY <1>1, DropDoes
  <2>2. Ends(DropMapped(n, rd), UnknownOpcode(DropMapped(n, rd)), {rd})
    BY <2>1, Unknown DEF Ends
  <2>3. Ends(n, UnknownOpcode(DropMapped(n, rd)), {rd})
    BY <2>1, <2>2, EndsTrans
  <2> QED
    BY <2>3, FineFacts
<1>3. Fine(n, NORCases(n, rd, rs, rt), rd)
  BY <1>1, <1>2, FineConst, MappedFine, PairNames, ConstMappedFine, WithMemoryFine DEF NORCases
<1> QED
  BY <1>3, FineSlip DEF Compile_NOR

(* The conjunction of constants may leave the registers of rd marked: it   *)
(* then slips.                                                             *)
Slipped(o) == "slip" \in DOMAIN o /\ o.slip = TRUE

LEMMA Compile_AND_Ends ==
    ASSUME NEW n, Idle(n), NEW rd \in Guest, NEW rs \in Guest, NEW rt \in Guest
    PROVE  LET o == Compile_AND(n, rd, rs, rt)
           IN Ends(n, o, {rd}) \/ Slipped(o)
<1> DEFINE k == ANDCases(n, rd, rs, rt)
           b == \/ rd = 0 \/ (BothConst(n, rs, rt) /\ IsMapped(n, rd))
                \/ EitherWay(Cut, n, rs, rt) \/ EitherWay(Narrowed, n, rs, rt)
<1>1. Sound(n)
  BY IdleSelf
<1>2. Compile_AND(n, rd, rs, rt) = Slip(k, b)
  BY DEF Compile_AND
<1>3. CASE ~BothConst(n, rs, rt)
  <2>1. Fine(n, k, rd)
    BY <1>3, MappedFine, PairNames, ConstMappedFine, AndKnownFine, WithMemoryFine DEF ANDCases
  <2>2. rd = 0 => b
    OBVIOUS
  <2> HIDE DEF k, b
  <2>3. Ends(n, Slip(k, b), {rd})
    BY <2>1, <2>2, FineSlip
  <2> QED
    BY <1>2, <2>3
<1>4. CASE BothConst(n, rs, rt)
  <2>1. k = AndConstants(n, rd, rs, rt)
    BY <1>4 DEF ANDCases
  <2>2. CASE IsMapped(n, rd)
    <3>1. b
      BY <1>4, <2>2
    <3>2. "slip" \in DOMAIN k
      BY <1>1, <2>1 DEF AndConstants, SetConst, SetConst32, Sound, Shape, Fields
    <3> HIDE DEF k, b
    <3>3. Slipped(Slip(k, b))
      BY <3>1, <3>2 DEF Slip, Slipped
    <3> QED
      BY <1>2, <3>3
  <2>3. CASE ~IsMapped(n, rd)
    <3>0. Ends(n, n, {rd})
      BY <1>1, Nothing
    <3>1. Ends(n, SetConst(n, rd, Both(And, Value(n, rt), Value(n, rs))), {rd})
      BY <2>3, <3>0, SetConstEnds
    <3> DEFINE c == SetConst32(n, rd, And(n.lo[rt], n.lo[rs]))
               d == [c EXCEPT !.hi[rd] = 0]
    <3>2. Ends(n, d, {rd})
      <4>1. /\ DOMAIN d = Fields /\ d.mapped = n.mapped /\ d.order = n.order
            /\ d.prot = n.prot /\ d.x = n.x /\ d.gpr = n.gpr /\ d.live = n.live /\ d.slip = n.slip /\ d.fault = n.fault
            /\ DOMAIN d.hi = Guest /\ DOMAIN d.lo = Guest
        BY <1>1 DEF SetConst32, Sound, Shape, Fields
      <4>2. d.st = [n.st EXCEPT ![rd] = STATE_CONST_32]
        BY <1>1 DEF SetConst32, Sound, Shape, Fields
      <4>3. d.st \in [Guest -> RegisterStates] /\ IsConst(d, rd)
        BY <1>1, <4>2 DEF Sound, Shape, RegisterStates, IsConst
      <4>4. \A q \in Guest \ {rd} : Same(n, d, q)
        BY <1>1, <4>2 DEF Same, SetConst32, Sound, Shape, Fields
      <4> HIDE DEF d
      <4> QED
        BY <1>1, <2>3, <4>1, <4>3, <4>4, Constant
    <3>3. Ends(n, k, {rd})
      BY <2>1, <3>1, <3>2 DEF AndConstants
    <3> HIDE DEF k, b
    <3>4. Ends(n, Slip(k, b), {rd})
      BY <3>3, SlipEnds
    <3> QED
      BY <1>2, <3>4
  <2> QED
    BY <2>2, <2>3
<1> QED
  BY <1>3, <1>4

(* The high word of a narrow register in a temporary.                      *)
HighKept(n, r, o) ==
    /\ Does(n, o, {}) /\ Ends(n, o, {}) /\ Sound(o)
    /\ Room(n, 6) => Room(o, 4)
    /\ Room(n, 5) => Room(o, 3)
    /\ Room(n, 4) => Room(o, 2)
    /\ Room(n, 3) => Room(o, 1)
    /\ Pinned(n, r) /\ Room(n, 3) => Room(o, 2)
    /\ ~(IsMapped(n, r) /\ Is32Bit(n, r)) => o = n
LEMMA HighInTempEnds ==
    ASSUME NEW n, Sound(n), Room(n, 3), NEW r \in Guest
    PROVE  HighKept(n, r, HighInTemp(n, r))
<1> DEFINE k == ProtectGPR(n, r)
           o == Map_TempReg(k, AnyHost, r, TRUE)
<1>1. CASE ~(IsMapped(n, r) /\ Is32Bit(n, r))
  <2>1. HighInTemp(n, r) = n
    BY <1>1 DEF HighInTemp
  <2>2. Does(n, n, {}) /\ Ends(n, n, {})
    BY Nothing
  <2> QED
    BY <2>1, <2>2, SmallerRoom DEF HighKept
<1>2. CASE IsMapped(n, r) /\ Is32Bit(n, r)
  <2>1. HighInTemp(n, r) = o
    BY <1>2 DEF HighInTemp
  <2>2. Does(n, k, {}) /\ Ends(n, k, {}) /\ Sound(k)
    BY ProtectSteps
  <2>3. \A j \in Nat : Room(n, j + 1) => Room(k, j)
    BY <1>2, ProtectGPRDoes
  <2>4. Pinned(n, r) => \A j \in Nat : Room(n, j) => Room(k, j)
    BY ProtectGPRDoes
  <2> HIDE DEF k
  <2>5. Room(n, 5 + 1) => Room(k, 5)
    BY <2>3
  <2>6. Room(n, 4 + 1) => Room(k, 4)
    BY <2>3
  <2>7. Room(n, 3 + 1) => Room(k, 3)
    BY <2>3
  <2>8. Room(n, 2 + 1) => Room(k, 2)
    BY <2>3
  <2>9. /\ Room(n, 6) => Room(k, 5)
        /\ Room(n, 5) => Room(k, 4)
        /\ Room(n, 4) => Room(k, 3)
        /\ Room(n, 3) => Room(k, 2)
        /\ Pinned(n, r) /\ Room(n, 3) => Room(k, 3)
    <3>1. 5 + 1 = 6 /\ 4 + 1 = 5 /\ 3 + 1 = 4 /\ 2 + 1 = 3 /\ 3 \in Nat
      OBVIOUS
    <3> QED
      BY <2>4, <2>5, <2>6, <2>7, <2>8, <3>1
  <2>10. Room(k, 1)
    BY <2>9, SmallerRoom
  <2>11. TempFrom(k, AnyHost, o)
    BY <2>2, <2>10, AnyTemp
  <2> HIDE DEF o
  <2>12. /\ Does(k, o, {}) /\ Ends(k, o, {}) /\ Sound(o)
         /\ Room(k, 5) => Room(o, 4)
         /\ Room(k, 4) => Room(o, 3)
         /\ Room(k, 3) => Room(o, 2)
         /\ Room(k, 2) => Room(o, 1)
    BY <2>11 DEF TempFrom
  <2>13. Does(n, o, {}) /\ Ends(n, o, {})
    BY <2>2, <2>12, DoesTrans, EndsTrans
  <2>14. HighKept(n, r, o)
    BY <1>2, <2>9, <2>12, <2>13 DEF HighKept
  <2> QED
    BY <2>1, <2>14
<1> QED
  BY <1>1, <1>2

(* Two registers that are not both constants, nor both of 32 bits.         *)
LEMMA ComparedEnds ==
    ASSUME NEW n, Idle(n), NEW rs \in Guest, NEW rt \in Guest,
           BothKnown(n, rs, rt) => Either64(n, rs, rt)
    PROVE  Ends(n, Compared(n, rs, rt), {}) /\ Room(Compared(n, rs, rt), 1)
<1>1. Sound(n) /\ Room(n, 6)
  BY IdleSelf
<1>2. CASE IsUnknown(n, rs) /\ IsUnknown(n, rt)
  <2> DEFINE t == Map_TempReg(n, AnyHost, rs, TRUE)
             o == LowThrough(t, rs)
  <2>1. TempFrom(n, AnyHost, t)
    BY IdleTemp
  <2>2. Compared(n, rs, rt) = o
    BY <1>2 DEF Compared
  <2> HIDE DEF t
  <2>3. Ends(n, t, {}) /\ Sound(t) /\ t.reg \in Host /\ t.mapped[t.reg] # "gpr" /\ Room(t, 5)
    BY <2>1, TempFacts
  <2>4. TempFrom(t, t.reg, o) /\ Ends(t, o, {})
    BY <2>3, LowThroughEnds
  <2> HIDE DEF o
  <2>5. Room(o, 4)
    BY <2>3, <2>4 DEF TempFrom
  <2>6. Ends(n, o, {}) /\ Room(o, 1)
    BY <2>3, <2>4, <2>5, EndsTrans, SmallerRoom
  <2> QED
    BY <2>2, <2>6
<1>3. CASE ~(IsUnknown(n, rs) /\ IsUnknown(n, rt))
  <2> DEFINE b == IF BothKnown(n, rs, rt) THEN ProtectBoth(n, rs, rt) ELSE n
             k == HighInTemp(b, rs)
             o == HighInTemp(k, rt)
  <2>1. Compared(n, rs, rt) = o
    BY <1>3 DEF Compared
  <2>2. CASE ~BothKnown(n, rs, rt)
    <3>1. b = n
      BY <2>2
    <3>2. Room(n, 3)
      BY <1>1, SmallerRoom
    <3>3. HighKept(n, rs, k)
      BY <1>1, <3>1, <3>2, HighInTempEnds
    <3> HIDE DEF k, b
    <3>4. Ends(n, k, {}) /\ Sound(k) /\ Room(k, 4)
      BY <1>1, <3>3 DEF HighKept
    <3>5. Room(k, 3)
      BY <3>4, SmallerRoom
    <3>6. HighKept(k, rt, o)
      BY <3>4, <3>5, HighInTempEnds
    <3> HIDE DEF o
    <3>7. Ends(k, o, {}) /\ Room(o, 2)
      BY <3>4, <3>6 DEF HighKept
    <3> QED
      BY <2>1, <3>4, <3>7, EndsTrans, SmallerRoom
  <2>3. CASE BothKnown(n, rs, rt)
    <3>1. /\ Does(n, b, {}) /\ Ends(n, b, {}) /\ Sound(b) /\ Room(b, 2)
          /\ \A i \in {rs, rt} : IsMapped(n, i) => Pinned(b, i)
          /\ \A i : Same(n, b, i)
          /\ Is32Bit(n, rt) \/ Is32Bit(n, rs) => Room(b, 3)
      BY <2>3, BothProtected DEF ProtectBoth
    <3> HIDE DEF b
    <3>2. \A i : (IsMapped(b, i) <=> IsMapped(n, i)) /\ (Is32Bit(b, i) <=> Is32Bit(n, i))
      BY <3>1, SameHosts
    <3>3. CASE ~(IsMapped(n, rs) /\ Is32Bit(n, rs))
      <4>1. k = b
        BY <3>2, <3>3 DEF HighInTemp
      <4>2. CASE ~(IsMapped(n, rt) /\ Is32Bit(n, rt))
        <5>1. o = b
          BY <3>2, <4>1, <4>2 DEF HighInTemp
        <5> QED
          BY <2>1, <3>1, <5>1, SmallerRoom
      <4>3. CASE IsMapped(n, rt) /\ Is32Bit(n, rt)
        <5>1. Room(b, 3) /\ Pinned(b, rt)
          BY <3>1, <4>3
        <5>2. HighKept(b, rt, o)
          BY <3>1, <4>1, <5>1, HighInTempEnds
        <5> HIDE DEF o
        <5>3. Ends(b, o, {}) /\ Room(o, 2)
          BY <5>1, <5>2 DEF HighKept
        <5> QED
          BY <2>1, <3>1, <5>3, EndsTrans, SmallerRoom
      <4> QED
        BY <4>2, <4>3
    <3>4. CASE IsMapped(n, rs) /\ Is32Bit(n, rs)
      <4>1. Room(b, 3) /\ Pinned(b, rs)
        BY <3>1, <3>4
      <4>2. HighKept(b, rs, k)
        BY <3>1, <4>1, HighInTempEnds
      <4> HIDE DEF k
      <4>3. Does(b, k, {}) /\ Ends(b, k, {}) /\ Sound(k) /\ Room(k, 2)
        BY <4>1, <4>2 DEF HighKept
      <4>4. Is64Bit(n, rt)
        BY <2>3, <3>4 DEF Is32Bit, Either64
      <4>5. CASE IsMapped(n, rt)
        <5>1. Same(b, k, rt)
          BY <3>1, <4>3, <4>5 DEF Does, Frame
        <5>2. Same(n, k, rt)
          BY <3>1, <5>1 DEF Same
        <5>3. Is64Bit(k, rt)
          BY <4>4, <5>2, SameHosts
        <5>4. o = k
          BY <5>3 DEF HighInTemp, Is32Bit
        <5> QED
          BY <2>1, <3>1, <4>3, <5>4, EndsTrans, SmallerRoom
      <4>6. CASE ~IsMapped(n, rt)
        <5> DEFINE p == ProtectGPR(n, rs)
        <5>1. Room(b, 5)
          <6>1. b = ProtectGPR(p, rt)
            BY <2>3 DEF b, ProtectBoth
          <6>2. \A j \in Nat : Room(n, j + 1) => Room(p, j)
            BY <1>1, <3>4, ProtectGPRDoes
          <6>3. Sound(p)
            BY <1>1, ProtectSteps
          <6>4. IsMapped(p, rt) <=> IsMapped(n, rt)
            BY <1>1, ProtectGPRDoes
          <6> HIDE DEF p
          <6>5. Room(n, 5 + 1) => Room(p, 5)
            BY <6>2
          <6>6. 5 + 1 = 6 /\ 5 \in Nat
            OBVIOUS
          <6>7. Room(p, 5)
            BY <1>1, <6>5, <6>6
          <6>8. \A j \in Nat : Room(p, j) => Room(ProtectGPR(p, rt), j)
            BY <4>6, <6>3, <6>4, ProtectGPRDoes
          <6> QED
            BY <6>1, <6>6, <6>7, <6>8
        <5>2. Room(k, 3)
          BY <4>2, <5>1 DEF HighKept
        <5>3. HighKept(k, rt, o)
          BY <4>3, <5>2, HighInTempEnds
        <5> HIDE DEF o
        <5>4. Ends(k, o, {}) /\ Room(o, 1)
          BY <5>2, <5>3 DEF HighKept
        <5> QED
          BY <2>1, <3>1, <4>3, <5>4, EndsTrans
      <4> QED
        BY <4>5, <4>6
    <3> QED
      BY <3>3, <3>4
  <2> QED
    BY <2>2, <2>3
<1> QED
  BY <1>2, <1>3

LEMMA Compile_SLT_Ends ==
    ASSUME NEW n, Idle(n), NEW rd \in Guest, NEW rs \in Guest, NEW rt \in Guest
    PROVE  /\ Ends(n, Compile_SLT(n, rd, rs, rt), {rd})
           /\ Ends(n, Compile_SLTU(n, rd, rs, rt), {rd})
<1> DEFINE c == Compared(n, rs, rt)
           p == ProtectBoth(n, rs, rt)
           C(k, w) == SetLow(Map_GPR_32bit(k, rd, TRUE, -1), rd, w)
<1>1. Sound(n)
  BY IdleSelf
<1>2. Ends(n, p, {}) /\ Room(p, 1)
  BY PairProtected DEF ProtectBoth
<1>3. ASSUME BothKnown(n, rs, rt) => Either64(n, rs, rt)
      PROVE  Ends(n, c, {}) /\ Room(c, 1)
  BY <1>3, ComparedEnds
<1>4. Ends(n, n, {}) /\ Room(n, 1)
  BY IdleSelf
<1> HIDE DEF c, p
<1>5. ASSUME NEW w PROVE Fine(n, C(p, w), rd)
  BY <1>2, FineLow
<1>6. ASSUME NEW w PROVE Fine(n, C(n, w), rd)
  BY <1>4, FineLow
<1>7. ASSUME NEW w, BothKnown(n, rs, rt) => Either64(n, rs, rt) PROVE Fine(n, C(c, w), rd)
  BY <1>3, <1>7, FineLow
<1>8. Fine(n, UnknownOpcode(n), rd) /\ Fine(n, n, rd)
  BY <1>1, FineNothing
<1>9. ASSUME NEW w PROVE Fine(n, SetConst32(DropMapped(n, rd), rd, w), rd)
  BY <1>1, FineConst
<1>10. ASSUME NEW w
       PROVE  /\ FlagInto(p, rd, TRUE, w) = C(p, Bit(w)) /\ FlagInto(c, rd, TRUE, w) = C(c, Bit(w))
              /\ FlagInto(n, rd, TRUE, w) = C(n, Bit(w))
  BY DEF FlagInto
<1>11. \E w : FlagLess(Map_GPR_32bit(p, rd, TRUE, -1), n, rd, rs, rt) = C(p, w)
  BY DEF FlagLess
<1> HIDE DEF C
<1>12. Fine(n, SLTCases(n, rd, rs, rt), rd)
  <2>1. Fine(n, FlagLess(Map_GPR_32bit(p, rd, TRUE, -1), n, rd, rs, rt), rd)
    BY <1>5, <1>11
  <2>2. ASSUME BothKnown(n, rs, rt) => Either64(n, rs, rt), NEW w PROVE Fine(n, FlagInto(c, rd, TRUE, w), rd)
    BY <1>7, <1>10, <2>2
  <2> QED
    BY <1>8, <1>9, <2>1, <2>2 DEF SLTCases, c, p
<1>13. Fine(n, SLTUCases(n, rd, rs, rt), rd)
  <2>1. ASSUME NEW w PROVE Fine(n, FlagInto(p, rd, TRUE, w), rd)
    BY <1>5, <1>10
  <2>2. ASSUME BothKnown(n, rs, rt) => Either64(n, rs, rt), NEW w PROVE Fine(n, FlagInto(c, rd, TRUE, w), rd)
    BY <1>7, <1>10, <2>2
  <2>3. ASSUME NEW w PROVE Fine(n, FlagInto(n, rd, TRUE, w), rd)
    BY <1>6, <1>10
  <2> QED
    BY <1>8, <1>9, <2>1, <2>2, <2>3 DEF SLTUCases, c, p
<1>14. Ends(n, Compile_SLT(n, rd, rs, rt), {rd})
  BY <1>12, FineSlip DEF Compile_SLT
<1>15. rd = 0 => Ends(n, SLTUCases(n, rd, rs, rt), {rd})
  BY <1>1, Nothing DEF SLTUCases
<1>16. Ends(n, SLTUCases(n, rd, rs, rt), {rd})
  BY <1>13, <1>15, FineFacts
<1>17. Ends(n, Compile_SLTU(n, rd, rs, rt), {rd})
  BY <1>16, SlipEnds DEF Compile_SLTU
<1> QED
  BY <1>14, <1>17

---------------------------------------------------------------------------
(* Sums and differences of 64 bits, once rd is mapped in p.                *)
LongReady(n, p, rd) ==
    /\ Ends(n, p, {rd}) /\ Sound(p) /\ p.st[rd] = STATE_MAPPED_64 /\ Pinned(p, rd) /\ Room(p, 1)
LEMMA LongMapped ==
    ASSUME NEW n, Idle(n), NEW rd \in Guest \ {0}, NEW load
    PROVE  LongReady(n, Map_GPR_64bit(n, rd, load), rd)
<1> DEFINE p == Map_GPR_64bit(n, rd, load)
<1>1. Sound(n) /\ Room(n, 6) /\ Room(n, 2) /\ Room(n, 3)
  BY IdleSelf, SmallerRoom
<1>2. Does(n, p, {rd}) /\ p.st[rd] = STATE_MAPPED_64 /\ Pinned(p, rd)
  BY <1>1, MapGPR64
<1>3. \A k \in Nat : Room(n, k + 2) => Room(p, k)
  BY <1>1, MapGPR64
<1> HIDE DEF p
<1>4. Room(n, 1 + 2) => Room(p, 1)
  BY <1>3
<1>5. 1 + 2 = 3
  OBVIOUS
<1>6. LongReady(n, p, rd)
  BY <1>1, <1>2, <1>4, <1>5, DoesEnds DEF LongReady
<1> QED
  BY <1>6 DEF p

LEMMA LongSet ==
    ASSUME NEW n, NEW p, NEW rd \in Guest, LongReady(n, p, rd), NEW k, Does(p, k, {}), NEW d
    PROVE  Ends(n, SetBoth(k, rd, d), {rd})
<1> DEFINE o == SetBoth(k, rd, d)
<1>1. Same(p, k, rd)
  BY DEF LongReady, Does, Frame
<1>2. Sound(k) /\ k.st[rd] = STATE_MAPPED_64
  BY <1>1 DEF LongReady, Same, Does
<1>3. Does(k, o, {rd})
  BY <1>2, SetBothDoes
<1> HIDE DEF o
<1>4. Ends(n, p, {rd}) /\ Ends(p, k, {}) /\ Ends(k, o, {rd})
  BY <1>3, DoesEnds DEF LongReady
<1>5. Ends(n, k, {rd})
  BY <1>4, EndsTrans
<1>6. Ends(n, o, {rd})
  BY <1>4, <1>5, EndsTrans
<1> QED
  BY <1>6 DEF o

LEMMA LongWithSteps ==
    ASSUME NEW n, NEW p, NEW rd \in Guest, LongReady(n, p, rd), NEW rt \in Guest
    PROVE  /\ \A d : Ends(n, SetBoth(p, rd, d), {rd})
           /\ \A d : Ends(n, SetBoth(ProtectGPR(p, rt), rd, d), {rd})
           /\ \A d : Ends(n, SetBoth(ProtectGPR(Map_TempReg(p, AnyHost, rt, TRUE), rt), rd, d), {rd})
<1> DEFINE t == Map_TempReg(p, AnyHost, rt, TRUE)
           u == ProtectGPR(t, rt)
           v == ProtectGPR(p, rt)
<1>1. Sound(p) /\ Room(p, 1)
  BY DEF LongReady
<1>2. Does(p, p, {})
  BY <1>1, Nothing
<1>3. Does(p, v, {})
  BY <1>1, ProtectSteps
<1>4. TempFrom(p, AnyHost, t)
  BY <1>1, AnyTemp
<1> HIDE DEF t, v
<1>5. Does(p, t, {}) /\ Sound(t)
  BY <1>4, TempFacts
<1>6. Does(t, u, {})
  BY <1>5, ProtectSteps
<1> HIDE DEF u
<1>7. Does(p, u, {})
  BY <1>5, <1>6, DoesTrans
<1>8. \A d : Ends(n, SetBoth(p, rd, d), {rd})
  BY <1>2, LongSet
<1>9. \A d : Ends(n, SetBoth(v, rd, d), {rd})
  BY <1>3, LongSet
<1>10. \A d : Ends(n, SetBoth(u, rd, d), {rd})
  BY <1>7, LongSet
<1> QED
  BY <1>8, <1>9, <1>10 DEF u, t, v

LEMMA LongWithEnds ==
    ASSUME NEW n, NEW p, NEW rd \in Guest, LongReady(n, p, rd), NEW rt \in Guest, NEW c
    PROVE  /\ Ends(n, LongWith(p, rd, rt, LongPlus, c), {rd})
           /\ Ends(n, LongWith(p, rd, rt, LongMinus, c), {rd})
<1>1. /\ \A d : Ends(n, SetBoth(p, rd, d), {rd})
      /\ \A d : Ends(n, SetBoth(ProtectGPR(p, rt), rd, d), {rd})
      /\ \A d : Ends(n, SetBoth(ProtectGPR(Map_TempReg(p, AnyHost, rt, TRUE), rt), rd, d), {rd})
  BY LongWithSteps
<1>2. \A d, b : Ends(n, Slip(SetBoth(p, rd, d), b), {rd})
  BY <1>1, SlipEnds
<1>3. \A d, b : Ends(n, Slip(SetBoth(ProtectGPR(Map_TempReg(p, AnyHost, rt, TRUE), rt), rd, d), b), {rd})
  BY <1>1, SlipEnds
<1>4. Ends(n, LongWith(p, rd, rt, LongPlus, c), {rd})
  BY <1>1, <1>2, <1>3 DEF LongWith, LongWithNarrow
<1>5. Ends(n, LongWith(p, rd, rt, LongMinus, c), {rd})
  BY <1>1, <1>2, <1>3 DEF LongWith, LongWithNarrow
<1> QED
  BY <1>4, <1>5

LEMMA Compile_DADD_Ends ==
    ASSUME NEW n, Idle(n), NEW rd \in Guest, NEW rs \in Guest, NEW rt \in Guest
    PROVE  /\ Ends(n, Compile_DADD(n, rd, rs, rt), {rd})
           /\ Ends(n, Compile_DADDU(n, rd, rs, rt), {rd})
<1> DEFINE p == Map_GPR_64bit(n, rd, rs)
<1>1. Sound(n)
  BY IdleSelf
<1>2. Ends(n, n, {rd})
  BY <1>1, Nothing
<1>3. ASSUME rd # 0 PROVE Ends(n, LongSum(n, rd, rs, rt), {rd})
  <2>1. LongReady(n, p, rd)
    BY <1>3, LongMapped
  <2> HIDE DEF p
  <2>2. Ends(n, LongAdded(p, rd, rt), {rd})
    BY <2>1, LongWithEnds, SlipEnds DEF LongAdded
  <2> QED
    BY <2>2, SlipEnds DEF LongSum, p
<1>4. ASSUME NEW d PROVE Ends(n, SetConst(DropMapped(n, rd), rd, d), {rd})
  BY <1>1, LongConstInto
<1>5. ASSUME NEW d, NEW b PROVE Ends(n, Slip(SetConst(DropMapped(n, rd), rd, d), b), {rd})
  BY <1>4, SlipEnds
<1>6. Ends(n, Compile_DADD(n, rd, rs, rt), {rd})
  BY <1>2, <1>3, <1>5 DEF Compile_DADD
<1>7. Ends(n, Compile_DADDU(n, rd, rs, rt), {rd})
  BY <1>2, <1>3, <1>4 DEF Compile_DADDU
<1> QED
  BY <1>6, <1>7

LEMMA Compile_DSUB_Ends ==
    ASSUME NEW n, Idle(n), NEW rd \in Guest, NEW rs \in Guest, NEW rt \in Guest
    PROVE  /\ Ends(n, Compile_DSUB(n, rd, rs, rt), {rd})
           /\ Ends(n, Compile_DSUBU(n, rd, rs, rt), {rd})
<1> DEFINE p == Map_GPR_64bit(n, rd, rs)
           h == Map_TempReg(n, AnyHost, rt, TRUE)
           l == Map_TempReg(h, AnyHost, rd, FALSE)
<1>1. Sound(n)
  BY IdleSelf
<1>2. Ends(n, n, {rd})
  BY <1>1, Nothing
<1>3. ASSUME rd # 0 PROVE Ends(n, LongLess(p, rd, rt), {rd})
  <2>1. LongReady(n, p, rd)
    BY <1>3, LongMapped
  <2> HIDE DEF p
  <2> QED
    BY <2>1, LongWithEnds DEF LongLess
<1>4. ASSUME rd # 0 PROVE Ends(n, LongLessSelf(h, rd, rs), {rd})
  <2>1. TempFrom(n, AnyHost, h)
    BY IdleTemp
  <2> HIDE DEF h
  <2>2. Ends(n, h, {}) /\ Sound(h) /\ Room(h, 5)
    BY <2>1, TempFacts
  <2>3. Room(h, 1)
    BY <2>2, SmallerRoom
  <2>4. TempFrom(h, AnyHost, l)
    BY <2>2, <2>3, AnyTemp
  <2>5. LongLessSelf(h, rd, rs) = LongLessThis(l, rd, rs, h.reg)
    BY DEF LongLessSelf
  <2> HIDE DEF l
  <2>6. Ends(h, l, {}) /\ Room(l, 4)
    BY <2>2, <2>4, TempFacts DEF TempFrom
  <2>7. Ends(n, l, {}) /\ Room(l, 2)
    BY <2>2, <2>6, EndsTrans, SmallerRoom
  <2>8. \A d : Fine(n, SetBoth(Map_GPR_64bit(l, rd, rs), rd, d), rd)
    BY <2>7, FineBoth
  <2>9. Fine(n, LongLessThis(l, rd, rs, h.reg), rd)
    BY <2>8 DEF LongLessThis, LongLessTemporary
  <2> QED
    BY <1>4, <2>5, <2>9, FineFacts
<1>5. ASSUME NEW d PROVE Ends(n, SetConst(DropMapped(n, rd), rd, d), {rd})
  BY <1>1, LongConstInto
<1>6. ASSUME NEW d, NEW b PROVE Ends(n, Slip(SetConst(DropMapped(n, rd), rd, d), b), {rd})
  BY <1>5, SlipEnds
<1>7. Ends(n, LongDifference(n, rd, rs, rt), {rd})
  BY <1>2, <1>3, <1>4, <1>6 DEF LongDifference
<1> QED
  BY <1>7 DEF Compile_DSUB, Compile_DSUBU

LEMMA Compile_DSLL_Ends ==
    ASSUME NEW n, Idle(n), NEW rd \in Guest, NEW rt \in Guest, NEW sa
    PROVE  /\ Ends(n, Compile_DSLL(n, rd, rt, sa), {rd})
           /\ Ends(n, Compile_DSRL(n, rd, rt, sa), {rd})
           /\ Ends(n, Compile_DSRA(n, rd, rt, sa), {rd})
<1>1. Sound(n)
  BY IdleSelf
<1>2. Ends(n, n, {rd})
  BY <1>1, Nothing
<1>3. ASSUME rd # 0, NEW d PROVE Ends(n, SetBoth(Map_GPR_64bit(n, rd, rt), rd, d), {rd})
  BY <1>1, <1>3, IdleSelf, Both64
<1>4. ASSUME NEW d PROVE Ends(n, SetConst(DropMapped(n, rd), rd, d), {rd})
  BY <1>1, LongConstInto
<1>5. ASSUME NEW d, NEW b PROVE Ends(n, Slip(SetConst(DropMapped(n, rd), rd, d), b), {rd})
  BY <1>4, SlipEnds
<1>6. Ends(n, Compile_DSLL(n, rd, rt, sa), {rd})
  BY <1>2, <1>3, <1>5 DEF Compile_DSLL, LongShifted, BothInto
<1>7. Ends(n, Compile_DSRL(n, rd, rt, sa), {rd})
  BY <1>2, <1>3, <1>5 DEF Compile_DSRL, LongShifted, BothInto
<1>8. Ends(n, Compile_DSRA(n, rd, rt, sa), {rd})
  BY <1>2, <1>3, <1>5 DEF Compile_DSRA, LongShifted, BothInto
<1> QED
  BY <1>6, <1>7, <1>8

(* The halves of a register change places.                                 *)
LEMMA SwappedDoes ==
    ASSUME NEW n, Sound(n), NEW r \in Guest \ {0}, n.st[r] = STATE_MAPPED_64
    PROVE  /\ Does(n, Swapped(n, r), {r}) /\ Swapped(n, r).st[r] = STATE_MAPPED_64
           /\ Prots(Swapped(n, r)) = Prots(n)
<1> DEFINE o == Swapped(n, r)
<1>1. /\ DOMAIN o = Fields /\ o.st = n.st /\ o.mapped = n.mapped /\ o.order = n.order /\ o.prot = n.prot
      /\ o.x = n.x /\ o.gpr = n.gpr /\ o.live = n.live /\ o.slip = n.slip /\ o.fault = n.fault
      /\ DOMAIN o.lo = Guest /\ DOMAIN o.hi = Guest
      /\ o.lo[r] = n.hi[r] /\ o.hi[r] = n.lo[r]
      /\ \A q \in Guest \ {r} : o.lo[q] = n.lo[q] /\ o.hi[q] = n.hi[q]
  BY DEF Swapped, Sound, Shape, Fields
<1> HIDE DEF o
<1>2. Shape(o)
  BY <1>1 DEF Sound, Shape
<1>3. HostsOf(n, r) = {n.lo[r], n.hi[r]} /\ HostsOf(o, r) = {n.lo[r], n.hi[r]}
  BY <1>1, StateFacts
<1>4. n.lo[r] \in Host /\ n.hi[r] \in Host /\ n.hi[r] # n.lo[r]
  BY StateFacts DEF Sound, Homes
<1>5. \A q \in Guest \ {r} : Same(n, o, q)
  BY <1>1 DEF Same
<1>6. \A y \in Host : n.mapped[y] = "gpr" <=> y \in HostsOf(o, r) \/ (n.mapped[y] = "gpr" /\ y \notin HostsOf(n, r))
  BY <1>3, <1>4 DEF Sound, Marked
<1>7. \A y \in Host : o.mapped[y] = "gpr" => o.order[y] > 0
  BY <1>1 DEF Sound, Marked
<1>8. Does(n, o, {r})
  BY <1>1, <1>2, <1>3, <1>4, <1>5, <1>6, <1>7, RehostedDoes
<1> QED
  BY <1>1, <1>8 DEF o, Prots

LEMMA OtherDropped ==
    ASSUME NEW n, Sound(n), NEW rd \in Guest, NEW rt \in Guest, IsConst(n, rt), NEW w, NEW d
    PROVE  /\ Ends(n, SetConst32(DropOther(n, rd, rt), rd, w), {rd})
           /\ Ends(n, SetConst(DropOther(n, rd, rt), rd, d), {rd})
<1> DEFINE k == DropOther(n, rd, rt)
<1>1. Ends(n, k, {rd}) /\ ~IsMapped(k, rd)
  <2>1. CASE rt = rd
    <3>1. k = n
      BY <2>1 DEF DropOther
    <3> QED
      BY <2>1, <3>1, Nothing DEF IsMapped
  <2>2. CASE rt # rd
    <3>1. k = Drop(n, rd)
      BY <2>2 DEF DropOther
    <3> QED
      BY <3>1, DropDoes
  <2> QED
    BY <2>1, <2>2
<1> HIDE DEF k
<1>2. Ends(n, SetConst32(k, rd, w), {rd}) /\ Ends(n, SetConst(k, rd, d), {rd})
  BY <1>1, SetConstEnds
<1> QED
  BY <1>2 DEF k

LEMMA LowToHighEnds ==
    ASSUME NEW n, NEW p, NEW rd \in Guest \ {0}, Ends(n, p, {rd}), p.st[rd] = STATE_MAPPED_64, NEW b, NEW d
    PROVE  Ends(n, SetBoth(IF b THEN Swapped(p, rd) ELSE p, rd, d), {rd})
<1> DEFINE q == IF b THEN Swapped(p, rd) ELSE p
           o == SetBoth(q, rd, d)
<1>1. Sound(p) /\ Does(p, p, {rd})
  BY Nothing DEF Ends
<1>2. Does(p, q, {rd}) /\ q.st[rd] = STATE_MAPPED_64
  <2>1. CASE b
    <3>1. Does(p, Swapped(p, rd), {rd}) /\ Swapped(p, rd).st[rd] = STATE_MAPPED_64
      BY <1>1, SwappedDoes
    <3> QED
      BY <2>1, <3>1
  <2>2. CASE ~b
    BY <1>1, <2>2
  <2> QED
    BY <2>1, <2>2
<1> HIDE DEF q
<1>3. Sound(q) /\ Ends(p, q, {rd})
  BY <1>2, DoesEnds
<1>4. Does(q, o, {rd})
  BY <1>2, <1>3, SetBothDoes
<1> HIDE DEF o
<1>5. Ends(q, o, {rd})
  BY <1>4, DoesEnds
<1>6. Ends(n, q, {rd})
  BY <1>3, EndsTrans
<1>7. Ends(n, o, {rd})
  BY <1>5, <1>6, EndsTrans
<1> QED
  BY <1>7 DEF o, q

LEMMA Compile_DSLL32_Ends ==
    ASSUME NEW n, Idle(n), NEW rd \in Guest, NEW rt \in Guest, NEW sa
    PROVE  Ends(n, Compile_DSLL32(n, rd, rt, sa), {rd})
<1> DEFINE k == ProtectGPR(n, rt)
           p == Map_GPR_64bit(k, rd, -1)
<1>1. Sound(n) /\ Room(n, 6) /\ Ends(n, n, {rd})
  BY IdleSelf, Nothing
<1>2. ASSUME IsConst(n, rt), NEW d PROVE Ends(n, SetConst(DropOther(n, rd, rt), rd, d), {rd})
  BY <1>1, <1>2, OtherDropped
<1>3. Ends(n, k, {}) /\ Sound(k) /\ Room(k, 4)
  BY <1>1, ProtectSteps
<1>4. Room(k, 2)
  BY <1>3, SmallerRoom
<1> HIDE DEF k
<1>5. ASSUME rd # 0 PROVE Ends(n, LowToHigh(p, n, rd, rt, sa), {rd})
  <2>1. rd \in Guest \ {0}
    BY <1>5
  <2>2. Does(k, p, {rd}) /\ p.st[rd] = STATE_MAPPED_64
    BY <1>3, <1>4, <2>1, MapGPR64
  <2> HIDE DEF p
  <2>3. Ends(k, p, {rd})
    BY <2>2, DoesEnds
  <2>4. Ends(n, p, {rd})
    BY <1>3, <2>3, EndsTrans
  <2>5. \A b, d : Ends(n, SetBoth(IF b THEN Swapped(p, rd) ELSE p, rd, d), {rd})
    BY <2>1, <2>2, <2>4, LowToHighEnds
  <2> QED
    BY <2>5 DEF LowToHigh
<1> QED
  BY <1>1, <1>2, <1>5 DEF Compile_DSLL32, k

LEMMA HighFirstEnds ==
    ASSUME NEW n, Idle(n), NEW rd \in Guest, NEW rt \in Guest, ~(IsMapped(n, rt) /\ Is32Bit(n, rt)),
           NEW b \in BOOLEAN, NEW w
    PROVE  Fine(n, SetLow(Map_GPR_32bit(HighFirst(ProtectGPR(n, rt), rd, rt), rd, b, -1), rd, w), rd)
<1> DEFINE k == ProtectGPR(n, rt)
           q == HighFirst(k, rd, rt)
           o == SetLow(Map_GPR_32bit(q, rd, b, -1), rd, w)
<1>1. Sound(n) /\ Room(n, 6) /\ ~IsMapped(n, 0)
  BY IdleSelf, HostsInside, ConstantFacts
<1>2. Ends(n, k, {}) /\ Sound(k) /\ Room(k, 4) /\ Does(n, k, {})
  BY <1>1, ProtectSteps
<1>3. Room(k, 1) /\ Same(n, k, rt)
  BY <1>1, <1>2, SmallerRoom, ProtectGPRDoes
<1> HIDE DEF k
<1>4. CASE rt = rd /\ IsMapped(k, rd)
  <2>1. rd \in Guest \ {0} /\ k.st[rd] = STATE_MAPPED_64
    <3>1. IsMapped(n, rd) /\ ~Is32Bit(n, rd)
      BY <1>3, <1>4, SameHosts
    <3>2. n.st[rd] = STATE_MAPPED_64
      BY <1>1, <3>1, MappedStates, Narrow32Facts, HostsInside
    <3> QED
      BY <1>1, <1>3, <1>4, <3>1, <3>2 DEF Same
  <2>2. q = Swapped(k, rd)
    BY <1>4 DEF HighFirst
  <2>3. Does(k, q, {rd}) /\ q.st[rd] = STATE_MAPPED_64
    BY <1>2, <2>1, <2>2, SwappedDoes
  <2> HIDE DEF q
  <2>4. Sound(q) /\ IsMapped(q, rd) /\ Ends(k, q, {rd})
    BY <2>3, StateFacts, DoesEnds
  <2>5. Fine(q, o, rd)
    BY <2>4, Fine32
  <2> HIDE DEF o
  <2>6. Ends(q, o, {rd})
    BY <2>1, <2>5, FineFacts
  <2>7. Ends(n, q, {rd})
    BY <1>2, <2>4, EndsTrans
  <2>8. Ends(n, o, {rd})
    BY <2>6, <2>7, EndsTrans
  <2>9. Fine(n, o, rd)
    BY <2>8, FineFacts
  <2> QED
    BY <2>9 DEF o, q, k
<1>5. CASE ~(rt = rd /\ IsMapped(k, rd))
  <2>1. q = k
    BY <1>5 DEF HighFirst
  <2>2. Fine(n, SetLow(Map_GPR_32bit(k, rd, b, -1), rd, w), rd)
    BY <1>2, <1>3, FineLow
  <2> QED
    BY <2>1, <2>2 DEF k
<1> QED
  BY <1>4, <1>5

LEMMA Compile_DSRL32_Ends ==
    ASSUME NEW n, Idle(n), NEW rd \in Guest, NEW rt \in Guest, NEW sa
    PROVE  /\ Ends(n, Compile_DSRL32(n, rd, rt, sa), {rd})
           /\ Ends(n, Compile_DSRA32(n, rd, rt, sa), {rd})
<1> DEFINE k == ProtectGPR(n, rt)
<1>1. Sound(n) /\ Room(n, 6)
  BY IdleSelf
<1>2. Ends(n, k, {}) /\ Sound(k)
  BY <1>1, ProtectSteps
<1> HIDE DEF k
<1>3. Ends(n, UnknownOpcode(k), {rd})
  <2>1. Ends(k, UnknownOpcode(k), {rd})
    BY <1>2, Unknown
  <2> QED
    BY <1>2, <2>1, EndsTrans
<1>4. ASSUME IsConst(n, rt), NEW w, NEW c PROVE Ends(n, Slip(SetConst32(DropOther(n, rd, rt), rd, w), c), {rd})
  BY <1>1, <1>4, OtherDropped, SlipEnds
<1> DEFINE o(b, w) == SetLow(Map_GPR_32bit(HighFirst(k, rd, rt), rd, b, -1), rd, w)
<1>5. ASSUME ~(IsMapped(n, rt) /\ Is32Bit(n, rt)), NEW b \in BOOLEAN, NEW w PROVE Fine(n, o(b, w), rd)
  BY <1>5, HighFirstEnds DEF k
<1> HIDE DEF o
<1>6. ASSUME ~(IsMapped(n, rt) /\ Is32Bit(n, rt)), NEW b \in BOOLEAN, NEW w
      PROVE  Ends(n, Slip(o(b, w), rd = 0), {rd})
  BY <1>5, <1>6, FineSlip
<1>7. Ends(n, Compile_DSRL32(n, rd, rt, sa), {rd})
  BY <1>3, <1>4, <1>6 DEF Compile_DSRL32, HighShifted, o, k
<1>8. Ends(n, Compile_DSRA32(n, rd, rt, sa), {rd})
  BY <1>3, <1>4, <1>6 DEF Compile_DSRA32, HighShifted, o, k
<1> QED
  BY <1>7, <1>8

---------------------------------------------------------------------------
\* Addresses.

(* The address is in a temporary that stays; beside it only the registers  *)
(* of the base may have been protected.                                    *)
Addressed(n, base, t) ==
    /\ Does(n, t, {}) /\ Ends(n, t, {}) /\ Sound(t)
    /\ t.reg \in Host /\ t.mapped[t.reg] = "temp" /\ t.prot[t.reg]
    /\ Prots(t) \ HostsOf(t, base) \subseteq Prots(n) \cup {t.reg}
    /\ Room(n, 6) => Room(t, 3)
    /\ Room(n, 5) => Room(t, 2)
    /\ Room(n, 4) => Room(t, 1)
LEMMA AddressInDoes ==
    ASSUME NEW n, Sound(n), Room(n, 3), NEW base \in Guest, NEW offset
    PROVE  Addressed(n, base, AddressIn(n, base, offset))
<1> DEFINE load == IF IsMapped(n, base) /\ offset # 0 THEN -1 ELSE base
           p == ProtectGPR(n, base)
           t == Map_TempReg(p, AnyHost, load, FALSE)
           o == SetX86(t, t.reg, AddressNow(t, base, offset))
<1>1. AddressIn(n, base, offset) = o
  BY DEF AddressIn, AddressSet
<1>2. /\ Does(n, p, {}) /\ Ends(n, p, {}) /\ Sound(p)
      /\ IsMapped(n, base) => Pinned(p, base)
      /\ Room(n, 6) => Room(p, 4)
      /\ Room(n, 5) => Room(p, 3)
      /\ Room(n, 4) => Room(p, 2)
      /\ Room(p, 1)
  BY ProtectSteps
<1>3. Prots(p) = Prots(n) \cup HostsOf(n, base)
  BY ProtectGPRDoes
<1>11. IsMapped(n, base) => HostsOf(p, base) = HostsOf(n, base)
  BY ProtectGPRDoes
<1> HIDE DEF p, load
<1>4. TempFrom(p, AnyHost, t)
  BY <1>2, AnyTemp
<1> HIDE DEF t
<1>5. /\ Does(p, t, {}) /\ Ends(p, t, {}) /\ Sound(t) /\ Temp(t) /\ t.reg \in Host /\ t.mapped[t.reg] # "gpr"
      /\ Prots(t) \subseteq Prots(p) \cup {t.reg}
  BY <1>4, TempFacts
<1>6. /\ Room(p, 4) => Room(t, 3)
      /\ Room(p, 3) => Room(t, 2)
      /\ Room(p, 2) => Room(t, 1)
  BY <1>4 DEF TempFrom
<1>7. /\ Does(t, o, {}) /\ Ends(t, o, {}) /\ Sound(o) /\ Prots(o) = Prots(t) /\ o.reg = t.reg
      /\ o.mapped = t.mapped /\ o.prot = t.prot
      /\ \A q : Same(t, o, q)
  BY <1>5, TempSet
<1> HIDE DEF o
<1>8. Does(n, o, {}) /\ Ends(n, o, {})
  <2>1. Does(p, o, {})
    BY <1>5, <1>7, DoesTrans
  <2>2. Does(n, o, {})
    BY <1>2, <2>1, DoesTrans
  <2> QED
    BY <2>2, DoesEnds
<1>9. Prots(o) \ HostsOf(o, base) \subseteq Prots(n) \cup {o.reg}
  <2>1. CASE IsMapped(n, base)
    <3>1. Same(p, t, base)
      BY <1>2, <1>5, <2>1 DEF Does, Frame
    <3>2. HostsOf(o, base) = HostsOf(p, base)
      BY <1>7, <3>1, SameHosts
    <3> QED
      BY <1>3, <1>5, <1>7, <1>11, <2>1, <3>2
  <2>2. CASE ~IsMapped(n, base)
    BY <1>3, <1>5, <1>7, <2>2 DEF HostsOf
  <2> QED
    BY <2>1, <2>2
<1>10. /\ Room(n, 6) => Room(o, 3)
       /\ Room(n, 5) => Room(o, 2)
       /\ Room(n, 4) => Room(o, 1)
  BY <1>2, <1>6, <1>7 DEF Room
<1> QED
  BY <1>1, <1>5, <1>7, <1>8, <1>9, <1>10 DEF Addressed, Temp

(* The address of an access without an offset may be in a guest register.  *)
Reaching(n, t) ==
    /\ Does(n, t, {}) /\ Ends(n, t, {}) /\ Sound(t)
    /\ Room(n, 6) => Room(t, 3)
    /\ Room(n, 5) => Room(t, 2)
    /\ Room(n, 4) => Room(t, 1)
LEMMA AddressOfDoes ==
    ASSUME NEW n, Sound(n), Room(n, 3), NEW base \in Guest, NEW offset
    PROVE  /\ Reaching(n, AddressIn(n, base, offset))
           /\ Reaching(n, AddressOf(n, base, offset))
<1> DEFINE p == ProtectGPR(n, base)
           o == Returning(p, n.lo[base])
<1>1. Reaching(n, AddressIn(n, base, offset))
  BY AddressInDoes DEF Reaching, Addressed
<1>2. /\ Does(n, p, {}) /\ Sound(p)
      /\ Room(n, 6) => Room(p, 4)
      /\ Room(n, 5) => Room(p, 3)
      /\ Room(n, 4) => Room(p, 2)
  BY ProtectSteps
<1> HIDE DEF p
<1>3. Does(p, o, {}) /\ Prots(o) = Prots(p)
  BY <1>2, ReturningDoes
<1> HIDE DEF o
<1>4. Does(n, o, {})
  BY <1>2, <1>3, DoesTrans
<1>5. Ends(n, o, {}) /\ Sound(o)
  BY <1>4, DoesEnds
<1>6. /\ Room(p, 4) => Room(o, 4)
      /\ Room(p, 3) => Room(o, 3)
      /\ Room(p, 2) => Room(o, 2)
  BY <1>3 DEF Room
<1>7. Reaching(n, o)
  BY <1>2, <1>4, <1>5, <1>6, SmallerRoom DEF Reaching
<1>8. CASE IsMapped(n, base) /\ offset = 0
  <2>1. AddressOf(n, base, offset) = o
    BY <1>8 DEF AddressOf, o, p
  <2> QED
    BY <1>1, <1>7, <2>1
<1>9. CASE ~(IsMapped(n, base) /\ offset = 0)
  <2>1. AddressOf(n, base, offset) = AddressIn(n, base, offset)
    BY <1>9 DEF AddressOf
  <2> QED
    BY <1>1, <2>1
<1> QED
  BY <1>8, <1>9

LEMMA LookUpDoes ==
    ASSUME NEW n, Sound(n), Room(n, 1)
    PROVE  TempFrom(n, AnyHost, LookUp(n))
<1> DEFINE t == Map_TempReg(n, AnyHost, -1, FALSE)
           o == SetX86(t, t.reg, 0)
<1>1. TempFrom(n, AnyHost, t)
  BY AnyTemp
<1> HIDE DEF t
<1>2. /\ Does(n, t, {}) /\ Sound(t) /\ Temp(t) /\ t.reg \in Host /\ t.mapped[t.reg] # "gpr"
      /\ Prots(t) \subseteq Prots(n) \cup {t.reg}
  BY <1>1, TempFacts
<1>3. /\ Does(t, o, {}) /\ Ends(t, o, {}) /\ Sound(o) /\ Prots(o) = Prots(t) /\ o.reg = t.reg
      /\ o.mapped = t.mapped /\ o.prot = t.prot
      /\ o.slip = t.slip /\ o.fault = t.fault
  BY <1>2, TempSet
<1> HIDE DEF o
<1>4. Does(n, o, {})
  BY <1>2, <1>3, DoesTrans
<1>5. Ends(n, o, {})
  BY <1>4, DoesEnds
<1>6. /\ Room(n, 6) => Room(o, 5)
      /\ Room(n, 5) => Room(o, 4)
      /\ Room(n, 4) => Room(o, 3)
      /\ Room(n, 3) => Room(o, 2)
      /\ Room(n, 2) => Room(o, 1)
  BY <1>1, <1>3 DEF TempFrom, Room
<1>7. AnyHost \notin Host
  BY DEF AnyHost, Host, EAX, ECX, EDX, EBX, ESI, EDI
<1>8. o.slip = n.slip /\ o.fault = n.fault
  BY <1>1, <1>3 DEF TempFrom
<1>9. TempFrom(n, AnyHost, o)
  BY <1>2, <1>3, <1>4, <1>5, <1>6, <1>7, <1>8 DEF TempFrom, Temp
<1>10. LookUp(n) = o
  BY DEF LookUp, EntryOf, o, t
<1> QED
  BY <1>9, <1>10

(* rt has its x86 registers, or there are enough for it.                   *)
Reached(n, o, rt) ==
    /\ Ends(n, o, {}) /\ Sound(o)
    /\ \/ Pinned(o, rt) /\ o.st[rt] = STATE_MAPPED_64
       \/ Pinned(o, rt) /\ Room(o, 1)
       \/ Room(o, 2)
LEMMA LookedUp ==
    ASSUME NEW n, Idle(n), NEW rt \in Guest, NEW t, Reaching(ProtectGPR(n, rt), t)
    PROVE  Reached(n, LookUp(t), rt)
<1> DEFINE k == ProtectGPR(n, rt)
           u == LookUp(t)
<1>1. Sound(n) /\ Room(n, 6)
  BY IdleSelf
<1>2. Ends(n, k, {}) /\ Sound(k) /\ Room(k, 4) /\ (IsMapped(n, rt) => Pinned(k, rt))
  BY <1>1, ProtectSteps
<1>3. Same(n, k, rt) /\ Prots(k) = Prots(n) \cup HostsOf(n, rt)
  BY <1>1, ProtectGPRDoes
<1>4. Is32Bit(n, rt) => Room(k, 5)
  <2>1. \A j \in Nat : Is32Bit(n, rt) => (Room(n, j + 1) => Room(k, j))
    BY <1>1, ProtectGPRDoes
  <2>2. 5 \in Nat /\ 5 + 1 = 6
    OBVIOUS
  <2>3. Is32Bit(n, rt) => (Room(n, 5 + 1) => Room(k, 5))
    BY <2>1, <2>2
  <2> QED
    BY <1>1, <2>2, <2>3
<1>5. ~IsMapped(n, rt) => Room(k, 6)
  <2>1. ~IsMapped(n, rt) => Prots(k) = Prots(n)
    BY <1>3 DEF HostsOf
  <2> QED
    BY <1>1, <2>1 DEF Room
<1> HIDE DEF k
<1>6. /\ Does(k, t, {}) /\ Ends(k, t, {}) /\ Sound(t)
      /\ Room(k, 6) => Room(t, 3)
      /\ Room(k, 5) => Room(t, 2)
      /\ Room(t, 1)
  BY <1>2 DEF Reaching, k
<1>7. TempFrom(t, AnyHost, u)
  BY <1>6, LookUpDoes
<1> HIDE DEF u
<1>8. Does(t, u, {}) /\ Ends(t, u, {}) /\ Sound(u)
  BY <1>7, TempFacts
<1>9. (Room(t, 3) => Room(u, 2)) /\ (Room(t, 2) => Room(u, 1))
  BY <1>7 DEF TempFrom
<1>10. Does(k, u, {}) /\ Ends(n, u, {})
  <2>1. Does(k, u, {})
    BY <1>6, <1>8, DoesTrans
  <2>2. Ends(k, u, {})
    BY <2>1, DoesEnds
  <2> QED
    BY <1>2, <2>1, <2>2, EndsTrans
<1>11. IsMapped(n, rt) => Pinned(u, rt) /\ Same(k, u, rt)
  BY <1>2, <1>10 DEF Does, Frame
<1>12. CASE ~IsMapped(n, rt)
  BY <1>5, <1>6, <1>8, <1>9, <1>10, <1>12 DEF Reached, u
<1>13. CASE IsMapped(n, rt) /\ Is32Bit(n, rt)
  BY <1>4, <1>6, <1>8, <1>9, <1>10, <1>11, <1>13 DEF Reached, u
<1>14. CASE IsMapped(n, rt) /\ ~Is32Bit(n, rt)
  <2>1. n.st[rt] = STATE_MAPPED_64
    BY <1>1, <1>14, MappedStates, Narrow32Facts, HostsInside
  <2>2. u.st[rt] = STATE_MAPPED_64
    BY <1>3, <1>11, <1>14, <2>1 DEF Same
  <2> QED
    BY <1>8, <1>10, <1>11, <1>14, <2>2 DEF Reached, u
<1> QED
  BY <1>12, <1>13, <1>14

(* What a load may do with such a machine.                                 *)
LEMMA ReachedFine ==
    ASSUME NEW n, NEW o, NEW rt \in Guest \ {0}, Reached(n, o, rt)
    PROVE  /\ \A b \in BOOLEAN : \A w : Ends(n, SetLow(Map_GPR_32bit(o, rt, b, -1), rt, w), {rt})
           /\ \A d : Ends(n, SetBoth(Map_GPR_64bit(o, rt, -1), rt, d), {rt})
<1>1. Ends(n, o, {}) /\ Sound(o) /\ rt # 0
  BY DEF Reached
<1>2. IsMapped(o, rt) \/ Room(o, 1)
  BY SmallerRoom DEF Reached, Pinned
<1>3. o.st[rt] = STATE_MAPPED_64 \/ Room(o, 2) \/ (Pinned(o, rt) /\ Room(o, 1))
  BY DEF Reached
<1>4. ASSUME NEW b \in BOOLEAN, NEW w PROVE Ends(n, SetLow(Map_GPR_32bit(o, rt, b, -1), rt, w), {rt})
  <2> DEFINE p == SetLow(Map_GPR_32bit(o, rt, b, -1), rt, w)
  <2>1. Fine(o, p, rt)
    BY <1>1, <1>2, Fine32
  <2> HIDE DEF p
  <2>2. Fine(n, p, rt)
    BY <1>1, <2>1, FineAfter
  <2>3. Ends(n, p, {rt})
    BY <1>1, <2>2, FineFacts
  <2> QED
    BY <2>3 DEF p
<1>5. ASSUME NEW d PROVE Ends(n, SetBoth(Map_GPR_64bit(o, rt, -1), rt, d), {rt})
  <2> DEFINE p == SetBoth(Map_GPR_64bit(o, rt, -1), rt, d)
  <2>1. Fine(o, p, rt)
    BY <1>1, <1>3, Fine64
  <2> HIDE DEF p
  <2>2. Fine(n, p, rt)
    BY <1>1, <2>1, FineAfter
  <2>3. Ends(n, p, {rt})
    BY <1>1, <2>2, FineFacts
  <2> QED
    BY <2>3 DEF p
<1> QED
  BY <1>4, <1>5

(* The test of a page: it goes on as it was, or with all written back.     *)
LEMMA MissEnds ==
    ASSUME NEW n, Sound(n), NEW y
    PROVE  LET o == CompileReadTLBMiss(n, y) IN Ends(n, o, {}) /\ (o = n \/ Idle(o))
<1> DEFINE w == WriteBackRegisters(n)
           p == [w EXCEPT !.missed = Content(n, y)]
<1>1. Ends(n, w, {}) /\ Prots(w) = {}
  BY WriteBackEnds
<1> HIDE DEF w
<1>2. Sound(w)
  BY <1>1 DEF Ends
<1>3. Beside(w, p)
  BY <1>2 DEF Beside, Sound, Shape, Fields
<1> HIDE DEF p
<1>4. Ends(w, p, {}) /\ Prots(p) = {}
  BY <1>1, <1>2, <1>3, BesideDoes
<1>5. Ends(n, p, {}) /\ Idle(p)
  BY <1>1, <1>4, EndsTrans DEF Idle, Ends
<1>6. Ends(n, n, {})
  BY Nothing
<1> QED
  BY <1>5, <1>6 DEF CompileReadTLBMiss, p, w

LEMMA Retested ==
    ASSUME NEW n, NEW u, NEW rt, Reached(n, u, rt), NEW y
    PROVE  LET q == CompileReadTLBMiss(u, y) IN Reached(n, q, rt) /\ Ends(n, q, {})
<1> DEFINE q == CompileReadTLBMiss(u, y)
<1>1. Ends(n, u, {}) /\ Sound(u)
  BY DEF Reached
<1>2. Ends(u, q, {}) /\ (q = u \/ Idle(q))
  BY <1>1, MissEnds
<1> HIDE DEF q
<1>3. Ends(n, q, {})
  BY <1>1, <1>2, EndsTrans
<1>4. Idle(q) => Room(q, 2) /\ Sound(q)
  BY IdleSelf
<1>5. Reached(n, q, rt)
  BY <1>2, <1>3, <1>4 DEF Reached
<1> QED
  BY <1>3, <1>5 DEF q

(* Loads from an address that is known.                                    *)
LEMMA LoadConstEnds ==
    ASSUME NEW n, Idle(n), NEW rt \in Guest \ {0}, NEW a, NEW k, NEW b \in BOOLEAN, NEW load
    PROVE  Ends(n, LoadConst(n, rt, a, k, b, load), {rt})
<1> DEFINE o(w) == SetLow(Map_GPR_32bit(n, rt, b, load), rt, w)
<1>1. Sound(n) /\ Room(n, 1)
  BY IdleSelf
<1>2. \A w : Ends(n, o(w), {rt})
  BY <1>1, Low32
<1> HIDE DEF o
<1>3. \A w, c : Ends(n, Slip(o(w), c), {rt})
  BY <1>2, SlipEnds
<1> QED
  BY <1>3 DEF LoadConst, o

LEMMA LoadAddress ==
    ASSUME NEW n, Idle(n), NEW rt \in Guest, NEW base \in Guest, NEW offset
    PROVE  /\ Reached(n, LookUp(AddressIn(ProtectGPR(n, rt), base, offset)), rt)
           /\ Reached(n, LookUp(AddressOf(ProtectGPR(n, rt), base, offset)), rt)
<1> DEFINE k == ProtectGPR(n, rt)
<1>1. Sound(n) /\ Room(n, 6)
  BY IdleSelf
<1>2. Sound(k) /\ Room(k, 4)
  BY <1>1, ProtectSteps
<1>3. Room(k, 3)
  BY <1>2, SmallerRoom
<1> HIDE DEF k
<1>4. Reaching(k, AddressIn(k, base, offset)) /\ Reaching(k, AddressOf(k, base, offset))
  BY <1>2, <1>3, AddressOfDoes
<1> QED
  BY <1>4, LookedUp DEF k

LEMMA NarrowLoadedEnds ==
    ASSUME NEW n, NEW q, NEW rt \in Guest \ {0}, Reached(n, q, rt), NEW t1, NEW t2, NEW k, NEW first, NEW b \in BOOLEAN
    PROVE  Ends(n, NarrowLoaded(q, rt, t1, t2, k, first, b), {rt})
<1> DEFINE o(w) == SetLow(Map_GPR_32bit(q, rt, b, -1), rt, w)
<1>1. \A w : Ends(n, o(w), {rt})
  BY ReachedFine
<1> HIDE DEF o
<1>2. \A w, c : Ends(n, Slip(o(w), c), {rt})
  BY <1>1, SlipEnds
<1> QED
  BY <1>2 DEF NarrowLoaded, NarrowReadAt, NarrowRead, o

LEMMA LoadNarrowEnds ==
    ASSUME NEW n, Idle(n), NEW rt \in Guest, NEW base \in Guest, NEW offset, NEW k, NEW first, NEW b \in BOOLEAN
    PROVE  Ends(n, LoadNarrow(n, rt, base, offset, k, first, b), {rt})
<1> DEFINE t == AddressIn(ProtectGPR(n, rt), base, offset)
           u == LookUp(t)
           q == CompileReadTLBMiss(u, t.reg)
<1>1. ASSUME NEW c PROVE Ends(n, Slip(n, c), {rt})
  BY IdleSelf, Nothing, SlipEnds
<1>2. ASSUME rt # 0, NEW a PROVE Ends(n, LoadConst(n, rt, a, k, b, 0), {rt})
  BY <1>2, LoadConstEnds
<1>3. Reached(n, u, rt)
  BY LoadAddress
<1> HIDE DEF t, u
<1>4. Reached(n, q, rt) /\ Ends(n, q, {})
  BY <1>3, Retested
<1> HIDE DEF q
<1>5. Ends(n, q, {rt})
  BY <1>4, Wider
<1>6. ASSUME rt # 0 PROVE Ends(n, NarrowLoaded(q, rt, t.reg, u.reg, k, first, b), {rt})
  BY <1>4, <1>6, NarrowLoadedEnds
<1> QED
  BY <1>1, <1>2, <1>5, <1>6 DEF LoadNarrow, LoadThrough, LoadTested, LoadUnless, q, u, t

LEMMA Compile_LB_Ends ==
    ASSUME NEW n, Idle(n), NEW rt \in Guest, NEW base \in Guest, NEW offset
    PROVE  /\ Ends(n, Compile_LB(n, rt, base, offset), {rt})
           /\ Ends(n, Compile_LH(n, rt, base, offset), {rt})
           /\ Ends(n, Compile_LBU(n, rt, base, offset), {rt})
           /\ Ends(n, Compile_LHU(n, rt, base, offset), {rt})
           /\ Ends(n, Compile_LWU(n, rt, base, offset), {rt})
<1>1. \A k, first : \A b \in BOOLEAN : Ends(n, LoadNarrow(n, rt, base, offset, k, first, b), {rt})
  BY LoadNarrowEnds
<1>2. TRUE \in BOOLEAN /\ FALSE \in BOOLEAN
  OBVIOUS
<1>3. Ends(n, Compile_LB(n, rt, base, offset), {rt})
  BY <1>1, <1>2, Zenon DEF Compile_LB
<1>4. Ends(n, Compile_LH(n, rt, base, offset), {rt})
  BY <1>1, <1>2, Zenon DEF Compile_LH
<1>5. Ends(n, Compile_LBU(n, rt, base, offset), {rt})
  BY <1>1, <1>2, Zenon DEF Compile_LBU
<1>6. Ends(n, Compile_LHU(n, rt, base, offset), {rt})
  BY <1>1, <1>2, Zenon DEF Compile_LHU
<1>7. Ends(n, Compile_LWU(n, rt, base, offset), {rt})
  BY <1>1, <1>2, Zenon DEF Compile_LWU
<1> QED
  BY <1>3, <1>4, <1>5, <1>6, <1>7

LEMMA LinkingEnds ==
    ASSUME NEW n, NEW k, NEW R, Ends(n, k, R)
    PROVE  Ends(n, Linking(k), R)
<1> DEFINE o == Linking(k)
<1>1. Sound(k)
  BY DEF Ends
<1>2. Beside(k, o)
  BY <1>1 DEF Linking, Beside, Sound, Shape, Fields
<1> HIDE DEF o
<1>3. Ends(k, o, {})
  BY <1>1, <1>2, BesideDoes
<1>4. Ends(n, o, R)
  BY <1>3, EndsTrans
<1> QED
  BY <1>4 DEF o

LEMMA Compile_LL_Ends ==
    ASSUME NEW n, Idle(n), NEW rt \in Guest, NEW base \in Guest, NEW offset
    PROVE  Ends(n, Compile_LL(n, rt, base, offset), {rt})
<1> DEFINE t == AddressOf(ProtectGPR(n, rt), base, offset)
           u == LookUp(t)
           q == CompileReadTLBMiss(u, t.reg)
<1>1. Ends(n, n, {rt})
  BY IdleSelf, Nothing
<1> DEFINE v(a) == LoadConst(n, rt, a, 4, TRUE, -1)
<1>2. ASSUME rt # 0, NEW a PROVE Ends(n, Linking(v(a)), {rt})
  <2>1. Ends(n, v(a), {rt})
    BY <1>2, LoadConstEnds
  <2> HIDE DEF v
  <2> QED
    BY <2>1, LinkingEnds
<1>3. Reached(n, u, rt)
  BY LoadAddress
<1> HIDE DEF t, u, v
<1>4. Reached(n, q, rt) /\ Ends(n, q, {})
  BY <1>3, Retested
<1> HIDE DEF q
<1>5. Ends(n, q, {rt})
  BY <1>4, Wider
<1> DEFINE o(w) == SetLow(Map_GPR_32bit(q, rt, TRUE, -1), rt, w)
<1>6. ASSUME rt # 0, NEW w PROVE Ends(n, Linking(o(w)), {rt})
  <2>1. Ends(n, o(w), {rt})
    BY <1>4, <1>6, ReachedFine
  <2> HIDE DEF o
  <2> QED
    BY <2>1, LinkingEnds
<1> HIDE DEF o
<1>7. ASSUME rt # 0 PROVE Ends(n, LinkLoaded(q, rt, t.reg, u.reg), {rt})
  BY <1>6, <1>7 DEF LinkLoaded, WordRead, o
<1> QED
  BY <1>1, <1>2, <1>5, <1>7 DEF Compile_LL, LoadThrough, LoadTested, LoadUnless, q, u, t, v

(* A word is loaded to a register that was mapped before the test.         *)
LEMMA WordLookedUpEnds ==
    ASSUME NEW n, NEW u, NEW rt \in Guest \ {0}, Reached(n, u, rt), NEW b \in BOOLEAN, NEW t1, NEW t2
    PROVE  Ends(n, WordTested(Map_GPR_32bit(u, rt, b, -1), n, rt, t1, t2), {rt})
<1> DEFINE p == Map_GPR_32bit(u, rt, b, -1)
           q == CompileReadTLBMiss(p, t1)
           o == WordRead(p, rt, t1, t2)
<1>1. Ends(n, u, {}) /\ Sound(u)
  BY DEF Reached
<1>2. IsMapped(u, rt) \/ Room(u, 1)
  BY SmallerRoom DEF Reached, Pinned
<1>3. Does(u, p, {rt}) /\ Pinned(p, rt)
  BY <1>1, <1>2, MapGPR32
<1> HIDE DEF p
<1>4. Sound(p) /\ Ends(u, p, {rt}) /\ IsMapped(p, rt)
  BY <1>3, DoesEnds DEF Pinned
<1>5. Ends(n, p, {rt})
  BY <1>1, <1>4, EndsTrans
<1>6. Ends(p, q, {})
  BY <1>4, MissEnds
<1> HIDE DEF q
<1>7. Ends(n, q, {rt})
  BY <1>5, <1>6, EndsTrans
<1>8. Does(p, o, {rt})
  BY <1>4, SetLowDoes DEF WordRead
<1> HIDE DEF o
<1>9. Ends(p, o, {rt})
  BY <1>8, DoesEnds
<1>10. Ends(n, o, {rt})
  BY <1>5, <1>9, EndsTrans
<1>11. \A c : Ends(n, Slip(q, c), {rt})
  BY <1>7, SlipEnds
<1> QED
  BY <1>10, <1>11 DEF WordTested, WordUnless, o, q, p

LEMMA Compile_LW_Ends ==
    ASSUME NEW n, Idle(n), NEW rt \in Guest, NEW base \in Guest, NEW offset
    PROVE  Ends(n, Compile_LW(n, rt, base, offset), {rt})
<1> DEFINE t == AddressOf(ProtectGPR(n, rt), base, offset)
           u == LookUp(t)
           v == LoadConst(n, rt, AddressNow(n, base, offset), 4, TRUE, -1)
           w == WordTested(Map_GPR_32bit(u, rt, TRUE, -1), n, rt, t.reg, u.reg)
<1>1. Ends(n, n, {rt})
  BY IdleSelf, Nothing
<1>2. ASSUME rt # 0 PROVE Ends(n, v, {rt})
  BY <1>2, LoadConstEnds
<1>3. Reached(n, u, rt)
  BY LoadAddress
<1> HIDE DEF t, u
<1>4. ASSUME rt # 0 PROVE Ends(n, w, {rt})
  BY <1>3, <1>4, WordLookedUpEnds
<1>5. Compile_LW(n, rt, base, offset) =
          IF rt = 0 THEN n ELSE IF IsConst(n, base) THEN v ELSE w
  BY Zenon DEF Compile_LW, WordThrough, WordLookedUp, t, u
<1> HIDE DEF v, w
<1> QED
  BY <1>1, <1>2, <1>4, <1>5

(* What a store does, and a load that finds nothing: nothing to the cache. *)
Stores(n, o) ==
    /\ Does(n, o, {}) /\ Ends(n, o, {}) /\ Sound(o)
    /\ o.mapped = n.mapped /\ o.prot = n.prot /\ o.reg = n.reg /\ Prots(o) = Prots(n)
LEMMA BesideStores ==
    ASSUME NEW n, Sound(n), NEW o, Beside(n, o), o.reg = n.reg
    PROVE  Stores(n, o)
BY BesideDoes DEF Stores, Beside, Does

LEMMA WildStores ==
    ASSUME NEW n, Sound(n), NEW a
    PROVE  Stores(n, Wild(n, a))
<1> DEFINE o == Slip(Fault(n, "wild access"), TRUE)
<1>1. /\ DOMAIN o = Fields /\ o.st = n.st /\ o.mapped = n.mapped /\ o.order = n.order /\ o.prot = n.prot
      /\ o.x = n.x /\ o.gpr = n.gpr /\ o.live = n.live /\ o.lo = n.lo /\ o.hi = n.hi /\ o.reg = n.reg
  BY DEF Slip, Fault, Sound, Shape, Fields
<1>2. o.slip = TRUE
  BY DEF Slip, Fault, Sound, Shape, Fields
<1> HIDE DEF o
<1>3. Sound(o) /\ Prots(o) = Prots(n)
  <2>1. CacheAs(n, o)
    BY <1>1, <1>2 DEF CacheAs, Sound, Shape
  <2> QED
    BY <2>1, CacheAsSound
<1>4. Effect(n, o, {})
  BY <1>1, <1>2 DEF Effect
<1>5. Frame(n, o, {})
  <2>1. \A q : Same(n, o, q)
    BY <1>1 DEF Same
  <2>2. \A q : Pinned(n, q) => Pinned(o, q)
    BY <1>3, <2>1, SameHosts DEF Pinned
  <2> QED
    BY <1>1, <2>1, <2>2 DEF Frame
<1>6. Stores(n, o)
  BY <1>1, <1>3, <1>4, <1>5 DEF Stores, Does, Ends
<1>7. Stores(n, n)
  BY Nothing DEF Stores
<1> QED
  BY <1>6, <1>7 DEF Wild, o

LEMMA WriteStores ==
    ASSUME NEW n, Sound(n), NEW a, NEW k, NEW v
    PROVE  Stores(n, Write(n, a, k, v))
<1> DEFINE o == [n EXCEPT !.mem = HostWrite(n.mem, Flip(a, k), k, v)]
<1>1. Beside(n, o) /\ o.reg = n.reg
  BY DEF Beside, Sound, Shape, Fields
<1>2. Write(n, a, k, v) \in {n, o}
  BY DEF Write, Stored, o
<1> HIDE DEF o
<1>3. Stores(n, o)
  BY <1>1, BesideStores
<1>4. Stores(n, n)
  BY Nothing DEF Stores
<1> QED
  BY <1>2, <1>3, <1>4

LEMMA WriteWildStores ==
    ASSUME NEW n, Sound(n), NEW c, NEW a, NEW k, NEW v
    PROVE  Stores(n, Write(Wild(n, c), a, k, v))
<1> DEFINE w == Wild(n, c)
           o == Write(w, a, k, v)
<1>1. Stores(n, w)
  BY WildStores
<1> HIDE DEF w
<1>2. Stores(w, o)
  BY <1>1, WriteStores DEF Stores
<1> HIDE DEF o
<1>3. Does(n, w, {}) /\ Does(w, o, {})
  BY <1>1, <1>2 DEF Stores
<1>4. Does(n, o, {})
  BY <1>3, DoesTrans
<1>5. Ends(n, o, {})
  BY <1>4, DoesEnds
<1>6. Stores(n, o)
  BY <1>1, <1>2, <1>4, <1>5 DEF Stores
<1> QED
  BY <1>6 DEF o, w

LEMMA Compile_LD_Ends ==
    ASSUME NEW n, Idle(n), NEW rt \in Guest, NEW base \in Guest, NEW offset
    PROVE  Ends(n, Compile_LD(n, rt, base, offset), {rt})
<1> DEFINE t == AddressOf(ProtectGPR(n, rt), base, offset)
           u == LookUp(t)
           p == Map_GPR_64bit(u, rt, -1)
<1>1. Ends(n, n, {rt}) /\ Sound(n) /\ Room(n, 2)
  BY IdleSelf, Nothing
<1>2. ASSUME rt # 0, NEW a PROVE Ends(n, LongConst(n, rt, a), {rt})
  <2> DEFINE o == SetBoth(Map_GPR_64bit(n, rt, -1), rt, LongAt(n, a))
  <2>1. Ends(n, o, {rt})
    BY <1>1, <1>2, Both64
  <2> HIDE DEF o
  <2>2. \A c : Ends(n, Slip(o, c), {rt})
    BY <2>1, SlipEnds
  <2> QED
    BY <2>2 DEF LongConst, o
<1>3. Reached(n, u, rt)
  BY LoadAddress
<1> HIDE DEF t, u
<1>4. Sound(u) /\ Ends(n, u, {})
  BY <1>3 DEF Reached
<1>5. ASSUME NEW a PROVE Ends(n, Wild(u, a), {rt})
  <2> DEFINE o == Wild(u, a)
  <2>1. Ends(u, o, {})
    BY <1>4, WildStores DEF Stores
  <2> HIDE DEF o
  <2>2. Ends(n, o, {rt})
    BY <1>4, <2>1, EndsTrans
  <2> QED
    BY <2>2 DEF o
<1>6. ASSUME rt # 0, NEW y PROVE Ends(n, LowRead(HighRead(p, rt, y, u.reg), rt, y, u.reg), {rt})
  <2>1. \A d : Ends(n, SetBoth(p, rt, d), {rt})
    BY <1>3, <1>6, ReachedFine
  <2> HIDE DEF p
  <2> DEFINE h == WordAt(p, HostAddress(p, y, u.reg))
             k == SetHigh(p, rt, h)
             l == WordAt(k, Aligned(Wrap(HostAddress(k, y, u.reg) + 4)))
             d == [hi |-> h, lo |-> l]
  <2>2. LowRead(HighRead(p, rt, y, u.reg), rt, y, u.reg) = SetLow(k, rt, l)
    BY DEF LowRead, HighRead
  <2>3. d.hi = h /\ d.lo = l
    OBVIOUS
  <2>4. SetBoth(p, rt, d) = SetLow(k, rt, l)
    BY <2>3 DEF SetBoth
  <2> QED
    BY <2>1, <2>2, <2>4
<1> QED
  BY <1>1, <1>2, <1>5, <1>6 DEF Compile_LD, LongThrough, LongRead, p, u, t

(* Of a part of a word: with two temporaries more.                         *)
PartReady(n, o, rt) ==
    Ends(n, o, {}) /\ Sound(o) /\ Room(o, 1) /\ (Pinned(o, rt) \/ Room(o, 2))
LEMMA PartLoadedEnds ==
    ASSUME NEW n, NEW q, NEW rt \in Guest \ {0}, PartReady(n, q, rt), NEW load, NEW high, NEW b \in BOOLEAN
    PROVE  \A w : Ends(n, SetLow(Map_GPR_32bit(Map_TempReg(q, AnyHost, load, high), rt, b, rt), rt, w), {rt})
<1> DEFINE t == Map_TempReg(q, AnyHost, load, high)
<1>1. Ends(n, q, {}) /\ Sound(q) /\ Room(q, 1) /\ (Pinned(q, rt) \/ Room(q, 2))
  BY DEF PartReady
<1>2. TempFrom(q, AnyHost, t)
  BY <1>1, AnyTemp
<1> HIDE DEF t
<1>3. Does(q, t, {}) /\ Ends(q, t, {}) /\ Sound(t) /\ (Room(q, 2) => Room(t, 1))
  BY <1>2 DEF TempFrom
<1>4. Ends(n, t, {})
  BY <1>1, <1>3, EndsTrans
<1>5. IsMapped(t, rt) \/ Room(t, 1)
  BY <1>1, <1>3 DEF Does, Frame, Pinned
<1> DEFINE o(w) == SetLow(Map_GPR_32bit(t, rt, b, rt), rt, w)
<1>6. \A w : Fine(t, o(w), rt)
  BY <1>3, <1>5, Fine32
<1> HIDE DEF o
<1>7. \A w : Fine(n, o(w), rt)
  BY <1>4, <1>6, FineAfter
<1>8. \A w : Ends(n, o(w), {rt})
  BY <1>7, FineFacts
<1> QED
  BY <1>8 DEF o, t

LEMMA PartConstEnds ==
    ASSUME NEW n, Idle(n), NEW rt \in Guest \ {0}, NEW load, NEW high, NEW b \in BOOLEAN
    PROVE  \A w : Ends(n, SetLow(Map_TempReg(Map_GPR_32bit(n, rt, b, rt), AnyHost, load, high), rt, w), {rt})
<1> DEFINE p == Map_GPR_32bit(n, rt, b, rt)
           t == Map_TempReg(p, AnyHost, load, high)
<1>1. Sound(n) /\ Room(n, 2) /\ Room(n, 1)
  BY IdleSelf
<1>2. Does(n, p, {rt}) /\ Pinned(p, rt)
  BY <1>1, MapGPR32
<1>3. Room(p, 1)
  <2>1. \A k \in Nat : Room(n, k + 1) => Room(p, k)
    BY <1>1, MapGPR32
  <2>2. 1 \in Nat /\ 1 + 1 = 2
    OBVIOUS
  <2> HIDE DEF p
  <2>3. Room(n, 1 + 1) => Room(p, 1)
    BY <2>1, <2>2
  <2> QED
    BY <1>1, <2>2, <2>3
<1> HIDE DEF p
<1>4. Sound(p) /\ Ends(n, p, {rt})
  BY <1>2, DoesEnds
<1>5. TempFrom(p, AnyHost, t)
  BY <1>3, <1>4, AnyTemp
<1> HIDE DEF t
<1>6. Does(p, t, {}) /\ Ends(p, t, {}) /\ Sound(t)
  BY <1>5, TempFacts
<1>7. Ends(n, t, {rt}) /\ IsMapped(t, rt)
  <2>1. Ends(n, t, {rt})
    BY <1>4, <1>6, EndsTrans
  <2>2. IsMapped(t, rt)
    BY <1>2, <1>6 DEF Does, Frame, Pinned
  <2> QED
    BY <2>1, <2>2
<1>8. ASSUME NEW w PROVE Ends(n, SetLow(t, rt, w), {rt})
  <2> DEFINE o == SetLow(t, rt, w)
  <2>1. Does(t, o, {rt})
    BY <1>6, <1>7, SetLowDoes
  <2> HIDE DEF o
  <2>2. Ends(t, o, {rt})
    BY <2>1, DoesEnds
  <2>3. Ends(n, o, {rt})
    BY <1>7, <2>2, EndsTrans
  <2> QED
    BY <2>3 DEF o
<1> QED
  BY <1>8 DEF t, p

LEMMA PartAddress ==
    ASSUME NEW n, Idle(n), NEW rt \in Guest, NEW base \in Guest, NEW offset, NEW t0, TempFrom(n, ECX, t0)
    PROVE  PartReady(n, LookUp(UnProtectGPR(AddressIn(ProtectGPR(t0, rt), base, offset), base)), rt)
<1> DEFINE k == ProtectGPR(t0, rt)
           a == AddressIn(k, base, offset)
           v == UnProtectGPR(a, base)
           u == LookUp(v)
<1>1. Ends(n, t0, {}) /\ Sound(t0) /\ Room(t0, 5)
  BY TempFacts
<1>2. /\ Ends(t0, k, {}) /\ Sound(k)
      /\ IsMapped(t0, rt) => Pinned(k, rt)
      /\ Room(t0, 5) => Room(k, 3)
  BY <1>1, ProtectSteps
<1>3. Prots(k) = Prots(t0) \cup HostsOf(t0, rt) /\ HostsOf(k, rt) = HostsOf(t0, rt)
  BY <1>1, ProtectGPRDoes
<1> HIDE DEF k
<1>4. Addressed(k, base, a)
  BY <1>1, <1>2, AddressInDoes
<1> HIDE DEF a
<1>5. Does(k, a, {}) /\ Ends(k, a, {}) /\ Sound(a) /\ Prots(a) \ HostsOf(a, base) \subseteq Prots(k) \cup {a.reg}
  BY <1>4 DEF Addressed
<1>6. Ends(a, v, {}) /\ Prots(v) = Prots(a) \ HostsOf(a, base)
  BY <1>5, UnProtectGPREnds
<1>7. \A q \in Guest \ {base} : Pinned(a, q) => Pinned(v, q)
  BY <1>5, UnProtectGPREnds
<1> HIDE DEF v
<1>8. Room(v, 2)
  <2>1. Prots(v) \subseteq Prots(k) \cup {a.reg}
    BY <1>5, <1>6
  <2> QED
    BY <1>1, <1>2, <2>1, RoomSteps
<1>9. Pinned(v, rt) \/ Room(v, 4)
  <2>1. IsMapped(t0, rt) => Pinned(a, rt) /\ HostsOf(a, rt) = HostsOf(t0, rt)
    BY <1>2, <1>3, <1>5, SameHosts DEF Does, Frame
  <2>2. CASE IsMapped(t0, rt) /\ rt # base
    BY <1>7, <2>1, <2>2
  <2>3. CASE ~(IsMapped(t0, rt) /\ rt # base)
    <3>1. HostsOf(t0, rt) = {} \/ HostsOf(a, base) = HostsOf(t0, rt)
      BY <2>1, <2>3 DEF HostsOf
    <3>2. Prots(v) \subseteq Prots(t0) \cup {a.reg}
      BY <1>3, <1>5, <1>6, <3>1
    <3> QED
      BY <1>1, <3>2, RoomSteps
  <2> QED
    BY <2>2, <2>3
<1>10. Sound(v) /\ Room(v, 1) /\ (Room(v, 4) => Room(v, 3))
  BY <1>6, <1>8, SmallerRoom DEF Ends
<1>11. TempFrom(v, AnyHost, u)
  BY <1>10, LookUpDoes
<1> HIDE DEF u
<1>12. Does(v, u, {}) /\ Ends(v, u, {}) /\ Sound(u) /\ (Room(v, 2) => Room(u, 1)) /\ (Room(v, 3) => Room(u, 2))
  BY <1>11 DEF TempFrom
<1>13. Pinned(u, rt) \/ Room(u, 2)
  BY <1>9, <1>10, <1>12 DEF Does, Frame
<1>14. Ends(n, u, {})
  <2>1. Ends(n, k, {})
    BY <1>1, <1>2, EndsTrans
  <2>2. Ends(n, a, {})
    BY <1>5, <2>1, EndsTrans
  <2>3. Ends(n, v, {})
    BY <1>6, <2>2, EndsTrans
  <2> QED
    BY <1>12, <2>3, EndsTrans
<1>15. PartReady(n, u, rt)
  BY <1>8, <1>12, <1>13, <1>14 DEF PartReady
<1> QED
  BY <1>15 DEF u, v, a, k

LEMMA PartRetested ==
    ASSUME NEW n, NEW u, NEW rt, PartReady(n, u, rt), NEW y
    PROVE  LET q == CompileReadTLBMiss(u, y) IN PartReady(n, q, rt) /\ Ends(n, q, {rt})
<1> DEFINE q == CompileReadTLBMiss(u, y)
<1>1. Ends(n, u, {}) /\ Sound(u)
  BY DEF PartReady
<1>2. Ends(u, q, {}) /\ (q = u \/ Idle(q))
  BY <1>1, MissEnds
<1> HIDE DEF q
<1>3. Ends(n, q, {})
  BY <1>1, <1>2, EndsTrans
<1>4. Idle(q) => Room(q, 2) /\ Room(q, 1) /\ Sound(q)
  BY IdleSelf
<1>5. PartReady(n, q, rt)
  BY <1>2, <1>3, <1>4 DEF PartReady
<1>6. Ends(n, q, {rt})
  BY <1>3, Wider
<1> QED
  BY <1>5, <1>6 DEF q

LEMMA Compile_LWL_Ends ==
    ASSUME NEW n, Idle(n), NEW rt \in Guest, NEW base \in Guest, NEW offset
    PROVE  /\ Ends(n, Compile_LWL(n, rt, base, offset), {rt})
           /\ Ends(n, Compile_LWR(n, rt, base, offset), {rt})
<1> DEFINE t0 == Map_TempReg(n, ECX, -1, FALSE)
           v == UnProtectGPR(AddressIn(ProtectGPR(t0, rt), base, offset), base)
           u == LookUp(v)
           q == CompileReadTLBMiss(u, v.reg)
<1>1. Ends(n, n, {rt}) /\ ECX \in Host
  BY IdleSelf, Nothing, ConstantFacts
<1>2. TempFrom(n, ECX, t0)
  BY <1>1, IdleTemp
<1> HIDE DEF t0
<1>3. PartReady(n, u, rt)
  BY <1>2, PartAddress
<1> HIDE DEF v, u
<1>4. PartReady(n, q, rt) /\ Ends(n, q, {rt})
  BY <1>3, PartRetested
<1> HIDE DEF q
<1> DEFINE o(w) == SetLow(Map_GPR_32bit(Map_TempReg(q, AnyHost, -1, FALSE), rt, TRUE, rt), rt, w)
           c(w) == SetLow(Map_TempReg(Map_GPR_32bit(n, rt, TRUE, rt), AnyHost, -1, FALSE), rt, w)
<1>5. ASSUME rt # 0, NEW w PROVE Ends(n, o(w), {rt})
  BY <1>4, <1>5, PartLoadedEnds
<1>6. ASSUME rt # 0, NEW w PROVE Ends(n, c(w), {rt})
  BY <1>6, PartConstEnds
<1>7. ASSUME rt # 0, NEW w, NEW b PROVE Ends(n, Slip(c(w), b), {rt})
  BY <1>6, <1>7, SlipEnds
<1>8. ASSUME NEW b PROVE Ends(n, Slip(q, b), {rt})
  BY <1>4, SlipEnds
<1>9. ASSUME rt # 0, NEW w, NEW b PROVE Ends(n, Slip(o(w), b), {rt})
  BY <1>5, <1>9, SlipEnds
<1>10. /\ \E w : PartLoaded(q, rt, v.reg, u.reg, LeftOf) = o(w)
       /\ \E w : PartLoaded(q, rt, v.reg, u.reg, RightOf) = o(w)
  BY Zenon DEF PartLoaded, PartReadAt, PartRead
<1>11. \A a : /\ \E w, b : PartConst(n, rt, a, LeftOf) = Slip(c(w), b)
              /\ \E w, b : PartConst(n, rt, a, RightOf) = Slip(c(w), b)
  BY Zenon DEF PartConst, PartRead
<1> HIDE DEF o, c
<1>12. Ends(n, Compile_LWL(n, rt, base, offset), {rt})
  <2>1. Compile_LWL(n, rt, base, offset) =
            IF rt = 0 THEN n
            ELSE IF IsConst(n, base) THEN PartConst(n, rt, AddressNow(n, base, offset), LeftOf)
            ELSE UnlessMissed(IF q.missed # NoReg THEN q ELSE PartLoaded(q, rt, v.reg, u.reg, LeftOf))
    BY Zenon DEF Compile_LWL, LoadPart, LoadThrough, LoadTested, LoadUnless, q, u, v, t0
  <2> QED
    BY <1>1, <1>7, <1>8, <1>9, <1>10, <1>11, <2>1 DEF UnlessMissed
<1>13. Ends(n, Compile_LWR(n, rt, base, offset), {rt})
  <2>1. Compile_LWR(n, rt, base, offset) =
            IF rt = 0 THEN n
            ELSE IF IsConst(n, base) THEN PartConst(n, rt, AddressNow(n, base, offset), RightOf)
            ELSE UnlessMissed(IF q.missed # NoReg THEN q ELSE PartLoaded(q, rt, v.reg, u.reg, RightOf))
    BY Zenon DEF Compile_LWR, LoadPart, LoadThrough, LoadTested, LoadUnless, q, u, v, t0
  <2> QED
    BY <1>1, <1>7, <1>8, <1>9, <1>10, <1>11, <2>1 DEF UnlessMissed
<1> QED
  BY <1>12, <1>13

---------------------------------------------------------------------------
\* Stores.

(* A step of a store, and then its end.                                    *)
StoreEnds(n, o) == Ends(n, o, {}) /\ Room(o, 1)
LEMMA StoredEnds ==
    ASSUME NEW n, NEW p, StoreEnds(n, p), NEW o, Stores(p, o)
    PROVE  StoreEnds(n, o)
<1>1. Ends(p, o, {}) /\ Prots(o) = Prots(p)
  BY DEF Stores
<1>2. Ends(n, o, {})
  BY <1>1, EndsTrans DEF StoreEnds
<1> QED
  BY <1>1, <1>2 DEF StoreEnds, Room

LEMMA SourceEnds ==
    ASSUME NEW n, NEW u, Ends(n, u, {}), Room(u, 2), NEW rt \in Guest, NEW k
    PROVE  StoreEnds(n, Source(u, rt, k))
<1> DEFINE p == UnProtectGPR(u, rt)
           t == Map_TempReg(p, AnyHost, rt, FALSE)
<1>1. Sound(u) /\ Room(u, 1)
  BY SmallerRoom DEF Ends
<1>2. Ends(u, p, {}) /\ Prots(p) \subseteq Prots(u)
  BY <1>1, UnProtectGPREnds
<1> HIDE DEF p
<1>3. Sound(p) /\ Room(p, 2) /\ Room(p, 1)
  BY <1>2, SmallerRoom, Rooms DEF Ends
<1>4. TempFrom(p, AnyHost, t)
  BY <1>3, AnyTemp
<1> HIDE DEF t
<1>5. Ends(p, t, {}) /\ Room(t, 1)
  BY <1>3, <1>4 DEF TempFrom
<1>6. Ends(n, p, {})
  BY <1>2, EndsTrans
<1>7. Ends(n, t, {})
  BY <1>5, <1>6, EndsTrans
<1> QED
  BY <1>1, <1>5, <1>7 DEF Source, StoreEnds, t, p

LEMMA StoreBytesEnds ==
    ASSUME NEW n, Idle(n), NEW rt \in Guest, NEW base \in Guest, NEW offset, NEW k
    PROVE  StoreEnds(n, StoreBytes(n, rt, base, offset, k))
<1> DEFINE p == ProtectGPR(n, rt)
           a == AddressIn(p, base, offset)
           v == UnProtectGPR(a, base)
           u == LookUp(v)
           s1 == Source(u, rt, k)
           c == Source(n, rt, k)
<1>1. Sound(n) /\ Ends(n, n, {}) /\ Room(n, 6) /\ Room(n, 2)
  BY IdleSelf
<1>2. StoreEnds(n, c)
  BY <1>1, SourceEnds
<1> HIDE DEF c
<1>3. ASSUME NEW i, NEW w PROVE StoreEnds(n, Write(c, i, k, w))
  <2>1. Stores(c, Write(c, i, k, w))
    BY <1>2, WriteStores DEF StoreEnds, Ends
  <2> QED
    BY <1>2, <2>1, StoredEnds
<1>4. Ends(n, p, {}) /\ Sound(p) /\ Room(p, 4)
  BY <1>1, ProtectSteps
<1> HIDE DEF p
<1>5. Room(p, 3)
  BY <1>4, SmallerRoom
<1>6. Addressed(p, base, a)
  BY <1>4, <1>5, AddressInDoes
<1> HIDE DEF a
<1>7. Ends(p, a, {}) /\ Sound(a) /\ Prots(a) \ HostsOf(a, base) \subseteq Prots(p) \cup {a.reg}
  BY <1>6 DEF Addressed
<1>8. Ends(a, v, {}) /\ Prots(v) = Prots(a) \ HostsOf(a, base)
  BY <1>7, UnProtectGPREnds
<1> HIDE DEF v
<1>9. Room(v, 3)
  <2>1. Prots(v) \subseteq Prots(p) \cup {a.reg}
    BY <1>7, <1>8
  <2> QED
    BY <1>4, <2>1, RoomSteps
<1>10. Sound(v) /\ Room(v, 1)
  BY <1>8, <1>9, SmallerRoom DEF Ends
<1>11. TempFrom(v, AnyHost, u)
  BY <1>10, LookUpDoes
<1> HIDE DEF u
<1>12. Ends(v, u, {}) /\ Room(u, 2)
  BY <1>9, <1>11 DEF TempFrom
<1>13. Ends(n, u, {})
  <2>1. Ends(n, a, {})
    BY <1>4, <1>7, EndsTrans
  <2>2. Ends(n, v, {})
    BY <1>8, <2>1, EndsTrans
  <2> QED
    BY <1>12, <2>2, EndsTrans
<1>14. StoreEnds(n, s1)
  BY <1>12, <1>13, SourceEnds
<1> HIDE DEF s1
<1>15. ASSUME NEW i, NEW j, NEW w PROVE StoreEnds(n, Write(Wild(s1, i), j, k, w))
  <2>1. Stores(s1, Write(Wild(s1, i), j, k, w))
    BY <1>14, WriteWildStores DEF StoreEnds, Ends
  <2> QED
    BY <1>14, <2>1, StoredEnds
<1> QED
  BY <1>3, <1>15 DEF StoreBytes, StoreConst, StoreThrough, StoreSource, StoreFrom, WriteAt, WriteHost, s1, u,
     v, a, p, c

LEMMA Compile_SB_Ends ==
    ASSUME NEW n, Idle(n), NEW rt \in Guest, NEW base \in Guest, NEW offset
    PROVE  /\ Ends(n, Compile_SB(n, rt, base, offset), {})
           /\ Ends(n, Compile_SH(n, rt, base, offset), {})
           /\ Ends(n, Compile_SW(n, rt, base, offset), {})
BY StoreBytesEnds DEF Compile_SB, Compile_SH, Compile_SW, StoreEnds

(* A link that is gone skips the store: all but the values of the guest    *)
(* registers is as it is.                                                  *)
LEMMA AnsweredEnds ==
    ASSUME NEW n, Idle(n), NEW rt \in Guest, NEW c \in BOOLEAN, c <=> n.LLBit = 1,
           NEW k, Room(k, 1), NEW o, RunUnder(n, c, k, o)
    PROVE  Ends(n, Answered(o, n, rt), {rt})
<1> DEFINE p == SetLow(Map_GPR_32bit(o, rt, FALSE, -1), rt, n.LLBit)
           b == SkippedChanges(o, n) \/ rt = 0 \/ HighWord(n, rt) # 0
<1>1. Sound(o) /\ o.live = n.live /\ Room(o, 1)
  BY DEF RunUnder, Room
<1>2. Fine(o, p, rt)
  BY <1>1, Fine32
<1> HIDE DEF p
<1>3. Sound(p) /\ p.live = n.live
  BY <1>1, <1>2, FineFacts
<1>4. CASE b
  <2>1. Ends(n, Slip(p, b), {rt})
    BY <1>3, <1>4, SlippedEnds
  <2> QED
    BY <2>1 DEF Answered, p, b
<1>5. CASE ~b
  <2>1. Ends(n, o, {})
    BY <1>5 DEF SkippedChanges, RunUnder
  <2>2. Fine(n, p, rt)
    BY <1>2, <2>1, FineAfter
  <2>3. Ends(n, p, {rt})
    BY <1>5, <2>2, FineFacts
  <2>4. Ends(n, Slip(p, b), {rt})
    BY <2>3, SlipEnds
  <2> QED
    BY <2>4 DEF Answered, p, b
<1> QED
  BY <1>4, <1>5

LEMMA Compile_SC_Ends ==
    ASSUME NEW n, Idle(n), NEW rt \in Guest, NEW base \in Guest, NEW offset
    PROVE  Ends(n, Compile_SC(n, rt, base, offset), {rt})
<1> DEFINE c == n.LLBit = 1
           j == [n EXCEPT !.live = @ /\ c]
           k == StoreBytes(j, rt, base, offset, 4)
           o == [k EXCEPT !.live = n.live]
<1>1. Before(n, c, j) /\ After(n, k, o) /\ c \in BOOLEAN
  BY DEF Before, After
<1>2. Sound(n) /\ n.live \in BOOLEAN /\ Prots(n) = {}
  BY DEF Idle, Sound, Shape
<1>3. Idle(j)
  <2> DEFINE l == n.live /\ c
             i == [n EXCEPT !.live = l]
  <2>1. l \in BOOLEAN /\ j = i
    BY DEF Sound, Shape, Fields
  <2> HIDE DEF l
  <2>2. Sound(i) /\ Prots(i) = Prots(n)
    BY <1>2, <2>1, LiveSet
  <2> HIDE DEF i, j
  <2> QED
    BY <1>2, <2>1, <2>2 DEF Idle
<1>4. Compile_SC(n, rt, base, offset) = Answered(o, n, rt)
  BY Zenon DEF Compile_SC, Compile_SW, Under, c, j, k, o
<1> HIDE DEF j
<1>5. StoreEnds(j, k)
  BY <1>3, StoreBytesEnds
<1> HIDE DEF k, o
<1>6. Ends(j, k, {}) /\ Room(k, 1)
  BY <1>5 DEF StoreEnds
<1>7. RunUnder(n, c, k, o)
  BY <1>1, <1>2, <1>6, UnderEnds
<1>8. Ends(n, Answered(o, n, rt), {rt})
  BY <1>1, <1>6, <1>7, AnsweredEnds
<1> QED
  BY <1>4, <1>8

(* A part of a word is stored with two temporaries more.                   *)
LEMMA PartThroughEnds ==
    ASSUME NEW n, Idle(n), NEW base \in Guest, NEW offset, NEW t0, TempFrom(n, ECX, t0)
    PROVE  LET u == LookUp(UnProtectGPR(AddressIn(t0, base, offset), base))
           IN StoreEnds(n, Map_TempReg(Map_TempReg(u, AnyHost, -1, FALSE), AnyHost, -1, FALSE))
<1> DEFINE a == AddressIn(t0, base, offset)
           v == UnProtectGPR(a, base)
           u == LookUp(v)
           t == Map_TempReg(u, AnyHost, -1, FALSE)
           o == Map_TempReg(t, AnyHost, -1, FALSE)
<1>1. Ends(n, t0, {}) /\ Sound(t0) /\ Room(t0, 5)
  BY TempFacts
<1>2. Room(t0, 3)
  BY <1>1, SmallerRoom
<1>3. Addressed(t0, base, a)
  BY <1>1, <1>2, AddressInDoes
<1> HIDE DEF a
<1>4. Ends(t0, a, {}) /\ Sound(a) /\ Prots(a) \ HostsOf(a, base) \subseteq Prots(t0) \cup {a.reg}
  BY <1>3 DEF Addressed
<1>5. Ends(a, v, {}) /\ Prots(v) = Prots(a) \ HostsOf(a, base)
  BY <1>4, UnProtectGPREnds
<1> HIDE DEF v
<1>6. Room(v, 4)
  <2>1. Prots(v) \subseteq Prots(t0) \cup {a.reg}
    BY <1>4, <1>5
  <2> QED
    BY <1>1, <2>1, RoomSteps
<1>7. Sound(v) /\ Room(v, 1)
  BY <1>5, <1>6, SmallerRoom DEF Ends
<1>8. TempFrom(v, AnyHost, u)
  BY <1>7, LookUpDoes
<1> HIDE DEF u
<1>9. Ends(v, u, {}) /\ Sound(u) /\ Room(u, 3)
  BY <1>6, <1>8 DEF TempFrom
<1>10. Room(u, 1)
  BY <1>9, SmallerRoom
<1>11. TempFrom(u, AnyHost, t)
  BY <1>9, <1>10, AnyTemp
<1> HIDE DEF t
<1>12. Ends(u, t, {}) /\ Sound(t) /\ Room(t, 2)
  BY <1>9, <1>11 DEF TempFrom
<1>13. Room(t, 1)
  BY <1>12, SmallerRoom
<1>14. TempFrom(t, AnyHost, o)
  BY <1>12, <1>13, AnyTemp
<1> HIDE DEF o
<1>15. Ends(t, o, {}) /\ Room(o, 1)
  BY <1>12, <1>14 DEF TempFrom
<1>16. Ends(n, o, {})
  <2>1. Ends(n, a, {})
    BY <1>1, <1>4, EndsTrans
  <2>2. Ends(n, v, {})
    BY <1>5, <2>1, EndsTrans
  <2>3. Ends(n, u, {})
    BY <1>9, <2>2, EndsTrans
  <2>4. Ends(n, t, {})
    BY <1>12, <2>3, EndsTrans
  <2> QED
    BY <1>15, <2>4, EndsTrans
<1> QED
  BY <1>15, <1>16 DEF StoreEnds, o, t, u, v, a

LEMMA PartOfConstEnds ==
    ASSUME NEW n, Idle(n), NEW rt \in Guest, NEW w
    PROVE  LET v == Map_TempReg(n, AnyHost, -1, FALSE)
           IN StoreEnds(n, Map_TempReg(SetX86(v, v.reg, w), AnyHost, rt, FALSE))
<1> DEFINE v == Map_TempReg(n, AnyHost, -1, FALSE)
           c == SetX86(v, v.reg, w)
           o == Map_TempReg(c, AnyHost, rt, FALSE)
<1>1. TempFrom(n, AnyHost, v)
  BY IdleTemp
<1> HIDE DEF v
<1>2. Ends(n, v, {}) /\ Sound(v) /\ v.reg \in Host /\ v.mapped[v.reg] # "gpr" /\ Room(v, 5)
  BY <1>1, TempFacts
<1>3. Ends(v, c, {}) /\ Sound(c) /\ Prots(c) = Prots(v)
  BY <1>2, TempSet
<1> HIDE DEF c
<1>4. Room(c, 5) /\ Room(c, 1)
  BY <1>2, <1>3, SmallerRoom DEF Room
<1>5. TempFrom(c, AnyHost, o)
  BY <1>3, <1>4, AnyTemp
<1> HIDE DEF o
<1>6. Ends(c, o, {}) /\ Room(o, 4)
  BY <1>4, <1>5 DEF TempFrom
<1>7. Ends(n, c, {})
  BY <1>2, <1>3, EndsTrans
<1>8. Ends(n, o, {}) /\ Room(o, 1)
  BY <1>6, <1>7, EndsTrans, SmallerRoom
<1> QED
  BY <1>8 DEF StoreEnds, o, c, v

LEMMA Compile_SWL_Ends ==
    ASSUME NEW n, Idle(n), NEW rt \in Guest, NEW base \in Guest, NEW offset
    PROVE  /\ Ends(n, Compile_SWL(n, rt, base, offset), {})
           /\ Ends(n, Compile_SWR(n, rt, base, offset), {})
<1> DEFINE t0 == Map_TempReg(n, ECX, -1, FALSE)
           y == UnProtectGPR(AddressIn(t0, base, offset), base)
           u == LookUp(y)
           o == Map_TempReg(Map_TempReg(u, AnyHost, -1, FALSE), AnyHost, -1, FALSE)
           v == Map_TempReg(n, AnyHost, -1, FALSE)
           p(w) == Map_TempReg(SetX86(v, v.reg, w), AnyHost, rt, FALSE)
<1>1. ECX \in Host
  BY ConstantFacts
<1>2. TempFrom(n, ECX, t0)
  BY <1>1, IdleTemp
<1> HIDE DEF t0
<1>3. StoreEnds(n, o)
  BY <1>2, PartThroughEnds
<1>4. \A w : StoreEnds(n, p(w))
  BY PartOfConstEnds
<1> HIDE DEF o, p
<1>5. ASSUME NEW b, NEW i, NEW w PROVE Ends(n, Write(Wild(o, b), i, 4, w), {})
  <2>1. Stores(o, Write(Wild(o, b), i, 4, w))
    BY <1>3, WriteWildStores DEF StoreEnds, Ends
  <2> QED
    BY <1>3, <2>1, StoredEnds DEF StoreEnds
<1>6. ASSUME NEW z, NEW i, NEW w PROVE Ends(n, Write(p(z), i, 4, w), {})
  <2>1. Stores(p(z), Write(p(z), i, 4, w))
    BY <1>4, WriteStores DEF StoreEnds, Ends
  <2> QED
    BY <1>4, <2>1, StoredEnds DEF StoreEnds
<1>7. /\ \E b, i, w : PartLookedUp(u, rt, y.reg, LeftInto) = Write(Wild(o, b), i, 4, w)
      /\ \E b, i, w : PartLookedUp(u, rt, y.reg, RightInto) = Write(Wild(o, b), i, 4, w)
  BY Zenon DEF PartLookedUp, PartWrittenAt, PartWritten, o
<1>8. \A a : /\ \E z, i, w : PartOfConst(v, rt, a, LeftInto) = Write(p(z), i, 4, w)
             /\ \E z, i, w : PartOfConst(v, rt, a, RightInto) = Write(p(z), i, 4, w)
  BY Zenon DEF PartOfConst, ConstRead, PartMerged, p
<1>9. Ends(n, Compile_SWL(n, rt, base, offset), {})
  <2>1. Compile_SWL(n, rt, base, offset) =
            IF IsConst(n, base) THEN PartOfConst(v, rt, AddressNow(n, base, offset), LeftInto)
            ELSE PartLookedUp(u, rt, y.reg, LeftInto)
    BY Zenon DEF Compile_SWL, StorePart, PartThrough, t0
  <2> HIDE DEF u, v, y
  <2> QED
    BY <1>5, <1>6, <1>7, <1>8, <2>1
<1>10. Ends(n, Compile_SWR(n, rt, base, offset), {})
  <2>1. Compile_SWR(n, rt, base, offset) =
            IF IsConst(n, base) THEN PartOfConst(v, rt, AddressNow(n, base, offset), RightInto)
            ELSE PartLookedUp(u, rt, y.reg, RightInto)
    BY Zenon DEF Compile_SWR, StorePart, PartThrough, t0
  <2> HIDE DEF u, v, y
  <2> QED
    BY <1>5, <1>6, <1>7, <1>8, <2>1
<1> QED
  BY <1>9, <1>10

(* A double word: its high half through a temporary where it has to be     *)
(* made, and its low one through the same.                                 *)
HighTaken(n, rt, h) ==
    Does(n, h, {}) /\ Ends(n, h, {}) /\ Sound(h)
      /\ (IsUnknown(n, rt) => h.reg \in Host /\ h.mapped[h.reg] # "gpr")
LEMMA HighSourceEnds ==
    ASSUME NEW n, Sound(n), NEW rt, IsUnknown(n, rt) \/ (IsMapped(n, rt) /\ Is32Bit(n, rt)) => Room(n, 1)
    PROVE  HighTaken(n, rt, HighSource(n, rt))
<1> DEFINE t == Map_TempReg(n, AnyHost, rt, TRUE)
           o == Returning(n, NoReg)
<1>1. CASE IsUnknown(n, rt) \/ (IsMapped(n, rt) /\ Is32Bit(n, rt))
  <2>1. HighSource(n, rt) = t
    BY <1>1 DEF HighSource
  <2>2. TempFrom(n, AnyHost, t)
    BY <1>1, AnyTemp
  <2> HIDE DEF t
  <2>3. HighTaken(n, rt, t)
    BY <2>2, TempFacts DEF HighTaken
  <2> QED
    BY <2>1, <2>3
<1>2. CASE ~(IsUnknown(n, rt) \/ (IsMapped(n, rt) /\ Is32Bit(n, rt)))
  <2>1. HighSource(n, rt) = o
    BY <1>2 DEF HighSource
  <2>2. Does(n, o, {})
    BY ReturningDoes
  <2> HIDE DEF o
  <2>3. Ends(n, o, {}) /\ Sound(o)
    BY <2>2, DoesEnds
  <2>4. HighTaken(n, rt, o)
    BY <1>2, <2>2, <2>3 DEF HighTaken
  <2> QED
    BY <2>1, <2>4
<1> QED
  BY <1>1, <1>2

LEMMA LowSourceDoes ==
    ASSUME NEW n, NEW rt, NEW h, HighTaken(n, rt, h), NEW o, Stores(h, o)
    PROVE  Does(n, LowSource(o, n, rt), {})
<1> DEFINE t == Map_TempReg(o, o.reg, rt, FALSE)
<1>1. Does(n, h, {}) /\ Does(h, o, {}) /\ Sound(o) /\ o.reg = h.reg /\ o.mapped = h.mapped
  BY DEF HighTaken, Stores
<1>2. Does(n, o, {})
  BY <1>1, DoesTrans
<1>3. ASSUME IsUnknown(n, rt) PROVE Does(n, t, {})
  <2>1. o.reg \in Host /\ o.mapped[o.reg] # "gpr"
    BY <1>1, <1>3 DEF HighTaken
  <2>2. TempFrom(o, o.reg, t)
    BY <1>1, <2>1, FreeTemp
  <2> HIDE DEF t
  <2>3. Does(o, t, {})
    BY <2>2, TempFacts
  <2>4. Does(n, t, {})
    BY <1>2, <2>3, DoesTrans
  <2> QED
    BY <2>4
<1> QED
  BY <1>2, <1>3 DEF LowSource, t

LEMMA AdvancedStores ==
    ASSUME NEW n, Sound(n), NEW t1 \in Host, n.mapped[t1] = "temp", NEW d, NEW k, NEW v, NEW t2
    PROVE  Stores(n, WriteAt(Advanced(n, t1, d), t1, t2, k, v))
<1> DEFINE w == Wrap(Content(n, t1) + d)
           p == SetX86(n, t1, w)
           a == HostAddress(p, t1, t2)
           o == Write(Wild(p, a), a, k, v)
<1>1. Does(n, p, {}) /\ Sound(p) /\ Prots(p) = Prots(n) /\ p.reg = n.reg /\ p.mapped = n.mapped /\ p.prot = n.prot
  BY TempSet
<1>2. Advanced(n, t1, d) = p
  BY DEF Advanced
<1> HIDE DEF p
<1>3. WriteAt(p, t1, t2, k, v) = o
  BY DEF WriteAt, WriteHost
<1>4. Stores(p, o)
  BY <1>1, WriteWildStores
<1> HIDE DEF o
<1>5. Does(n, o, {})
  BY <1>1, <1>4, DoesTrans DEF Stores
<1>6. Ends(n, o, {})
  BY <1>5, DoesEnds
<1>7. Stores(n, o)
  BY <1>1, <1>4, <1>5, <1>6 DEF Stores
<1> QED
  BY <1>2, <1>3, <1>7

LEMMA LongConstStored ==
    ASSUME NEW n, Idle(n), NEW rt \in Guest, NEW i, NEW j, NEW v, NEW w, NEW b,
           NEW h, h = HighSource(n, rt), NEW l, l = LowSource(Write(h, i, 4, v), n, rt)
    PROVE  Ends(n, Slip(Write(l, j, 4, w), b), {})
<1> DEFINE o1 == Write(h, i, 4, v)
           o2 == Write(l, j, 4, w)
<1>1. Sound(n) /\ Room(n, 1)
  BY IdleSelf
<1>2. HighTaken(n, rt, h)
  BY <1>1, HighSourceEnds
<1>3. Stores(h, o1)
  BY <1>2, WriteStores DEF HighTaken
<1>4. l = LowSource(o1, n, rt)
  OBVIOUS
<1> HIDE DEF o1
<1>5. Does(n, l, {})
  BY <1>2, <1>3, <1>4, LowSourceDoes
<1>6. Sound(l) /\ Ends(n, l, {})
  BY <1>5, DoesEnds
<1>7. Ends(l, o2, {})
  BY <1>6, WriteStores DEF Stores
<1> HIDE DEF o2
<1>8. Ends(n, o2, {})
  BY <1>6, <1>7, EndsTrans
<1>9. Ends(n, Slip(o2, b), {})
  BY <1>8, SlipEnds
<1> QED
  BY <1>9 DEF o2

LEMMA LongThroughStored ==
    ASSUME NEW n, NEW u, NEW rt, Reached(n, u, rt), NEW t1 \in Host, u.mapped[t1] = "temp", u.prot[t1],
           NEW t2, NEW v, NEW w, NEW b,
           NEW h, h = HighSource(u, rt), NEW l, l = LowSource(WriteAt(Advanced(h, t1, 0), t1, t2, 4, v), u, rt)
    PROVE  Ends(n, Slip(WriteAt(Advanced(l, t1, 4), t1, t2, 4, w), b), {})
<1> DEFINE o1 == WriteAt(Advanced(h, t1, 0), t1, t2, 4, v)
           o2 == WriteAt(Advanced(l, t1, 4), t1, t2, 4, w)
<1>1. Sound(u) /\ Ends(n, u, {})
  BY DEF Reached
<1>2. IsUnknown(u, rt) \/ (IsMapped(u, rt) /\ Is32Bit(u, rt)) => Room(u, 1)
  BY SmallerRoom DEF Reached, Is32Bit, Is64Bit, Pinned, IsMapped, IsKnown
<1>3. HighTaken(u, rt, h)
  BY <1>1, <1>2, HighSourceEnds
<1>4. Sound(h) /\ h.mapped[t1] = "temp" /\ h.prot[t1]
  BY <1>3 DEF HighTaken, Does, Frame
<1>5. Stores(h, o1)
  BY <1>4, AdvancedStores
<1>6. l = LowSource(o1, u, rt)
  OBVIOUS
<1> HIDE DEF o1
<1>7. Does(u, l, {})
  BY <1>3, <1>5, <1>6, LowSourceDoes
<1>8. Sound(l) /\ Ends(u, l, {}) /\ l.mapped[t1] = "temp"
  BY <1>7 DEF Does, Frame, Ends
<1>9. Ends(l, o2, {})
  BY <1>8, AdvancedStores DEF Stores
<1> HIDE DEF o2
<1>10. Ends(n, l, {})
  BY <1>1, <1>8, EndsTrans
<1>11. Ends(n, o2, {})
  BY <1>9, <1>10, EndsTrans
<1>12. Ends(n, Slip(o2, b), {})
  BY <1>11, SlipEnds
<1> QED
  BY <1>12 DEF o2

LEMMA Compile_SD_Ends ==
    ASSUME NEW n, Idle(n), NEW rt \in Guest, NEW base \in Guest, NEW offset
    PROVE  Ends(n, Compile_SD(n, rt, base, offset), {})
<1>1. CASE IsConst(n, base)
  <2> DEFINE a == AddressNow(n, base, offset)
             h == HighSource(n, rt)
             v == IF h.reg = NoReg THEN HighWord(h, rt) ELSE Content(h, h.reg)
             l == LowSource(Write(h, Wrap(a + 0), 4, v), n, rt)
             w == IF IsUnknown(n, rt) THEN Content(l, h.reg)
                  ELSE IF IsConst(n, rt) THEN n.lo[rt] ELSE Content(l, n.lo[rt])
             b == IsMapped(n, rt) /\ IsUnknown(h, rt)
             o == Slip(Write(l, Wrap(a + 4), 4, w), b)
  <2>1. Compile_SD(n, rt, base, offset) = o
    BY <1>1, Zenon DEF Compile_SD, StoreLong, StoreHalves, LowStored, HighStored
  <2>2. Ends(n, o, {})
    <3> HIDE DEF h, l, w, v, b
    <3>1. h = HighSource(n, rt) /\ l = LowSource(Write(h, Wrap(a + 0), 4, v), n, rt)
      BY DEF h, l
    <3> QED
      BY <3>1, LongConstStored
  <2> HIDE DEF o
  <2> QED
    BY <2>1, <2>2
<1>2. CASE ~IsConst(n, base)
  <2> DEFINE p == ProtectGPR(n, rt)
             t == AddressIn(p, base, offset)
             u == LookUp(t)
             h == HighSource(u, rt)
             v == IF h.reg = NoReg THEN HighWord(h, rt) ELSE Content(h, h.reg)
             l == LowSource(WriteAt(Advanced(h, t.reg, 0), t.reg, u.reg, 4, v), u, rt)
             w == IF IsUnknown(u, rt) THEN Content(l, h.reg)
                  ELSE IF IsConst(u, rt) THEN u.lo[rt] ELSE Content(l, u.lo[rt])
             b == IsMapped(u, rt) /\ IsUnknown(h, rt)
             o == Slip(WriteAt(Advanced(l, t.reg, 4), t.reg, u.reg, 4, w), b)
  <2>1. Compile_SD(n, rt, base, offset) = o
    BY <1>2, Zenon DEF Compile_SD, StoreLongThrough, StoreLongAt, StoreLong, StoreHalves, LowStored, HighStored
  <2>2. Sound(p) /\ Room(p, 4) /\ Room(p, 3)
    BY IdleSelf, ProtectSteps, SmallerRoom
  <2>3. Reached(n, u, rt)
    BY LoadAddress
  <2>4. Addressed(p, base, t)
    BY <2>2, AddressInDoes
  <2>5. Sound(t) /\ t.reg \in Host /\ t.mapped[t.reg] = "temp" /\ t.prot[t.reg] /\ Room(t, 1)
    BY <2>2, <2>4 DEF Addressed
  <2>6. u.mapped[t.reg] = "temp" /\ u.prot[t.reg]
    <3>1. TempFrom(t, AnyHost, u)
      BY <2>5, LookUpDoes
    <3> HIDE DEF t, u
    <3> QED
      BY <2>5, <3>1 DEF TempFrom, Does, Frame
  <2>7. Ends(n, o, {})
    <3>1. h = HighSource(u, rt) /\ l = LowSource(WriteAt(Advanced(h, t.reg, 0), t.reg, u.reg, 4, v), u, rt)
      BY DEF h, l
    <3> HIDE DEF t, u, h, l, w, v, b
    <3> QED
      BY <2>3, <2>5, <2>6, <3>1, LongThroughStored
  <2> HIDE DEF o
  <2> QED
    BY <2>1, <2>7
<1> QED
  BY <1>1, <1>2

---------------------------------------------------------------------------
\* Branches.

LEMMA WentEnds ==
    ASSUME NEW n, NEW k, NEW R, Ends(n, k, R), NEW way, NEW b
    PROVE  /\ Ends(n, Went(k, way), R) /\ Prots(Went(k, way)) = Prots(k)
           /\ Ends(n, Decided(k, b), R) /\ Ends(n, Tested(k, b), R)
<1>1. Sound(k)
  BY DEF Ends
<1>2. ASSUME NEW w PROVE Ends(n, Went(k, w), R) /\ Prots(Went(k, w)) = Prots(k)
  <2> DEFINE o == Went(k, w)
  <2>1. Beside(k, o)
    BY <1>1 DEF Went, Beside, Sound, Shape, Fields
  <2> HIDE DEF o
  <2>2. Ends(k, o, {}) /\ Prots(o) = Prots(k)
    BY <1>1, <2>1, BesideDoes
  <2>3. Ends(n, o, R)
    BY <2>2, EndsTrans
  <2> QED
    BY <2>2, <2>3 DEF o
<1>3. Ends(n, Decided(k, b), R)
  <2> DEFINE w == IF b THEN "jump" ELSE "cont"
             p == Went(k, w)
             o == [p EXCEPT !.fall = w]
  <2>1. Decided(k, b) = o
    BY DEF Decided
  <2>2. Ends(n, p, R)
    BY <1>2
  <2> HIDE DEF p
  <2>3. Beside(p, o)
    BY <2>2 DEF Beside, Ends, Sound, Shape, Fields
  <2> HIDE DEF o
  <2>4. Ends(p, o, {})
    BY <2>2, <2>3, BesideDoes DEF Ends
  <2>5. Ends(n, o, R)
    BY <2>2, <2>4, EndsTrans
  <2> QED
    BY <2>1, <2>5
<1> QED
  BY <1>2, <1>3 DEF Tested

LEMMA FallEnds ==
    ASSUME NEW n, NEW k, NEW R, Ends(n, k, R), NEW way
    PROVE  LET o == [k EXCEPT !.fall = way] IN Ends(n, o, R) /\ Prots(o) = Prots(k)
<1> DEFINE o == [k EXCEPT !.fall = way]
<1>1. Sound(k)
  BY DEF Ends
<1>2. Beside(k, o)
  BY <1>1 DEF Beside, Sound, Shape, Fields
<1> HIDE DEF o
<1>3. Ends(k, o, {}) /\ Prots(o) = Prots(k)
  BY <1>1, <1>2, BesideDoes
<1>4. Ends(n, o, R)
  BY <1>3, EndsTrans
<1> QED
  BY <1>3, <1>4 DEF o

(* Two registers compared.                                                 *)
LEMMA MappedComparedEnds ==
    ASSUME NEW n, Idle(n), NEW rs \in Guest, NEW rt \in Guest, Either64(n, rs, rt)
    PROVE  Ends(n, HighInTemp(ProtectBoth(n, rs, rt), NarrowOne(n, rs, rt)), {})
<1> DEFINE p == ProtectGPR(ProtectGPR(n, rs), rt)
           g == NarrowOne(n, rs, rt)
           o == HighInTemp(p, g)
<1>1. /\ Ends(n, p, {}) /\ Sound(p)
      /\ \A i : Same(n, p, i)
      /\ Is32Bit(n, rt) \/ Is32Bit(n, rs) => Room(p, 3)
  BY BothProtected
<1>2. g \in Guest /\ ProtectBoth(n, rs, rt) = p
  BY DEF NarrowOne, ProtectBoth
<1> HIDE DEF p
<1>3. CASE Is32Bit(n, rt) \/ Is32Bit(n, rs)
  <2>1. HighKept(p, g, o)
    BY <1>1, <1>2, <1>3, HighInTempEnds
  <2> HIDE DEF o
  <2>2. Ends(n, o, {})
    BY <1>1, <2>1, EndsTrans DEF HighKept
  <2> QED
    BY <1>2, <2>2 DEF o
<1>4. CASE ~(Is32Bit(n, rt) \/ Is32Bit(n, rs))
  <2>1. ~Is32Bit(n, g)
    BY <1>4 DEF NarrowOne
  <2>2. ~Is32Bit(p, g)
    BY <1>1, <2>1, SameHosts
  <2>3. o = p
    BY <2>2 DEF HighInTemp
  <2> QED
    BY <1>1, <1>2, <2>3
<1> QED
  BY <1>3, <1>4

LEMMA IdleHighEnds ==
    ASSUME NEW n, Idle(n), NEW r \in Guest
    PROVE  Ends(n, HighInTemp(n, r), {})
<1>1. Sound(n) /\ Room(n, 3)
  BY IdleSelf, IdleRoom
<1>2. HighKept(n, r, HighInTemp(n, r))
  BY <1>1, HighInTempEnds
<1> QED
  BY <1>2 DEF HighKept

LEMMA MemoryComparedEnds ==
    ASSUME NEW n, Idle(n), NEW r, NEW u
    PROVE  Ends(n, MemoryCompared(n, r, u).n, {})
<1> DEFINE h == Map_TempReg(n, AnyHost, r, TRUE)
           l == LowThrough(h, r)
<1>1. TempFrom(n, AnyHost, h)
  BY IdleTemp
<1> HIDE DEF h
<1>2. Ends(n, h, {}) /\ Sound(h) /\ h.reg \in Host /\ h.mapped[h.reg] # "gpr"
  BY <1>1, TempFacts
<1>3. Ends(h, l, {})
  BY <1>2, LowThroughEnds
<1> HIDE DEF l
<1>4. Ends(n, l, {})
  BY <1>2, <1>3, EndsTrans
<1>5. MemoryCompared(n, r, u).n = IF h.reg = NoReg THEN h ELSE l
  <2>1. MemoryCompared(n, r, u) =
            IF h.reg = NoReg THEN Differing(h, TRUE, TRUE)
            ELSE Differing(l, h.x[h.reg] # h.gpr[u].hi, l.x[h.reg] # l.gpr[u].lo)
    BY Zenon DEF MemoryCompared, ThroughTemporary, LowCompared, h, l
  <2>2. \A a, b, c : Differing(a, b, c).n = a
    BY DEF Differing
  <2>3. CASE h.reg = NoReg
    <3>1. MemoryCompared(n, r, u) = Differing(h, TRUE, TRUE)
      BY <2>1, <2>3, Zenon
    <3>2. Differing(h, TRUE, TRUE).n = h
      BY <2>2, Zenon
    <3>3. MemoryCompared(n, r, u).n = h
      BY <3>1, <3>2, Zenon
    <3> QED
      BY <2>3, <3>3
  <2>4. CASE h.reg # NoReg
    <3> DEFINE d == Differing(l, h.x[h.reg] # h.gpr[u].hi, l.x[h.reg] # l.gpr[u].lo)
    <3>1. MemoryCompared(n, r, u) = d
      BY <2>1, <2>4, Zenon
    <3>2. d.n = l
      BY <2>2
    <3> HIDE DEF d
    <3> QED
      BY <2>4, <3>1, <3>2
  <2> QED
    BY <2>3, <2>4
<1> QED
  BY <1>2, <1>4, <1>5

LEMMA PairComparedEnds ==
    ASSUME NEW n, Idle(n), NEW rs \in Guest, NEW rt \in Guest
    PROVE  Ends(n, PairCompared(n, rs, rt).n, {})
<1>1. \A p, a, b, w : Halved(p, a, b, w).n = p
  BY DEF Halved, Differing
<1>2. Ends(n, n, {})
  BY IdleSelf
<1>3. ASSUME NEW r \in Guest, NEW q PROVE Ends(n, KnownCompared(n, r, q).n, {}) /\ Ends(n, ConstCompared(n, q, r).n, {})
  <2>1. KnownCompared(n, r, q).n \in {n, HighInTemp(n, r)}
    BY <1>1 DEF KnownCompared
  <2>2. ConstCompared(n, q, r).n \in {n, HighInTemp(n, r)}
    BY <1>1 DEF ConstCompared
  <2> QED
    BY <1>2, <2>1, <2>2, IdleHighEnds
<1>4. TheKnown(n, rs, rt) \in Guest /\ TheMapped(n, rs, rt) \in Guest
  BY PairNames
<1>5. Ends(n, MappedCompared(n, rs, rt).n, {})
  <2>1. CASE Either64(n, rs, rt)
    <3>1. MappedCompared(n, rs, rt).n = HighInTemp(ProtectBoth(n, rs, rt), NarrowOne(n, rs, rt))
      BY <1>1, <2>1 DEF MappedCompared
    <3> QED
      BY <2>1, <3>1, MappedComparedEnds
  <2>2. CASE ~Either64(n, rs, rt)
    <3>1. MappedCompared(n, rs, rt).n = n
      BY <1>1, <2>2 DEF MappedCompared
    <3> QED
      BY <1>2, <3>1
  <2> QED
    BY <2>1, <2>2
<1>6. \A r, u : Ends(n, MemoryCompared(n, r, u).n, {})
  BY MemoryComparedEnds
<1> QED
  BY <1>3, <1>4, <1>5, <1>6 DEF PairCompared

(* What a comparison leaves.                                               *)
LEMMA BEQ_Compare_Ends ==
    ASSUME NEW n, Idle(n), NEW rs \in Guest, NEW rt \in Guest
    PROVE  Ends(n, BEQ_Compare(n, rs, rt), {}) /\ Ends(n, BNE_Compare(n, rs, rt), {})
<1>1. Sound(n) /\ Ends(n, n, {})
  BY IdleSelf
<1>2. Ends(n, UnknownOpcode(n), {})
  BY <1>1, Unknown
<1>3. \A b : Ends(n, Decided(n, b), {})
  BY <1>1, WentEnds
<1>4. ASSUME NEW c, Ends(n, c.n, {}), NEW way, NEW b PROVE Ends(n, Slip(Went(c.n, way), b), {})
  <2>1. Ends(n, Went(c.n, way), {})
    BY <1>4, WentEnds
  <2> QED
    BY <2>1, SlipEnds
<1> DEFINE c == PairCompared(n, rs, rt)
           d == PairCompared(n, rt, rs)
<1>5. Ends(n, c.n, {}) /\ Ends(n, d.n, {})
  BY PairComparedEnds
<1> HIDE DEF c, d
<1>6. Ends(n, ByHalves(c, n, rs, rt, DifferSites), {})
  BY <1>4, <1>5 DEF ByHalves
<1>7. Ends(n, ByHalves(d, n, rs, rt, EqualSites), {})
  BY <1>4, <1>5 DEF ByHalves
<1>8. Ends(n, BNE_Compare(n, rs, rt), {})
  BY <1>2, <1>3, <1>6 DEF BNE_Compare, c
<1>9. Ends(n, BEQ_Compare(n, rs, rt), {})
  BY <1>2, <1>3, <1>7 DEF BEQ_Compare, d
<1> QED
  BY <1>8, <1>9

LEMMA Sign_Compare_Ends ==
    ASSUME NEW n, Idle(n), NEW rs
    PROVE  /\ Ends(n, BGTZ_Compare(n, rs), {}) /\ Ends(n, BLEZ_Compare(n, rs), {})
           /\ Ends(n, BLTZ_Compare(n, rs), {}) /\ Ends(n, BGEZ_Compare(n, rs), {})
           /\ Ends(n, COP1_BCF_Compare(n), {}) /\ Ends(n, COP1_BCT_Compare(n), {})
<1>1. Sound(n) /\ Ends(n, n, {})
  BY IdleSelf
<1>2. Ends(n, UnknownOpcode(n), {})
  BY <1>1, Unknown
<1>3. /\ \A b : Ends(n, Decided(n, b), {})
      /\ \A b : Ends(n, Tested(n, b), {})
      /\ \A way : Ends(n, Went(n, way), {})
  BY <1>1, WentEnds
<1>4. /\ \A b, c : Ends(n, Slip(Tested(n, b), c), {})
      /\ \A way, c : Ends(n, Slip(Went(n, way), c), {})
  BY <1>3, SlipEnds
<1>5. Ends(n, BGTZ_Compare(n, rs), {})
  BY <1>3, <1>4 DEF BGTZ_Compare
<1>6. Ends(n, BLEZ_Compare(n, rs), {})
  BY <1>3, <1>4 DEF BLEZ_Compare
<1>7. Ends(n, BLTZ_Compare(n, rs), {})
  BY <1>3 DEF BLTZ_Compare
<1>8. Ends(n, BGEZ_Compare(n, rs), {})
  BY <1>2, <1>3 DEF BGEZ_Compare
<1>9. Ends(n, COP1_BCF_Compare(n), {}) /\ Ends(n, COP1_BCT_Compare(n), {})
  BY <1>3 DEF COP1_BCF_Compare, COP1_BCT_Compare
<1> QED
  BY <1>5, <1>6, <1>7, <1>8, <1>9

(* An instruction in a slot, which is one of RecompiledAssumption.         *)
Instructions ==
    [op : OfRd \cup OfRt \cup OfNone \cup {"CF", "CT"}, rd : Guest, rs : Guest, rt : Guest, imm : Nat]

LEMMA Widest ==
    ASSUME NEW n, NEW o, NEW r \in Guest
    PROVE  /\ Ends(n, o, {}) => Ends(n, o, Guest)
           /\ Ends(n, o, {r}) => Ends(n, o, Guest)
BY Wider

LEMMA InHostEnds ==
    ASSUME NEW n, Idle(n), NEW r
    PROVE  Ends(n, InHost(n, r), {})
<1> DEFINE e == Map_TempReg(n, AnyHost, r, FALSE)
<1>1. TempFrom(n, AnyHost, e)
  BY IdleTemp
<1>2. InHost(n, r) = IF IsUnknown(n, r) THEN e ELSE n
  BY Zenon DEF InHost, e
<1> HIDE DEF e
<1>3. Ends(n, e, {}) /\ Ends(n, n, {})
  BY <1>1, TempFacts, IdleSelf
<1> QED
  BY <1>2, <1>3

LEMMA Compile_COP1_Ends ==
    ASSUME NEW n, Idle(n), NEW rt \in Guest
    PROVE  Ends(n, Compile_COP1_CF(n, rt), {rt}) /\ Ends(n, Compile_COP1_CT(n, rt), {})
<1>1. Ends(n, Compile_COP1_CF(n, rt), {rt})
  <2> DEFINE f == SetLow(Map_GPR_32bit(n, rt, TRUE, -1), rt, n.fpcr)
             b == rt = 0
  <2>1. Fine(n, f, rt)
    <3>1. Sound(n) /\ Room(n, 1)
      BY IdleSelf
    <3> QED
      BY <3>1, Fine32
  <2>2. Compile_COP1_CF(n, rt) = Slip(f, b)
    BY Zenon DEF Compile_COP1_CF, f, b
  <2> HIDE DEF f
  <2>3. rt = 0 => b
    OBVIOUS
  <2> HIDE DEF b
  <2> QED
    BY <2>1, <2>2, <2>3, FineSlip
<1>2. Ends(n, Compile_COP1_CT(n, rt), {})
  <2> DEFINE k == InHost(n, rt)
             o == ControlSet(k, rt)
  <2>1. Ends(n, k, {}) /\ Sound(k)
    BY InHostEnds DEF Ends
  <2> HIDE DEF k
  <2>2. Beside(k, o)
    BY <2>1 DEF ControlSet, Beside, Sound, Shape, Fields
  <2> HIDE DEF o
  <2>3. Ends(k, o, {})
    BY <2>1, <2>2, BesideDoes
  <2>4. Ends(n, o, {})
    BY <2>1, <2>3, EndsTrans
  <2> QED
    BY <2>4 DEF Compile_COP1_CT, k, o
<1> QED
  BY <1>1, <1>2

LEMMA CompileOpEnds ==
    ASSUME NEW n, Idle(n), NEW i \in Instructions
    PROVE  Ends(n, CompileOp(n, i), Guest)
<1>1. i.rd \in Guest /\ i.rs \in Guest /\ i.rt \in Guest
      /\ i.op \in {"ADDU", "SLT", "MFLO", "DADDU", "ADDIU", "LUI", "DADDIU", "MULT", "CF", "CT"}
  BY DEF Instructions, OfRd, OfRt, OfNone
<1>2. CASE i.op = "ADDIU"
  <2>1. CompileOp(n, i) = Compile_ADDIU(n, i.rt, i.rs, i.imm)
    BY <1>2 DEF CompileOp
  <2> QED
    BY <1>1, <2>1, Compile_ADDIU_Ends, Widest
<1>3. CASE i.op = "LUI"
  <2>1. CompileOp(n, i) = Compile_LUI(n, i.rt, i.imm)
    BY <1>3 DEF CompileOp
  <2> QED
    BY <1>1, <2>1, Compile_LUI_Ends, Widest
<1>4. CASE i.op = "DADDIU"
  <2>1. CompileOp(n, i) = Compile_DADDIU(n, i.rt, i.rs, i.imm)
    BY <1>4 DEF CompileOp
  <2> QED
    BY <1>1, <2>1, Compile_DADDIU_Ends, Widest
<1>5. CASE i.op = "ADDU"
  <2>1. CompileOp(n, i) = Compile_ADDU(n, i.rd, i.rs, i.rt)
    BY <1>5 DEF CompileOp
  <2> QED
    BY <1>1, <2>1, Compile_ADD_Ends, Widest
<1>6. CASE i.op = "SLT"
  <2>1. CompileOp(n, i) = Compile_SLT(n, i.rd, i.rs, i.rt)
    BY <1>6 DEF CompileOp
  <2> QED
    BY <1>1, <2>1, Compile_SLT_Ends, Widest
<1>7. CASE i.op = "DADDU"
  <2>1. CompileOp(n, i) = Compile_DADDU(n, i.rd, i.rs, i.rt)
    BY <1>7 DEF CompileOp
  <2> QED
    BY <1>1, <2>1, Compile_DADD_Ends, Widest
<1>8. CASE i.op = "MFLO"
  <2>1. CompileOp(n, i) = Compile_MFLO(n, i.rd)
    BY <1>8 DEF CompileOp
  <2> QED
    BY <1>1, <2>1, Compile_MFLO_Ends, Widest
<1>9. CASE i.op = "MULT"
  <2>1. CompileOp(n, i) = Compile_MULT(n, i.rs, i.rt)
    BY <1>9 DEF CompileOp
  <2> QED
    BY <1>1, <2>1, Compile_MULT_Ends, Widest
<1>10. CASE i.op = "CF"
  <2>1. CompileOp(n, i) = Compile_COP1_CF(n, i.rt)
    BY <1>10 DEF CompileOp
  <2> QED
    BY <1>1, <2>1, Compile_COP1_Ends, Widest
<1>11. CASE i.op = "CT"
  <2>1. CompileOp(n, i) = Compile_COP1_CT(n, i.rt)
    BY <1>11 DEF CompileOp
  <2> QED
    BY <1>1, <2>1, Compile_COP1_Ends, Widest
<1> QED
  BY <1>1, <1>2, <1>3, <1>4, <1>5, <1>6, <1>7, <1>8, <1>9, <1>10, <1>11

LEMMA EndsThrough ==
    ASSUME NEW n, NEW k, Ends(n, k, Guest), NEW o, Ends(k, o, {}) \/ Ends(k, o, Guest)
    PROVE  Ends(n, o, Guest)
BY EndsTrans

LEMMA UnprotectedIdle ==
    ASSUME NEW n, NEW k, Ends(n, k, Guest)
    PROVE  Ends(n, Unprotected(k), Guest) /\ Idle(Unprotected(k))
<1> DEFINE o == Unprotected(k)
<1>1. Sound(k)
  BY DEF Ends
<1>2. Ends(k, o, {}) /\ Prots(o) = {}
  BY <1>1, UnprotectedEnds
<1> HIDE DEF o
<1>3. Ends(n, o, Guest)
  BY <1>2, EndsThrough
<1> QED
  BY <1>2, <1>3 DEF Idle, Ends, o

LEMMA WriteBackIdle ==
    ASSUME NEW n, NEW k, Ends(n, k, Guest)
    PROVE  LET o == WriteBackRegisters(k) IN Ends(n, o, Guest) /\ Idle(o) /\ Written(o)
<1> DEFINE o == WriteBackRegisters(k)
<1>1. Sound(k)
  BY DEF Ends
<1>2. Ends(k, o, {}) /\ Prots(o) = {} /\ Written(o)
  BY <1>1, WriteBackEnds
<1> HIDE DEF o
<1>3. Ends(n, o, Guest)
  BY <1>2, EndsThrough
<1> QED
  BY <1>2, <1>3 DEF Idle, Ends, o

(* The registers are written and forgotten.                                *)
LEMMA LeftEnds ==
    ASSUME NEW n, NEW k, Ends(n, k, Guest)
    PROVE  LET o == InitilizeRegSet(WriteBackRegisters(k)) IN Ends(n, o, Guest) /\ Idle(o)
<1> DEFINE w == WriteBackRegisters(k)
           o == InitilizeRegSet(w)
<1>1. Ends(n, w, Guest) /\ Sound(w) /\ Written(w)
  BY WriteBackIdle DEF Idle
<1> HIDE DEF w
<1>2. Ends(w, o, {}) /\ Prots(o) = {}
  BY <1>1, InitilizeEnds
<1> HIDE DEF o
<1>3. Ends(n, o, Guest)
  BY <1>1, <1>2, EndsThrough
<1> QED
  BY <1>2, <1>3 DEF Idle, Ends, w, o

LEMMA CompileAloneEnds ==
    ASSUME NEW n, Idle(n), NEW i \in Instructions
    PROVE  Ends(n, CompileAlone(n, i), Guest)
<1> DEFINE k == IF i.op \in SlotOps THEN CompileOp(n, i) ELSE UnknownOpcode(n)
<1>1. Ends(n, k, Guest)
  BY CompileOpEnds, Unknown, IdleSelf
<1>2. CompileAlone(n, i) = WriteBackRegisters(Unprotected(k))
  BY DEF CompileAlone
<1> HIDE DEF k
<1>3. Ends(n, Unprotected(k), Guest)
  BY <1>1, UnprotectedIdle
<1> QED
  BY <1>2, <1>3, WriteBackIdle

LEMMA SlotEnds ==
    ASSUME NEW n, NEW k, Ends(n, k, Guest), NEW i \in Instructions, NEW last
    PROVE  Ends(n, Slot(k, i, last), Guest)
<1>1. Ends(n, CompileDelaySlot(WriteBackRegisters(k), i), Guest)
  <2> DEFINE o == InitilizeRegSet(WriteBackRegisters(k))
  <2>1. Ends(n, o, Guest) /\ Idle(o)
    BY LeftEnds
  <2>2. CompileDelaySlot(WriteBackRegisters(k), i) = CompileAlone(o, i)
    BY DEF CompileDelaySlot
  <2> HIDE DEF o
  <2>3. Ends(o, CompileAlone(o, i), Guest)
    BY <2>1, CompileAloneEnds
  <2> QED
    BY <2>1, <2>2, <2>3, EndsThrough
<1>2. Ends(n, CompileOp(Unprotected(k), i), Guest)
  <2> DEFINE o == Unprotected(k)
  <2>1. Ends(n, o, Guest) /\ Idle(o)
    BY UnprotectedIdle
  <2> HIDE DEF o
  <2>2. Ends(o, CompileOp(o, i), Guest)
    BY <2>1, CompileOpEnds
  <2>3. Ends(n, CompileOp(o, i), Guest)
    BY <2>1, <2>2, EndsThrough
  <2> QED
    BY <2>3 DEF o
<1> QED
  BY <1>1, <1>2 DEF Slot

LEMMA BeforeCompareEnds ==
    ASSUME NEW n, Idle(n), NEW b, b.slot \in Instructions, NEW effects
    PROVE  LET o == BeforeCompare(n, b, effects) IN Ends(n, o, Guest) /\ Idle(o)
<1>1. ASSUME NEW k, Ends(n, k, Guest), Idle(k) PROVE Ends(n, Falling(k, b), Guest) /\ Idle(Falling(k, b))
  <2> DEFINE way == IF b.backward THEN "jump" ELSE "cont"
             o == [k EXCEPT !.fall = way]
  <2>1. Falling(k, b) = o
    BY DEF Falling
  <2>2. Ends(n, o, Guest) /\ Prots(o) = Prots(k)
    <3> HIDE DEF way
    <3> QED
      BY <1>1, FallEnds
  <2> HIDE DEF o
  <2> QED
    BY <1>1, <2>1, <2>2 DEF Idle, Ends
<1>2. Ends(n, n, Guest)
  BY IdleSelf, Nothing
<1> DEFINE u == Unprotected(CompileOp(n, b.slot))
<1>3. Ends(n, u, Guest) /\ Idle(u)
  BY CompileOpEnds, UnprotectedIdle
<1>4. Ends(n, Falling(n, b), Guest) /\ Idle(Falling(n, b))
  BY <1>1, <1>2
<1> HIDE DEF u
<1>5. Ends(n, Falling(u, b), Guest) /\ Idle(Falling(u, b))
  BY <1>1, <1>3
<1>6. BeforeCompare(n, b, effects) \in {Falling(n, b), Falling(u, b)}
  BY DEF BeforeCompare, u
<1> QED
  BY <1>4, <1>5, <1>6

LEMMA AfterCompareEnds ==
    ASSUME NEW n, NEW k, Ends(n, k, Guest), NEW b, b.slot \in Instructions, NEW effects
    PROVE  Ends(n, AfterCompare(k, b, effects), Guest)
<1>1. Ends(n, Slot(k, b.slot, b.last), Guest)
  BY SlotEnds
<1> QED
  BY <1>1 DEF AfterCompare

LEMMA AfterLikelyEnds ==
    ASSUME NEW n, NEW k, Ends(n, k, Guest), NEW b, b.slot \in Instructions
    PROVE  Ends(n, AfterLikely(k, b), Guest)
<1> DEFINE o == Slot(k, b.slot, b.last)
           c == Slides(k, b)
<1>1. Ends(n, o, Guest)
  BY SlotEnds
<1>2. AfterLikely(k, b) \in {Slip(o, c), k}
  BY DEF AfterLikely
<1> HIDE DEF o, c
<1>3. Ends(n, Slip(o, c), Guest)
  BY <1>1, SlipEnds
<1> QED
  BY <1>2, <1>3

LEMMA FallIdle ==
    ASSUME NEW n, Idle(n), NEW way
    PROVE  LET o == [n EXCEPT !.fall = way] IN Ends(n, o, Guest) /\ Idle(o)
<1> DEFINE o == [n EXCEPT !.fall = way]
<1>1. Ends(n, n, Guest)
  BY IdleSelf, Nothing
<1>2. Ends(n, o, Guest) /\ Prots(o) = Prots(n)
  BY <1>1, FallEnds
<1> HIDE DEF o
<1>3. Idle(o)
  BY <1>2 DEF Idle, Ends
<1> QED
  BY <1>2, <1>3 DEF o

(* The return address in a register.                                       *)
LEMMA LinkedEnds ==
    ASSUME NEW n, Idle(n), NEW r \in Guest
    PROVE  Ends(n, Linked(n, r), Guest) /\ Idle(Linked(n, r))
<1> DEFINE k == Drop(n, r)
           o == SetConst32(k, r, ReturnPC)
<1>1. Linked(n, r) = o
  BY Zenon DEF Linked, Drop
<1>2. Ends(n, k, {r}) /\ ~IsMapped(k, r) /\ Prots(k) \subseteq Prots(n)
  BY IdleSelf, DropDoes
<1> HIDE DEF k
<1>3. Ends(n, o, {r})
  BY <1>2, SetConstEnds
<1>4. Prots(o) = Prots(k)
  BY <1>2 DEF SetConst32, Prots, Ends, Sound, Shape, Fields
<1> HIDE DEF o
<1>5. Ends(n, o, Guest) /\ Idle(o)
  BY <1>2, <1>3, <1>4, Widest DEF Idle, Ends
<1> QED
  BY <1>1, <1>5

(* The register that a jump goes through is read.                          *)
LEMMA ReadEnds ==
    ASSUME NEW n, NEW k, Ends(n, k, Guest), Idle(k), NEW r
    PROVE  Ends(n, Read(k, r), Guest)
<1> DEFINE h == InHost(k, r)
           o == TargetSet(h, r)
<1>1. Ends(k, h, {}) /\ Sound(h)
  BY InHostEnds DEF Ends
<1> HIDE DEF h
<1>2. Beside(h, o)
  BY <1>1 DEF TargetSet, Beside, Sound, Shape, Fields
<1> HIDE DEF o
<1>3. Ends(h, o, {})
  BY <1>1, <1>2, BesideDoes
<1>4. Ends(n, h, Guest)
  BY <1>1, EndsThrough
<1>5. Ends(n, o, Guest)
  BY <1>3, <1>4, EndsThrough
<1> QED
  BY <1>5 DEF Read, h, o

LEMMA SlotThenReadEnds ==
    ASSUME NEW n, NEW k, Ends(n, k, Guest), Idle(k), NEW r, NEW b, b.slot \in Instructions
    PROVE  Ends(n, SlotThenRead(k, r, b), Guest)
<1> DEFINE o == CompileOp(k, b.slot)
           u == Unprotected(o)
<1>1. Ends(k, o, Guest)
  BY CompileOpEnds
<1> HIDE DEF o
<1>2. Ends(n, o, Guest)
  BY <1>1, EndsThrough
<1>3. Ends(n, u, Guest) /\ Idle(u)
  BY <1>2, UnprotectedIdle
<1> HIDE DEF u
<1>4. Ends(n, Read(u, r), Guest)
  BY <1>3, ReadEnds
<1> QED
  BY <1>4 DEF SlotThenRead, u, o

LEMMA IdleWhole ==
    ASSUME NEW n, Idle(n)
    PROVE  Ends(n, n, Guest)
BY IdleSelf, Nothing

LEMMA Compile_J_Ends ==
    ASSUME NEW n, Idle(n), NEW b, b.slot \in Instructions
    PROVE  Ends(n, Compile_J(n, b), Guest) /\ Ends(n, Compile_JAL(n, b), Guest)
<1> DEFINE p == Slot(n, b.slot, b.last)
           k == Linked(n, Link)
           q == Slot(k, b.slot, b.last)
<1>1. Ends(n, p, Guest)
  BY IdleWhole, SlotEnds
<1>2. Ends(n, k, Guest)
  BY LinkAssumption, LinkedEnds
<1> HIDE DEF k
<1>3. Ends(n, q, Guest)
  BY <1>2, SlotEnds
<1>4. Compile_J(n, b) = Decided(p, TRUE) /\ Compile_JAL(n, b) = Decided(q, TRUE)
  BY Zenon DEF Compile_J, Compile_JAL, p, q, k
<1> HIDE DEF p, q
<1> DEFINE o1 == Decided(p, TRUE)
           o2 == Decided(q, TRUE)
<1>5. Ends(n, o1, Guest)
  BY <1>1, WentEnds
<1>6. Ends(n, o2, Guest)
  BY <1>3, WentEnds
<1> QED
  BY <1>4, <1>5, <1>6, Zenon

LEMMA Compile_JR_Ends ==
    ASSUME NEW n, Idle(n), NEW rs, NEW b, b.slot \in Instructions
    PROVE  Ends(n, Compile_JR(n, rs, b), Guest)
<1> DEFINE p == Slot(Read(n, rs), b.slot, b.last)
           q == SlotThenRead(n, rs, b)
           c == DelaySlotEffectsCompare(b.slot, rs, 0) \/ b.last \/ IsConst(n, rs)
           d == Unnoticed(b.slot, rs, 0)
           o == IF c THEN p ELSE q
<1>1. Ends(n, p, Guest)
  BY IdleWhole, ReadEnds, SlotEnds
<1>2. Ends(n, q, Guest)
  BY IdleWhole, SlotThenReadEnds
<1>3. Compile_JR(n, rs, b) = Slip(o, d)
  BY Zenon DEF Compile_JR, o, c, d, p, q
<1> HIDE DEF p, q, c, d
<1>4. Ends(n, o, Guest)
  BY <1>1, <1>2
<1> HIDE DEF o
<1> QED
  BY <1>3, <1>4, SlipEnds

LEMMA UnknownIdle ==
    ASSUME NEW n, Idle(n)
    PROVE  Ends(n, UnknownOpcode(n), Guest) /\ Idle(UnknownOpcode(n))
BY Unknown, IdleSelf DEF Idle

LEMMA Compile_JALR_Ends ==
    ASSUME NEW n, Idle(n), NEW rd \in Guest, NEW rs, NEW b, b.slot \in Instructions
    PROVE  Ends(n, Compile_JALR(n, rd, rs, b), Guest)
<1> DEFINE c == DelaySlotEffectsCompare(b.slot, rs, 0)
           d == rd \in {0, rs} \/ Unnoticed(b.slot, rs, 0)
           u == IF c THEN UnknownOpcode(n) ELSE n
           k == Linked(u, rd)
           p == Slot(Read(k, rs), b.slot, TRUE)
           q == SlotThenRead(k, rs, b)
           o == IF b.last THEN p ELSE q
<1>1. Compile_JALR(n, rd, rs, b) = Slip(o, d)
  BY Zenon DEF Compile_JALR, AfterLink, o, q, p, k, u, c, d
<1> HIDE DEF c, d
<1>2. Ends(n, u, Guest) /\ Idle(u)
  BY UnknownIdle, IdleWhole
<1> HIDE DEF u
<1>3. Ends(u, k, Guest) /\ Idle(k)
  BY <1>2, LinkedEnds
<1> HIDE DEF k
<1>4. Ends(n, k, Guest)
  BY <1>2, <1>3, EndsThrough
<1> DEFINE r == Read(k, rs)
<1>5. Ends(n, r, Guest)
  BY <1>3, <1>4, ReadEnds
<1> HIDE DEF r
<1> DEFINE t == Slot(r, b.slot, TRUE)
<1>6. Ends(n, t, Guest)
  BY <1>5, SlotEnds
<1>7. p = t
  BY Zenon DEF r
<1>8. Ends(n, q, Guest)
  BY <1>3, <1>4, SlotThenReadEnds
<1> HIDE DEF p, q, t
<1>9. Ends(n, o, Guest)
  BY <1>6, <1>7, <1>8
<1> HIDE DEF o
<1> QED
  BY <1>1, <1>9, SlipEnds

---------------------------------------------------------------------------
\* The machine between two instructions.

(* Unless it slipped, the machine of the next instruction has a sound      *)
(* cache in which nothing is protected, runs, has not failed, and its      *)
(* register 0 is a zero in memory.                                         *)
Kept == m.slip = TRUE \/ (Idle(m) /\ m.live = TRUE /\ m.slip = FALSE /\ m.fault = "none" /\ m.gpr[0] = Zero)

LEMMA StepKept ==
    ASSUME Kept, ~m.slip, NEW n, Ends(m, n, Guest) \/ Slipped(n), NEW t, Step(n, t)
    PROVE  Kept'
<1> DEFINE u == Unprotected(n)
<1>1. m' = u
  BY DEF Step
<1>2. ASSUME Ends(m, n, Guest)
      PROVE  u.slip = TRUE \/ (Idle(u) /\ u.live = TRUE /\ u.slip = FALSE /\ u.fault = "none" /\ u.gpr[0] = Zero)
  <2>1. Ends(m, u, Guest) /\ Idle(u)
    BY <1>2, UnprotectedIdle
  <2> HIDE DEF u
  <2>2. u.slip \in BOOLEAN
    BY <2>1 DEF Ends, Sound, Shape
  <2> QED
    BY <2>1, <2>2 DEF Kept, Ends, Effect
<1>3. ASSUME Slipped(n) PROVE u.slip = TRUE
  BY <1>3 DEF Slipped, Unprotected
<1> HIDE DEF u
<1> QED
  BY <1>1, <1>2, <1>3 DEF Kept

LEMMA NamesInside ==
    /\ Operands \subseteq Guest /\ 0 \in Operands /\ Targets \subseteq Guest
    /\ \A b \in Places : b.slot \in Instructions
<1>1. Range(Named) \subseteq Guest
  BY RecompiledAssumption DEF Range
<1>2. Operands \subseteq Guest /\ 0 \in Operands /\ Targets \subseteq Guest
  BY <1>1, ConstantFacts DEF Operands, Targets
<1>3. Slots \subseteq Instructions
  BY RecompiledAssumption DEF Instructions
<1> QED
  BY <1>2, <1>3 DEF Places

LEMMA CompilesIdle ==
    ASSUME Kept, NEW group, Compiles(group)
    PROVE  ~m.slip /\ Idle(m)
BY DEF Kept, Compiles

LEMMA WithImmediateKept ==
    ASSUME Kept, WithImmediate
    PROVE  Kept'
<1>1. ~m.slip /\ Idle(m)
  BY CompilesIdle DEF WithImmediate
<1>2. \A n, t : \A r \in Guest : Ends(m, n, {r}) /\ Step(n, t) => Kept'
  BY <1>1, StepKept, Widest
<1>3. CASE OfImmediate(Compile_ADDI, ADDI)
  BY <1>1, <1>2, <1>3, NamesInside, Compile_ADDI_Ends DEF OfImmediate
<1>4. CASE OfImmediate(Compile_ADDIU, ADDIU)
  BY <1>1, <1>2, <1>4, NamesInside, Compile_ADDIU_Ends DEF OfImmediate
<1>5. CASE OfImmediate(Compile_DADDIU, DADDIU)
  BY <1>1, <1>2, <1>5, NamesInside, Compile_DADDIU_Ends DEF OfImmediate
<1>6. CASE OfImmediate(Compile_SLTI, SLTI)
  BY <1>1, <1>2, <1>6, NamesInside, Compile_SLTI_Ends DEF OfImmediate
<1>7. CASE OfImmediate(Compile_SLTIU, SLTIU)
  BY <1>1, <1>2, <1>7, NamesInside, Compile_SLTIU_Ends DEF OfImmediate
<1>8. CASE OfImmediate(Compile_ANDI, ANDI)
  BY <1>1, <1>2, <1>8, NamesInside, Compile_ANDI_Ends DEF OfImmediate
<1>9. CASE OfImmediate(Compile_ORI, ORI)
  BY <1>1, <1>2, <1>9, NamesInside, Compile_ORI_Ends DEF OfImmediate
<1>10. CASE OfImmediate(Compile_XORI, XORI)
  BY <1>1, <1>2, <1>10, NamesInside, Compile_XORI_Ends DEF OfImmediate
<1>11. CASE \E rt \in Targets, imm \in Immediate : Step(Compile_LUI(m, rt, imm), LUI(s, rt, imm))
  BY <1>1, <1>2, <1>11, NamesInside, Compile_LUI_Ends
<1> QED
  BY <1>3, <1>4, <1>5, <1>6, <1>7, <1>8, <1>9, <1>10, <1>11 DEF WithImmediate

LEMMA ShiftKept ==
    ASSUME Kept, Shift
    PROVE  Kept'
<1>1. ~m.slip /\ Idle(m)
  BY CompilesIdle DEF Shift
<1>2. \A n, t : \A r \in Guest : Ends(m, n, {r}) /\ Step(n, t) => Kept'
  BY <1>1, StepKept, Widest
<1>3. \A n, t : Ends(m, n, {}) /\ Step(n, t) => Kept'
  BY <1>1, StepKept, Widest
<1>4. CASE OfImmediate(Compile_SLL, SLL)
  BY <1>1, <1>2, <1>3, <1>4, NamesInside, Compile_SLL_Ends DEF OfImmediate
<1>5. CASE OfImmediate(Compile_SRL, SRL)
  BY <1>1, <1>2, <1>3, <1>5, NamesInside, Compile_SRL_Ends DEF OfImmediate
<1>6. CASE OfImmediate(Compile_SRA, SRA)
  BY <1>1, <1>2, <1>3, <1>6, NamesInside, Compile_SRL_Ends DEF OfImmediate
<1>7. CASE OfImmediate(Compile_DSLL, DSLL)
  BY <1>1, <1>2, <1>3, <1>7, NamesInside, Compile_DSLL_Ends DEF OfImmediate
<1>8. CASE OfImmediate(Compile_DSRL, DSRL)
  BY <1>1, <1>2, <1>3, <1>8, NamesInside, Compile_DSLL_Ends DEF OfImmediate
<1>9. CASE OfImmediate(Compile_DSRA, DSRA)
  BY <1>1, <1>2, <1>3, <1>9, NamesInside, Compile_DSLL_Ends DEF OfImmediate
<1>10. CASE OfImmediate(Compile_DSLL32, DSLL32)
  BY <1>1, <1>2, <1>3, <1>10, NamesInside, Compile_DSLL32_Ends DEF OfImmediate
<1>11. CASE OfImmediate(Compile_DSRL32, DSRL32)
  BY <1>1, <1>2, <1>3, <1>11, NamesInside, Compile_DSRL32_Ends DEF OfImmediate
<1>12. CASE OfImmediate(Compile_DSRA32, DSRA32)
  BY <1>1, <1>2, <1>3, <1>12, NamesInside, Compile_DSRL32_Ends DEF OfImmediate
<1> QED
  BY <1>4, <1>5, <1>6, <1>7, <1>8, <1>9, <1>10, <1>11, <1>12 DEF Shift

LEMMA ShiftVariableKept ==
    ASSUME Kept, ShiftVariable
    PROVE  Kept'
<1>1. ~m.slip /\ Idle(m)
  BY CompilesIdle DEF ShiftVariable
<1>2. \A n, t : \A r \in Guest : Ends(m, n, {r}) /\ Step(n, t) => Kept'
  BY <1>1, StepKept, Widest
<1>3. \A n, t : Ends(m, n, {}) /\ Step(n, t) => Kept'
  BY <1>1, StepKept, Widest
<1>4. CASE OfPair(Compile_SLLV, SLLV)
  BY <1>1, <1>2, <1>3, <1>4, NamesInside, Compile_SLLV_Ends DEF OfPair
<1>5. CASE OfPair(Compile_SRLV, SRLV)
  BY <1>1, <1>2, <1>3, <1>5, NamesInside, Compile_SLLV_Ends DEF OfPair
<1>6. CASE OfPair(Compile_SRAV, SRAV)
  BY <1>1, <1>2, <1>3, <1>6, NamesInside, Compile_SLLV_Ends DEF OfPair
<1>7. CASE OfPair(Compile_DSLLV, DSLLV)
  BY <1>1, <1>2, <1>3, <1>7, NamesInside, Compile_DSLLV_Ends DEF OfPair
<1>8. CASE OfPair(Compile_DSRLV, DSRLV)
  BY <1>1, <1>2, <1>3, <1>8, NamesInside, Compile_DSLLV_Ends DEF OfPair
<1>9. CASE OfPair(Compile_DSRAV, DSRAV)
  BY <1>1, <1>2, <1>3, <1>9, NamesInside, Compile_DSLLV_Ends DEF OfPair
<1> QED
  BY <1>4, <1>5, <1>6, <1>7, <1>8, <1>9 DEF ShiftVariable

LEMMA CombinationKept ==
    ASSUME Kept, Combination
    PROVE  Kept'
<1>1. ~m.slip /\ Idle(m)
  BY CompilesIdle DEF Combination
<1>2. \A n, t : \A r \in Guest : Ends(m, n, {r}) /\ Step(n, t) => Kept'
  BY <1>1, StepKept, Widest
<1>3. \A n, t : Ends(m, n, {}) /\ Step(n, t) => Kept'
  BY <1>1, StepKept, Widest
<1>4. CASE OfPair(Compile_ADD, ADD)
  BY <1>1, <1>2, <1>3, <1>4, NamesInside, Compile_ADD_Ends DEF OfPair
<1>5. CASE OfPair(Compile_ADDU, ADDU)
  BY <1>1, <1>2, <1>3, <1>5, NamesInside, Compile_ADD_Ends DEF OfPair
<1>6. CASE OfPair(Compile_SUB, SUB)
  BY <1>1, <1>2, <1>3, <1>6, NamesInside, Compile_SUB_Ends DEF OfPair
<1>7. CASE OfPair(Compile_SUBU, SUBU)
  BY <1>1, <1>2, <1>3, <1>7, NamesInside, Compile_SUB_Ends DEF OfPair
<1>8. CASE OfPair(Compile_AND, AND)
  BY <1>1, <1>2, <1>3, <1>8, NamesInside, Compile_AND_Ends, StepKept DEF OfPair
<1>9. CASE OfPair(Compile_OR, OR)
  BY <1>1, <1>2, <1>3, <1>9, NamesInside, Compile_OR_Ends DEF OfPair
<1>10. CASE OfPair(Compile_XOR, XOR)
  BY <1>1, <1>2, <1>3, <1>10, NamesInside, Compile_XOR_Ends DEF OfPair
<1>11. CASE OfPair(Compile_NOR, NOR)
  BY <1>1, <1>2, <1>3, <1>11, NamesInside, Compile_NOR_Ends DEF OfPair
<1>12. CASE OfPair(Compile_SLT, SLT)
  BY <1>1, <1>2, <1>3, <1>12, NamesInside, Compile_SLT_Ends DEF OfPair
<1>13. CASE OfPair(Compile_SLTU, SLTU)
  BY <1>1, <1>2, <1>3, <1>13, NamesInside, Compile_SLT_Ends DEF OfPair
<1>14. CASE OfPair(Compile_DADD, DADD)
  BY <1>1, <1>2, <1>3, <1>14, NamesInside, Compile_DADD_Ends DEF OfPair
<1>15. CASE OfPair(Compile_DADDU, DADDU)
  BY <1>1, <1>2, <1>3, <1>15, NamesInside, Compile_DADD_Ends DEF OfPair
<1>16. CASE OfPair(Compile_DSUB, DSUB)
  BY <1>1, <1>2, <1>3, <1>16, NamesInside, Compile_DSUB_Ends DEF OfPair
<1>17. CASE OfPair(Compile_DSUBU, DSUBU)
  BY <1>1, <1>2, <1>3, <1>17, NamesInside, Compile_DSUB_Ends DEF OfPair
<1> QED
  BY <1>4, <1>5, <1>6, <1>7, <1>8, <1>9, <1>10, <1>11, <1>12, <1>13, <1>14, <1>15, <1>16, <1>17 DEF Combination

LEMMA MultiplicationKept ==
    ASSUME Kept, Multiplication
    PROVE  Kept'
<1>1. ~m.slip /\ Idle(m)
  BY CompilesIdle DEF Multiplication
<1>2. \A n, t : \A r \in Guest : Ends(m, n, {r}) /\ Step(n, t) => Kept'
  BY <1>1, StepKept, Widest
<1>3. \A n, t : Ends(m, n, {}) /\ Step(n, t) => Kept'
  BY <1>1, StepKept, Widest
<1>4. CASE OfFactors(Compile_MULT, MULT)
  BY <1>1, <1>2, <1>3, <1>4, NamesInside, Compile_MULT_Ends DEF OfFactors
<1>5. CASE OfFactors(Compile_MULTU, MULTU)
  BY <1>1, <1>2, <1>3, <1>5, NamesInside, Compile_MULT_Ends DEF OfFactors
<1>6. CASE OfFactors(Compile_DMULT, DMULT)
  BY <1>1, <1>2, <1>3, <1>6, NamesInside, Compile_DDIV_Ends DEF OfFactors
<1>7. CASE OfFactors(Compile_DMULTU, DMULTU)
  BY <1>1, <1>2, <1>3, <1>7, NamesInside, Compile_DMULTU_Ends DEF OfFactors
<1> QED
  BY <1>4, <1>5, <1>6, <1>7 DEF Multiplication

LEMMA DivisionKept ==
    ASSUME Kept, Division
    PROVE  Kept'
<1>1. ~m.slip /\ Idle(m)
  BY CompilesIdle DEF Division
<1>2. \A n, t : \A r \in Guest : Ends(m, n, {r}) /\ Step(n, t) => Kept'
  BY <1>1, StepKept, Widest
<1>3. \A n, t : Ends(m, n, {}) /\ Step(n, t) => Kept'
  BY <1>1, StepKept, Widest
<1>4. CASE OfFactors(Compile_DDIV, DDIV)
  BY <1>1, <1>2, <1>3, <1>4, NamesInside, Compile_DDIV_Ends DEF OfFactors
<1>5. CASE OfFactors(Compile_DDIVU, DDIVU)
  BY <1>1, <1>2, <1>3, <1>5, NamesInside, Compile_DDIV_Ends DEF OfFactors
<1>6. CASE \E rs, rt \in Operands : /\ ~DividesBadly(s, rs, rt)
                                  /\ \/ Step(Compile_DIV(m, rs, rt), DIV(s, rs, rt))
                                     \/ Step(Compile_DIVU(m, rs, rt), DIVU(s, rs, rt))
  BY <1>1, <1>2, <1>3, <1>6, NamesInside, Compile_DIV_Ends
<1> QED
  BY <1>4, <1>5, <1>6 DEF Division

LEMMA MoveHiLoKept ==
    ASSUME Kept, MoveHiLo
    PROVE  Kept'
<1>1. ~m.slip /\ Idle(m)
  BY CompilesIdle DEF MoveHiLo
<1>2. \A n, t : \A r \in Guest : Ends(m, n, {r}) /\ Step(n, t) => Kept'
  BY <1>1, StepKept, Widest
<1>3. \A n, t : Ends(m, n, {}) /\ Step(n, t) => Kept'
  BY <1>1, StepKept, Widest
<1>4. CASE \E r \in Targets : \/ Step(Compile_MFHI(m, r), MFHI(s, r))
                             \/ Step(Compile_MFLO(m, r), MFLO(s, r))
  BY <1>1, <1>2, <1>3, <1>4, NamesInside, Compile_MFLO_Ends
<1>5. CASE \E r \in Targets : \/ Step(Compile_MTHI(m, r), MTHI(s, r))
                             \/ Step(Compile_MTLO(m, r), MTLO(s, r))
  BY <1>1, <1>2, <1>3, <1>5, NamesInside, Compile_MTLO_Ends
<1> QED
  BY <1>4, <1>5 DEF MoveHiLo

LEMMA LoadKept ==
    ASSUME Kept, Load
    PROVE  Kept'
<1>1. ~m.slip /\ Idle(m)
  BY CompilesIdle DEF Load
<1>2. \A n, t : \A r \in Guest : Ends(m, n, {r}) /\ Step(n, t) => Kept'
  BY <1>1, StepKept, Widest
<1>3. \A n, t : Ends(m, n, {}) /\ Step(n, t) => Kept'
  BY <1>1, StepKept, Widest
<1>4. CASE OfMemory(1, Compile_LB, LB)
  BY <1>1, <1>2, <1>3, <1>4, NamesInside, Compile_LB_Ends DEF OfMemory
<1>5. CASE OfMemory(1, Compile_LBU, LBU)
  BY <1>1, <1>2, <1>3, <1>5, NamesInside, Compile_LB_Ends DEF OfMemory
<1>6. CASE OfMemory(2, Compile_LH, LH)
  BY <1>1, <1>2, <1>3, <1>6, NamesInside, Compile_LB_Ends DEF OfMemory
<1>7. CASE OfMemory(2, Compile_LHU, LHU)
  BY <1>1, <1>2, <1>3, <1>7, NamesInside, Compile_LB_Ends DEF OfMemory
<1>8. CASE OfMemory(4, Compile_LW, LW)
  BY <1>1, <1>2, <1>3, <1>8, NamesInside, Compile_LW_Ends DEF OfMemory
<1>9. CASE OfMemory(4, Compile_LWU, LWU)
  BY <1>1, <1>2, <1>3, <1>9, NamesInside, Compile_LB_Ends DEF OfMemory
<1>10. CASE OfMemory(4, Compile_LL, LL)
  BY <1>1, <1>2, <1>3, <1>10, NamesInside, Compile_LL_Ends DEF OfMemory
<1>11. CASE OfMemory(8, Compile_LD, LD)
  BY <1>1, <1>2, <1>3, <1>11, NamesInside, Compile_LD_Ends DEF OfMemory
<1>12. CASE OfMemory(1, Compile_LWL, LWL)
  BY <1>1, <1>2, <1>3, <1>12, NamesInside, Compile_LWL_Ends DEF OfMemory
<1>13. CASE OfMemory(1, Compile_LWR, LWR)
  BY <1>1, <1>2, <1>3, <1>13, NamesInside, Compile_LWL_Ends DEF OfMemory
<1>14. CASE OfMemory(1, Compile_LDL, LDL)
  BY <1>1, <1>2, <1>3, <1>14, NamesInside, Compile_LDL_Ends DEF OfMemory
<1>15. CASE OfMemory(1, Compile_LDR, LDR)
  BY <1>1, <1>2, <1>3, <1>15, NamesInside, Compile_LDL_Ends DEF OfMemory
<1> QED
  BY <1>4, <1>5, <1>6, <1>7, <1>8, <1>9, <1>10, <1>11, <1>12, <1>13, <1>14, <1>15 DEF Load

LEMMA StoreKept ==
    ASSUME Kept, Store
    PROVE  Kept'
<1>1. ~m.slip /\ Idle(m)
  BY CompilesIdle DEF Store
<1>2. \A n, t : \A r \in Guest : Ends(m, n, {r}) /\ Step(n, t) => Kept'
  BY <1>1, StepKept, Widest
<1>3. \A n, t : Ends(m, n, {}) /\ Step(n, t) => Kept'
  BY <1>1, StepKept, Widest
<1>4. CASE OfMemory(1, Compile_SB, SB)
  BY <1>1, <1>2, <1>3, <1>4, NamesInside, Compile_SB_Ends DEF OfMemory
<1>5. CASE OfMemory(2, Compile_SH, SH)
  BY <1>1, <1>2, <1>3, <1>5, NamesInside, Compile_SB_Ends DEF OfMemory
<1>6. CASE OfMemory(4, Compile_SW, SW)
  BY <1>1, <1>2, <1>3, <1>6, NamesInside, Compile_SB_Ends DEF OfMemory
<1>7. CASE OfMemory(4, Compile_SC, SC)
  BY <1>1, <1>2, <1>3, <1>7, NamesInside, Compile_SC_Ends DEF OfMemory
<1>8. CASE OfMemory(8, Compile_SD, SD)
  BY <1>1, <1>2, <1>3, <1>8, NamesInside, Compile_SD_Ends DEF OfMemory
<1>9. CASE OfMemory(1, Compile_SWL, SWL)
  BY <1>1, <1>2, <1>3, <1>9, NamesInside, Compile_SWL_Ends DEF OfMemory
<1>10. CASE OfMemory(1, Compile_SWR, SWR)
  BY <1>1, <1>2, <1>3, <1>10, NamesInside, Compile_SWL_Ends DEF OfMemory
<1>11. CASE OfMemory(1, Compile_SDL, SDL)
  BY <1>1, <1>2, <1>3, <1>11, NamesInside, Compile_LDL_Ends DEF OfMemory
<1>12. CASE OfMemory(1, Compile_SDR, SDR)
  BY <1>1, <1>2, <1>3, <1>12, NamesInside, Compile_LDL_Ends DEF OfMemory
<1> QED
  BY <1>4, <1>5, <1>6, <1>7, <1>8, <1>9, <1>10, <1>11, <1>12 DEF Store

(* Whatever is done beside what is compiled, the machine stays sound.      *)
LEMMA WholeKept ==
    ASSUME Kept, ~m.slip, NEW n, Ends(m, n, Guest), NEW t, NEW b, Step(Slip(n, b), t)
    PROVE  Kept'
<1> DEFINE o == Slip(n, b)
<1>1. Ends(m, o, Guest)
  BY SlipEnds
<1> HIDE DEF o
<1> QED
  BY <1>1, StepKept DEF o

LEMMA LikelyIdle ==
    ASSUME NEW n, Idle(n), NEW b, b.slot \in Instructions
    PROVE  LET p == [n EXCEPT !.fall = "jump"]
           IN Idle(p) /\ \A k : Ends(p, k, {}) => Ends(n, AfterLikely(k, b), Guest)
<1> DEFINE p == [n EXCEPT !.fall = "jump"]
<1>1. Ends(n, p, Guest) /\ Idle(p)
  BY FallIdle
<1> HIDE DEF p
<1>2. ASSUME NEW k, Ends(p, k, {}) PROVE Ends(n, AfterLikely(k, b), Guest)
  <2>1. Ends(n, k, Guest)
    BY <1>1, <1>2, EndsThrough
  <2> QED
    BY <2>1, AfterLikelyEnds
<1> QED
  BY <1>1, <1>2 DEF p

LEMMA ComparedIdle ==
    ASSUME NEW n, NEW k, Ends(n, k, Guest), Idle(k), NEW b, b.slot \in Instructions, NEW effects
    PROVE  LET p == BeforeCompare(k, b, effects)
           IN Idle(p) /\ \A o : Ends(p, o, {}) => Ends(n, AfterCompare(o, b, effects), Guest)
<1> DEFINE p == BeforeCompare(k, b, effects)
<1>1. Ends(k, p, Guest) /\ Idle(p)
  BY BeforeCompareEnds
<1> HIDE DEF p
<1>2. ASSUME NEW o, Ends(p, o, {}) PROVE Ends(n, AfterCompare(o, b, effects), Guest)
  <2>1. Ends(n, p, Guest)
    BY <1>1, EndsThrough
  <2>2. Ends(n, o, Guest)
    BY <1>2, <2>1, EndsThrough
  <2> QED
    BY <2>2, AfterCompareEnds
<1> QED
  BY <1>1, <1>2 DEF p

LEMMA JumpKept ==
    ASSUME Kept, Jump
    PROVE  Kept'
<1>1. ~m.slip /\ Idle(m)
  BY CompilesIdle DEF Jump
<1>2. \A n, t : Ends(m, n, Guest) /\ Step(n, t) => Kept'
  BY <1>1, StepKept
<1>3. \A n, t : Ends(m, n, Guest) /\ Step(Left(n), t) => Kept'
  BY <1>1, <1>2, LeftEnds DEF Left
<1>4. PICK b \in Places :
          \/ Step(Compile_J(m, b), J(s, b))
          \/ Step(Left(Compile_JAL(m, b)), JAL(s, b))
          \/ \E rs \in Operands : \/ Step(Left(Compile_JR(m, rs, b)), JR(s, rs, b))
                                 \/ \E rd \in Targets : Step(Left(Compile_JALR(m, rd, rs, b)), JALR(s, rd, rs, b))
  BY DEF Jump
<1>5. b.slot \in Instructions
  BY <1>4, NamesInside
<1>6. Ends(m, Compile_J(m, b), Guest) /\ Ends(m, Compile_JAL(m, b), Guest)
  BY <1>1, <1>5, Compile_J_Ends
<1>7. \A rs : Ends(m, Compile_JR(m, rs, b), Guest)
  BY <1>1, <1>5, Compile_JR_Ends
<1>8. \A rd \in Targets : \A rs : Ends(m, Compile_JALR(m, rd, rs, b), Guest)
  BY <1>1, <1>5, NamesInside, Compile_JALR_Ends
<1> QED
  BY <1>2, <1>3, <1>4, <1>6, <1>7, <1>8

(* Either kind of branch, with what its comparison leaves.                 *)
LEMMA TwoWays ==
    ASSUME Kept, ~m.slip, Idle(m), NEW b \in Places, NEW e, NEW k, NEW l,
           Ends(BeforeCompare(m, b, e), k, {}), Ends([m EXCEPT !.fall = "jump"], l, {}),
           \/ \E u, t : Step(Slip(AfterCompare(k, b, e), u), t)
           \/ \E t : Step(AfterLikely(l, b), t)
    PROVE  Kept'
<1>1. b.slot \in Instructions /\ Ends(m, m, Guest)
  BY NamesInside, IdleWhole
<1>2. Ends(m, AfterCompare(k, b, e), Guest)
  BY <1>1, ComparedIdle
<1>3. Ends(m, AfterLikely(l, b), Guest)
  BY <1>1, LikelyIdle
<1> DEFINE x == AfterCompare(k, b, e)
           y == AfterLikely(l, b)
<1> HIDE DEF x, y
<1>4. Ends(m, x, Guest) /\ Ends(m, y, Guest) /\ ((\E u, t : Step(Slip(x, u), t)) \/ (\E t : Step(y, t)))
  BY <1>2, <1>3, Zenon DEF x, y
<1> QED
  BY <1>4, WholeKept, StepKept

LEMMA BranchOnPairKept ==
    ASSUME Kept, BranchOnPair
    PROVE  Kept'
<1>1. ~m.slip /\ Idle(m)
  BY CompilesIdle DEF BranchOnPair
<1> DEFINE p == [m EXCEPT !.fall = "jump"]
<1>2. Idle(p)
  BY <1>1, FallIdle
<1> HIDE DEF p
<1>3. PICK b \in Places, rs \in Operands, rt \in Operands :
          \/ Compare2(BEQ_Compare, b, rs, rt, BEQ(s, rs, rt))
          \/ Compare2(BNE_Compare, b, rs, rt, BNE(s, rs, rt))
  BY DEF BranchOnPair
<1>4. CASE Compare2(BEQ_Compare, b, rs, rt, BEQ(s, rs, rt))
  <2> DEFINE e == DelaySlotEffectsCompare(b.slot, rs, rt)
             q == BeforeCompare(m, b, e)
             k == BEQ_Compare(q, rs, rt)
             l == BEQ_Compare(p, rs, rt)
  <2>1. \/ \E u, t : Step(Slip(AfterCompare(k, b, e), u), t)
        \/ \E t : Step(AfterLikely(l, b), t)
    BY <1>4, Zenon DEF Compare2, Compile_Branch, Compile_BranchLikely, e, q, k, l, p
  <2> HIDE DEF e
  <2>2. Idle(q)
    BY <1>1, NamesInside, BeforeCompareEnds
  <2> HIDE DEF q
  <2>3. Ends(q, k, {}) /\ Ends(p, l, {})
    BY <1>2, <1>3, <2>2, NamesInside, BEQ_Compare_Ends
  <2> HIDE DEF k, l
  <2> QED
    BY <1>1, <2>1, <2>3, TwoWays DEF q, p
<1>5. CASE Compare2(BNE_Compare, b, rs, rt, BNE(s, rs, rt))
  <2> DEFINE e == DelaySlotEffectsCompare(b.slot, rs, rt)
             q == BeforeCompare(m, b, e)
             k == BNE_Compare(q, rs, rt)
             l == BNE_Compare(p, rs, rt)
  <2>1. \/ \E u, t : Step(Slip(AfterCompare(k, b, e), u), t)
        \/ \E t : Step(AfterLikely(l, b), t)
    BY <1>5, Zenon DEF Compare2, Compile_Branch, Compile_BranchLikely, e, q, k, l, p
  <2> HIDE DEF e
  <2>2. Idle(q)
    BY <1>1, NamesInside, BeforeCompareEnds
  <2> HIDE DEF q
  <2>3. Ends(q, k, {}) /\ Ends(p, l, {})
    BY <1>2, <1>3, <2>2, NamesInside, BEQ_Compare_Ends
  <2> HIDE DEF k, l
  <2> QED
    BY <1>1, <2>1, <2>3, TwoWays DEF q, p
<1> QED
  BY <1>3, <1>4, <1>5

LEMMA BranchOnSignKept ==
    ASSUME Kept, BranchOnSign
    PROVE  Kept'
<1>1. ~m.slip /\ Idle(m)
  BY CompilesIdle DEF BranchOnSign
<1> DEFINE p == [m EXCEPT !.fall = "jump"]
<1>2. Idle(p)
  BY <1>1, FallIdle
<1> HIDE DEF p
<1>3. PICK b \in Places, rs \in Operands :
          \/ Compare2(LAMBDA n, r, z : BGTZ_Compare(n, r), b, rs, 0, BGTZ(s, rs))
          \/ Compare2(LAMBDA n, r, z : BLEZ_Compare(n, r), b, rs, 0, BLEZ(s, rs))
          \/ Compare2(LAMBDA n, r, z : BLTZ_Compare(n, r), b, rs, 0, BLTZ(s, rs))
          \/ Compare2(LAMBDA n, r, z : BGEZ_Compare(n, r), b, rs, 0, BGEZ(s, rs))
  BY DEF BranchOnSign
<1>4. CASE Compare2(LAMBDA n, r, z : BGTZ_Compare(n, r), b, rs, 0, BGTZ(s, rs))
  <2> DEFINE e == DelaySlotEffectsCompare(b.slot, rs, 0)
             q == BeforeCompare(m, b, e)
             k == BGTZ_Compare(q, rs)
             l == BGTZ_Compare(p, rs)
  <2>1. \/ \E u, t : Step(Slip(AfterCompare(k, b, e), u), t)
        \/ \E t : Step(AfterLikely(l, b), t)
    BY <1>4, Zenon DEF Compare2, Compile_Branch, Compile_BranchLikely, e, q, k, l, p
  <2> HIDE DEF e
  <2>2. Idle(q)
    BY <1>1, NamesInside, BeforeCompareEnds
  <2> HIDE DEF q
  <2>3. Ends(q, k, {}) /\ Ends(p, l, {})
    BY <1>2, <1>3, <2>2, NamesInside, Sign_Compare_Ends
  <2> HIDE DEF k, l
  <2> QED
    BY <1>1, <2>1, <2>3, TwoWays DEF q, p
<1>5. CASE Compare2(LAMBDA n, r, z : BLEZ_Compare(n, r), b, rs, 0, BLEZ(s, rs))
  <2> DEFINE e == DelaySlotEffectsCompare(b.slot, rs, 0)
             q == BeforeCompare(m, b, e)
             k == BLEZ_Compare(q, rs)
             l == BLEZ_Compare(p, rs)
  <2>1. \/ \E u, t : Step(Slip(AfterCompare(k, b, e), u), t)
        \/ \E t : Step(AfterLikely(l, b), t)
    BY <1>5, Zenon DEF Compare2, Compile_Branch, Compile_BranchLikely, e, q, k, l, p
  <2> HIDE DEF e
  <2>2. Idle(q)
    BY <1>1, NamesInside, BeforeCompareEnds
  <2> HIDE DEF q
  <2>3. Ends(q, k, {}) /\ Ends(p, l, {})
    BY <1>2, <1>3, <2>2, NamesInside, Sign_Compare_Ends
  <2> HIDE DEF k, l
  <2> QED
    BY <1>1, <2>1, <2>3, TwoWays DEF q, p
<1>6. CASE Compare2(LAMBDA n, r, z : BLTZ_Compare(n, r), b, rs, 0, BLTZ(s, rs))
  <2> DEFINE e == DelaySlotEffectsCompare(b.slot, rs, 0)
             q == BeforeCompare(m, b, e)
             k == BLTZ_Compare(q, rs)
             l == BLTZ_Compare(p, rs)
  <2>1. \/ \E u, t : Step(Slip(AfterCompare(k, b, e), u), t)
        \/ \E t : Step(AfterLikely(l, b), t)
    BY <1>6, Zenon DEF Compare2, Compile_Branch, Compile_BranchLikely, e, q, k, l, p
  <2> HIDE DEF e
  <2>2. Idle(q)
    BY <1>1, NamesInside, BeforeCompareEnds
  <2> HIDE DEF q
  <2>3. Ends(q, k, {}) /\ Ends(p, l, {})
    BY <1>2, <1>3, <2>2, NamesInside, Sign_Compare_Ends
  <2> HIDE DEF k, l
  <2> QED
    BY <1>1, <2>1, <2>3, TwoWays DEF q, p
<1>7. CASE Compare2(LAMBDA n, r, z : BGEZ_Compare(n, r), b, rs, 0, BGEZ(s, rs))
  <2> DEFINE e == DelaySlotEffectsCompare(b.slot, rs, 0)
             q == BeforeCompare(m, b, e)
             k == BGEZ_Compare(q, rs)
             l == BGEZ_Compare(p, rs)
  <2>1. \/ \E u, t : Step(Slip(AfterCompare(k, b, e), u), t)
        \/ \E t : Step(AfterLikely(l, b), t)
    BY <1>7, Zenon DEF Compare2, Compile_Branch, Compile_BranchLikely, e, q, k, l, p
  <2> HIDE DEF e
  <2>2. Idle(q)
    BY <1>1, NamesInside, BeforeCompareEnds
  <2> HIDE DEF q
  <2>3. Ends(q, k, {}) /\ Ends(p, l, {})
    BY <1>2, <1>3, <2>2, NamesInside, Sign_Compare_Ends
  <2> HIDE DEF k, l
  <2> QED
    BY <1>1, <2>1, <2>3, TwoWays DEF q, p
<1> QED
  BY <1>3, <1>4, <1>5, <1>6, <1>7

LEMMA BranchAndLinkKept ==
    ASSUME Kept, BranchAndLink
    PROVE  Kept'
<1>1. ~m.slip /\ Idle(m)
  BY CompilesIdle DEF BranchAndLink
<1> DEFINE p == Linked(m, Link)
<1>2. Ends(m, p, Guest) /\ Idle(p)
  BY <1>1, LinkAssumption, LinkedEnds
<1> HIDE DEF p
<1> DEFINE e(b, rs) == DelaySlotEffectsCompare(b.slot, rs, 0)
           q(b, rs) == BeforeCompare(p, b, e(b, rs))
<1>3. PICK b \in Places, rs \in Operands :
          \/ \E u, t : Step(Slip(AfterCompare(BLTZ_Compare(q(b, rs), rs), b, e(b, rs)), u), t)
          \/ \E u, t : Step(Slip(AfterCompare(BGEZ_Compare(q(b, rs), rs), b, e(b, rs)), u), t)
  BY Zenon DEF BranchAndLink, Compile_Branch, p
<1> DEFINE f == e(b, rs)
<1> HIDE DEF f
<1> DEFINE o == BeforeCompare(p, b, f)
           k == BLTZ_Compare(o, rs)
           l == BGEZ_Compare(o, rs)
           x == AfterCompare(k, b, f)
           y == AfterCompare(l, b, f)
<1>4. (\E u, t : Step(Slip(x, u), t)) \/ (\E u, t : Step(Slip(y, u), t))
  BY <1>3, Zenon DEF f
<1>5. b.slot \in Instructions
  BY NamesInside
<1>6. Idle(o) /\ \A i : Ends(o, i, {}) => Ends(m, AfterCompare(i, b, f), Guest)
  BY <1>2, <1>5, ComparedIdle
<1>7. Ends(o, k, {}) /\ Ends(o, l, {})
  BY <1>6, Sign_Compare_Ends
<1>8. Ends(m, x, Guest) /\ Ends(m, y, Guest)
  BY <1>6, <1>7
<1> HIDE DEF x, y
<1> QED
  BY <1>1, <1>4, <1>8, WholeKept

LEMMA BranchOnFloatKept ==
    ASSUME Kept, BranchOnFloat
    PROVE  Kept'
<1>1. ~m.slip /\ Idle(m)
  BY CompilesIdle DEF BranchOnFloat
<1> DEFINE p == [m EXCEPT !.fall = "jump"]
<1>2. Idle(p)
  BY <1>1, FallIdle
<1> HIDE DEF p
<1> DEFINE e == FALSE
           q(b) == BeforeCompare(m, b, e)
<1>3. PICK b \in Places :
          \/ \E u, t : Step(Slip(AfterCompare(COP1_BCF_Compare(q(b)), b, e), u), t)
          \/ \E t : Step(AfterLikely(COP1_BCF_Compare(p), b), t)
          \/ \E u, t : Step(Slip(AfterCompare(COP1_BCT_Compare(q(b)), b, e), u), t)
          \/ \E t : Step(AfterLikely(COP1_BCT_Compare(p), b), t)
  BY Zenon DEF BranchOnFloat, Compile_Branch, Compile_BranchLikely, p
<1> HIDE DEF e
<1> DEFINE o == BeforeCompare(m, b, e)
<1>4. Idle(o)
  BY <1>1, NamesInside, BeforeCompareEnds
<1> HIDE DEF o
<1> DEFINE k == COP1_BCF_Compare(o)
           l == COP1_BCF_Compare(p)
           x == COP1_BCT_Compare(o)
           y == COP1_BCT_Compare(p)
<1>5. Ends(o, k, {}) /\ Ends(o, x, {}) /\ Ends(p, l, {}) /\ Ends(p, y, {})
  BY <1>2, <1>4, Sign_Compare_Ends
<1>6. \/ (\E u, t : Step(Slip(AfterCompare(k, b, e), u), t)) \/ (\E t : Step(AfterLikely(l, b), t))
      \/ (\E u, t : Step(Slip(AfterCompare(x, b, e), u), t)) \/ (\E t : Step(AfterLikely(y, b), t))
  BY <1>3, Zenon DEF o
<1> HIDE DEF k, l, x, y
<1>7. CASE (\E u, t : Step(Slip(AfterCompare(k, b, e), u), t)) \/ (\E t : Step(AfterLikely(l, b), t))
  BY <1>1, <1>5, <1>7, TwoWays DEF o, p
<1>8. CASE (\E u, t : Step(Slip(AfterCompare(x, b, e), u), t)) \/ (\E t : Step(AfterLikely(y, b), t))
  BY <1>1, <1>5, <1>8, TwoWays DEF o, p
<1> QED
  BY <1>6, <1>7, <1>8

(* Whatever is compiled (one instruction, a branch with its slot, a jump), *)
(* on every path through the code that chooses registers, the machine that *)
(* is left is one that the next instruction may be compiled on:            *)
(* recompiler_cpu.c goes on with the cache that InitRegMap and the         *)
(* instructions before it left.                                            *)
THEOREM NextKept ==
    ASSUME Kept, [Next]_vars
    PROVE  Kept'
<1>1. CASE UNCHANGED vars
  BY <1>1 DEF vars, Kept, Idle
<1>2. CASE Next
  BY <1>2, WithImmediateKept, ShiftKept, ShiftVariableKept, CombinationKept, MultiplicationKept, DivisionKept,
     MoveHiLoKept, LoadKept, StoreKept, BranchOnPairKept, BranchOnSignKept, BranchAndLinkKept,
     BranchOnFloatKept, JumpKept DEF Next
<1> QED
  BY <1>1, <1>2

---------------------------------------------------------------------------
\* The machine before the first instruction.

(* Memory of a guest register is given a value.                            *)
LEMMA MemoryGiven ==
    ASSUME NEW n, Sound(n), NEW r \in Guest \ {0}, NEW d
    PROVE  Ends(n, [n EXCEPT !.gpr[r] = d], {r})
<1> DEFINE o == [n EXCEPT !.gpr[r] = d]
<1>1. /\ DOMAIN o = Fields /\ o.st = n.st /\ o.lo = n.lo /\ o.hi = n.hi /\ o.mapped = n.mapped /\ o.order = n.order
      /\ o.prot = n.prot /\ o.x = n.x /\ o.live = n.live /\ o.slip = n.slip /\ o.fault = n.fault
      /\ o.gpr = [n.gpr EXCEPT ![r] = d]
  BY DEF Sound, Shape, Fields
<1> HIDE DEF o
<1>2. \A q : Same(n, o, q)
  BY <1>1 DEF Same
<1>3. \A q : HostsOf(o, q) = HostsOf(n, q) /\ (IsMapped(o, q) <=> IsMapped(n, q)) /\ (IsConst(o, q) <=> IsConst(n, q))
  BY <1>2, SameHosts
<1>4. DOMAIN o.gpr = Guest /\ \A q \in Guest \ {r} : o.gpr[q] = n.gpr[q]
  BY <1>1 DEF Sound, Shape
<1>5. Shape(o) /\ Homes(o) /\ Apart(o) /\ Marked(o) /\ IsConst(o, 0)
  BY <1>1, <1>3, <1>4 DEF Sound, Shape, Homes, Apart, Marked
<1>6. \A q \in Guest \ {r} : Value(o, q) = Value(n, q)
  BY <1>1, <1>2, <1>4, HostsInside, SameValue
<1>7. o.gpr[0] = n.gpr[0]
  BY <1>4, ConstantFacts
<1>8. Effect(n, o, {r})
  BY <1>1, <1>6, <1>7 DEF Effect
<1> QED
  BY <1>5, <1>8 DEF Ends, Sound, o

LEMMA HoldingEnds ==
    ASSUME NEW n, Idle(n), NEW h, h.r \in Guest \ {0}
    PROVE  LET o == Holding(DropMapped(n, h.r), h) IN Ends(n, o, Guest) /\ Idle(o)
<1> DEFINE k == DropMapped(n, h.r)
<1>1. Ends(n, k, {h.r}) /\ Idle(k) /\ ~IsMapped(k, h.r)
  BY IdleSelf, DropDoes DEF Idle, Ends
<1> HIDE DEF k
<1>2. Sound(k) /\ Room(k, 1) /\ Room(k, 2) /\ Ends(k, k, {h.r})
  BY <1>1, IdleSelf, Nothing
<1>3. Ends(k, [k EXCEPT !.gpr[h.r] = h.d], {h.r})
  BY <1>2, MemoryGiven
<1>4. Ends(k, SetConst32(k, h.r, h.d.lo), {h.r}) /\ Ends(k, SetConst(k, h.r, h.d), {h.r})
  BY <1>1, <1>2, SetConstEnds
<1>5. Ends(k, SetBoth(Map_GPR_64bit(k, h.r, -1), h.r, h.d), {h.r})
  BY <1>2, Both64
<1>6. Ends(k, Narrowly(k, h), {h.r})
  <2> DEFINE b == h.st = STATE_MAPPED_32_SIGN
  <2>1. b \in BOOLEAN
    OBVIOUS
  <2>2. Narrowly(k, h) = SetLow(Map_GPR_32bit(k, h.r, b, -1), h.r, h.d.lo)
    BY Zenon DEF Narrowly, b
  <2> HIDE DEF b
  <2> QED
    BY <1>2, <2>1, <2>2, Low32
<1> DEFINE i == IF h.st = STATE_UNKNOWN THEN [k EXCEPT !.gpr[h.r] = h.d]
                ELSE IF h.st = STATE_CONST_32 THEN SetConst32(k, h.r, h.d.lo)
                ELSE IF h.st = STATE_CONST_64 THEN SetConst(k, h.r, h.d)
                ELSE Mapping(k, h)
<1>7. Holding(k, h) = Unprotected(i)
  BY Zenon DEF Holding, i
<1>8. Ends(k, i, {h.r})
  BY <1>3, <1>4, <1>5, <1>6 DEF Mapping
<1> HIDE DEF i
<1>9. Ends(n, i, Guest)
  BY <1>1, <1>8, EndsTrans
<1>10. Ends(n, Unprotected(i), Guest) /\ Idle(Unprotected(i))
  BY <1>9, UnprotectedIdle
<1> QED
  BY <1>7, <1>10 DEF k

(* The recursion of Laid has a solution, step by step.                     *)
Onto(list, k, i) == Holding(DropMapped(k, list[i].r), list[i])
LaidTo(n, list, hi, g) == g = [i \in 0 .. hi |-> IF i = 0 THEN n ELSE Onto(list, g[i - 1], i)]

LEMMA LaidExists ==
    ASSUME NEW n, NEW list
    PROVE  \A hi \in Nat : \E g : LaidTo(n, list, hi, g)
<1> DEFINE S == {hi \in Nat : \E g : LaidTo(n, list, hi, g)}
<1>1. 0 \in S
  <2> DEFINE g == [i \in 0 .. 0 |-> n]
  <2>1. g = [i \in 0 .. 0 |-> IF i = 0 THEN n ELSE Onto(list, g[i - 1], i)]
    OBVIOUS
  <2> QED
    BY <2>1 DEF LaidTo
<1>2. ASSUME NEW hi \in S PROVE hi + 1 \in S
  <2>1. PICK g : LaidTo(n, list, hi, g)
    OBVIOUS
  <2> DEFINE h == [i \in 0 .. hi + 1 |-> IF i <= hi THEN g[i] ELSE Onto(list, g[hi], hi + 1)]
             k == [i \in 0 .. hi + 1 |-> IF i = 0 THEN n ELSE Onto(list, h[i - 1], i)]
  <2>2. \A i \in 0 .. hi : g[i] = IF i = 0 THEN n ELSE Onto(list, g[i - 1], i)
    BY <2>1 DEF LaidTo
  <2>3. ASSUME NEW i \in 0 .. hi + 1 PROVE h[i] = k[i]
    <3>1. hi \in Nat
      OBVIOUS
    <3>2. CASE i = hi + 1
      BY <3>1, <3>2
    <3>3. CASE i = 0
      BY <2>2, <3>1, <3>3
    <3>4. CASE i # 0 /\ i # hi + 1
      <4>1. i \in 0 .. hi /\ i - 1 \in 0 .. hi
        BY <3>1, <3>4
      <4>2. h[i] = g[i] /\ h[i - 1] = g[i - 1]
        BY <3>1, <4>1
      <4>3. k[i] = Onto(list, h[i - 1], i)
        BY <3>4
      <4> QED
        BY <2>2, <3>4, <4>1, <4>2, <4>3
    <3> QED
      BY <3>2, <3>3, <3>4
  <2>4. h = k
    BY <2>3
  <2>5. LaidTo(n, list, hi + 1, h)
    BY <2>4 DEF LaidTo
  <2> QED
    BY <2>5
<1>3. S \in SUBSET Nat
  OBVIOUS
<1> HIDE DEF S
<1>4. \A hi \in Nat : hi \in S
  BY <1>1, <1>2, <1>3, Induction
<1> QED
  BY <1>4 DEF S

LEMMA LaidEnds ==
    ASSUME NEW n, Idle(n), NEW list, Len(list) \in Nat, \A i \in 1 .. Len(list) : list[i].r \in Guest \ {0}
    PROVE  LET o == Laid(n, list) IN Ends(n, o, Guest) /\ Idle(o)
<1> DEFINE L == Len(list)
           c == CHOOSE g : LaidTo(n, list, L, g)
<1>1. Laid(n, list) = c[L]
  BY DEF Laid, LaidTo, Onto
<1>2. LaidTo(n, list, L, c)
  BY LaidExists
<1> HIDE DEF c
<1>3. \A i \in 0 .. L : c[i] = IF i = 0 THEN n ELSE Onto(list, c[i - 1], i)
  <2> DEFINE d == [i \in 0 .. L |-> IF i = 0 THEN n ELSE Onto(list, c[i - 1], i)]
  <2>1. c = d
    BY <1>2 DEF LaidTo
  <2>2. \A i \in 0 .. L : d[i] = IF i = 0 THEN n ELSE Onto(list, c[i - 1], i)
    OBVIOUS
  <2> HIDE DEF d
  <2> QED
    BY <2>1, <2>2
<1> DEFINE S == {i \in Nat : i <= L => Ends(n, c[i], Guest) /\ Idle(c[i])}
<1>4. 0 \in S
  <2>1. c[0] = n
    BY <1>3
  <2> QED
    BY <2>1, IdleWhole
<1>5. ASSUME NEW i \in S PROVE i + 1 \in S
  <2>1. SUFFICES ASSUME i + 1 <= L PROVE Ends(n, c[i + 1], Guest) /\ Idle(c[i + 1])
    OBVIOUS
  <2>2. /\ Ends(n, c[i], Guest) /\ Idle(c[i])
        /\ i + 1 \in 1 .. L /\ i + 1 \in 0 .. L /\ (i + 1) - 1 = i /\ i + 1 # 0
    BY <2>1
  <2>3. c[i + 1] = Onto(list, c[i], i + 1)
    BY <1>3, <2>2
  <2> DEFINE h == list[i + 1]
             k == c[i]
             o == Holding(DropMapped(k, h.r), h)
  <2>4. h.r \in Guest \ {0}
    BY <2>2
  <2>5. Onto(list, k, i + 1) = o
    BY DEF Onto
  <2> HIDE DEF h, k
  <2>6. Idle(k)
    BY <2>2 DEF k
  <2>7. Ends(k, o, Guest) /\ Idle(o)
    BY <2>4, <2>6, HoldingEnds
  <2> HIDE DEF o
  <2>8. Ends(n, k, Guest)
    BY <2>2 DEF k
  <2>9. Ends(n, o, Guest)
    BY <2>7, <2>8, EndsThrough
  <2> QED
    BY <2>3, <2>5, <2>7, <2>9 DEF k
<1>6. S \in SUBSET Nat
  OBVIOUS
<1> HIDE DEF S
<1>7. L \in S
  BY <1>4, <1>5, <1>6, Induction
<1> QED
  BY <1>1, <1>7 DEF S

LEMMA BlankIdle ==
    ASSUME NEW link
    PROVE  LET o == [Blank EXCEPT !.LLBit = link]
           IN Idle(o) /\ o.live = TRUE /\ o.slip = FALSE /\ o.fault = "none" /\ o.gpr[0] = Zero
<1> DEFINE o == [Blank EXCEPT !.LLBit = link]
<1>1. /\ DOMAIN o = Fields /\ o.live = TRUE /\ o.slip = FALSE /\ o.fault = "none"
      /\ o.st = [r \in Guest |-> IF r = 0 THEN STATE_CONST_32 ELSE STATE_UNKNOWN]
      /\ o.lo = [r \in Guest |-> 0] /\ o.hi = [r \in Guest |-> 0]
      /\ o.mapped = [x \in Host |-> "none"] /\ o.order = [x \in Host |-> 0]
      /\ o.prot = [x \in Host |-> FALSE] /\ o.x = [x \in Host |-> 3]
      /\ o.gpr = [r \in Guest |-> IF r = 0 THEN Zero ELSE Junk]
  BY DEF Blank, Fields
<1> HIDE DEF o
<1>2. o.gpr[0] = Zero /\ Prots(o) = {} /\ o.st[0] = STATE_CONST_32
  <2>1. \A y \in Host : o.prot[y] = FALSE
    BY <1>1
  <2>2. Prots(o) = {}
    BY <2>1 DEF Prots
  <2>3. 0 \in Guest
    BY ConstantFacts
  <2>4. o.gpr[0] = Zero
    BY <1>1, <2>3
  <2>5. o.st[0] = STATE_CONST_32
    BY <1>1, <2>3
  <2> QED
    BY <2>2, <2>4, <2>5
<1>3. Shape(o)
  <2>1. o.st \in [Guest -> RegisterStates] /\ o.mapped \in [Host -> Marks]
    BY <1>1 DEF Marks, RegisterStates
  <2>2. o.order \in [Host -> Nat]
    BY <1>1
  <2>3. o.prot \in [Host -> BOOLEAN]
    BY <1>1, Zenon
  <2>4. o.live \in BOOLEAN /\ o.slip \in BOOLEAN
    BY <1>1
  <2>5. DOMAIN o.lo = Guest /\ DOMAIN o.hi = Guest /\ DOMAIN o.x = Host /\ DOMAIN o.gpr = Guest
    BY <1>1
  <2> QED
    BY <1>1, <2>1, <2>2, <2>3, <2>4, <2>5 DEF Shape
<1>4. \A r \in Guest : ~IsMapped(o, r) /\ HostsOf(o, r) = {} /\ o.st[r] # STATE_MAPPED_64
  <2> TAKE r \in Guest
  <2>1. o.st[r] = STATE_CONST_32 \/ o.st[r] = STATE_UNKNOWN
    BY <1>1
  <2> QED
    BY <2>1, StateFacts DEF STATE_CONST_32, STATE_UNKNOWN, STATE_MAPPED_64
<1>5. IsConst(o, 0) /\ Homes(o) /\ Apart(o)
  BY <1>2, <1>4 DEF IsConst, Homes, Apart
<1>6. Marked(o)
  BY <1>1, <1>4 DEF Marked
<1> QED
  BY <1>1, <1>2, <1>3, <1>5, <1>6 DEF Idle, Sound, o

(* What is laid names no register 0.                                       *)
LEMMA LayoutNames ==
    ASSUME NEW crowd \in Crowds, NEW layout \in Layouts
    PROVE  LET list == Others(crowd.before) \o layout \o Others(crowd.after)
           IN Len(list) \in Nat /\ \A i \in 1 .. Len(list) : list[i].r \in Guest \ {0}
<1> DEFINE X == [r : Guest \ {0}, st : RegisterStates, d : Values \cup {Other}]
<1>1. ASSUME NEW guests \in Seq(Guest \ {0}) PROVE Others(guests) \in Seq(X)
  <2>1. STATE_MAPPED_64 \in RegisterStates
    BY DEF RegisterStates
  <2>2. \A i \in DOMAIN guests : Held(guests[i], STATE_MAPPED_64, Other) \in X
    BY <2>1 DEF Held
  <2> HIDE DEF X
  <2> QED
    BY <2>2 DEF Others
<1>2. layout \in Seq(X)
  <2>1. PICK d \in [DOMAIN Named -> Values], st \in [DOMAIN Named -> RegisterStates] :
            layout = [i \in DOMAIN Named |-> Held(Named[i], st[i], d[i])]
    BY DEF Layouts
  <2>2. Named \in Seq(Guest \ {0})
    BY RecompiledAssumption
  <2>3. \A i \in DOMAIN Named : Held(Named[i], st[i], d[i]) \in X
    BY <2>2 DEF Held
  <2> HIDE DEF X
  <2> QED
    BY <2>1, <2>2, <2>3
<1>3. crowd.before \in Seq(Guest \ {0}) /\ crowd.after \in Seq(Guest \ {0})
  BY RecompiledAssumption
<1> DEFINE list == Others(crowd.before) \o layout \o Others(crowd.after)
<1>4. list \in Seq(X)
  <2>1. Others(crowd.before) \in Seq(X) /\ Others(crowd.after) \in Seq(X)
    BY <1>1, <1>3
  <2> HIDE DEF X
  <2> QED
    BY <1>2, <2>1
<1> HIDE DEF list
<1>5. Len(list) \in Nat /\ \A i \in 1 .. Len(list) : list[i] \in X
  <2> HIDE DEF X
  <2> QED
    BY <1>4
<1> QED
  BY <1>5 DEF list

(* The machines that the model begins with, whose guest registers were     *)
(* laid in any of their states in any order, are such machines too.        *)
THEOREM InitKept ==
    ASSUME Init
    PROVE  Kept
<1>1. PICK crowd \in Crowds, layout \in Layouts, link \in Links :
          m = Laid([Blank EXCEPT !.LLBit = link], Others(crowd.before) \o layout \o Others(crowd.after))
  BY DEF Init
<1> DEFINE o == [Blank EXCEPT !.LLBit = link]
           list == Others(crowd.before) \o layout \o Others(crowd.after)
<1>2. Idle(o) /\ o.live = TRUE /\ o.slip = FALSE /\ o.fault = "none" /\ o.gpr[0] = Zero
  BY BlankIdle
<1>3. Len(list) \in Nat /\ \A i \in 1 .. Len(list) : list[i].r \in Guest \ {0}
  BY LayoutNames
<1>4. m = Laid(o, list)
  BY <1>1
<1> HIDE DEF o, list
<1>5. Ends(o, m, Guest) /\ Idle(m)
  BY <1>2, <1>3, <1>4, LaidEnds
<1>6. m.slip \in BOOLEAN
  BY <1>5 DEF Ends, Sound, Shape
<1> QED
  BY <1>2, <1>5, <1>6 DEF Kept, Ends, Effect

(* As long as no instruction slipped, what lies between two instructions   *)
(* is a sound cache in which nothing is protected.                         *)
THEOREM AlwaysKept == Spec => []Kept
<1>1. Init => Kept
  BY InitKept
<1>2. Kept /\ [Next]_vars => Kept'
  BY NextKept
<1> QED
  BY <1>1, <1>2, PTL DEF Spec

(* No two guest registers ever share an x86 register, a register marked as *)
(* a temporary or as a guest's belongs to exactly what its mark says, and  *)
(* register 0 stays the constant zero: what UnMap_X86reg, Map_GPR_32bit    *)
(* and Map_GPR_64bit have to keep up together, for any number of guests    *)
(* and any order of calls.                                                 *)
THEOREM AlwaysCacheSound == Spec => []CacheSound
<1>1. Kept => CacheSound
  <2>1. SUFFICES ASSUME Kept, ~m.slip PROVE CacheSound
    BY DEF CacheSound
  <2>2. Sound(m)
    BY <2>1 DEF Kept, Idle
  <2>3. \A r \in Guest : HostsOf(m, r) \subseteq Host
    BY <2>2, HostsInside
  <2>4. NoSharedRegister(m)
    BY <2>2, <2>3 DEF NoSharedRegister, Sound, Apart
  <2>5. HalvesApart(m)
    BY <2>2 DEF HalvesApart, Sound, Homes
  <2>6. MarkedMapped(m)
    BY <2>2, <2>3 DEF MarkedMapped, Sound, Marked
  <2>7. \A y \in Host : m.mapped[y] = "gpr" => m.order[y] > 0
    BY <2>2 DEF Sound, Marked
  <2> QED
    BY <2>4, <2>5, <2>6, <2>7 DEF CacheSound
<1> QED
  BY <1>1, AlwaysKept, PTL

(* FreeX86Reg never comes back without a register: no sequence of          *)
(* mappings, protections and temporaries of an instruction, of a branch    *)
(* and its slot or of a call out asks for one when all that could be taken *)
(* are protected. The code would return -1 there, and the callers emit     *)
(* code that names register -1 or leave the guest register as it was.      *)
THEOREM AlwaysRegistersSuffice == Spec => []RegistersSuffice
<1>1. Kept => RegistersSuffice
  BY DEF Kept, RegistersSuffice
<1> QED
  BY <1>1, AlwaysKept, PTL

---------------------------------------------------------------------------
\* The end of a block: what the registers hold is in memory.

(* What is in memory is pairs of words.                                    *)
Recorded(n) == \A r \in Guest : n.gpr[r] = [hi |-> n.gpr[r].hi, lo |-> n.gpr[r].lo]

LEMMA ValueRecorded ==
    ASSUME NEW n, NEW r
    PROVE  Value(n, r) = [hi |-> Value(n, r).hi, lo |-> Value(n, r).lo]
BY DEF Value

LEMMA UnMapRecorded ==
    ASSUME NEW n, Sound(n), Recorded(n), NEW y \in Host
    PROVE  Recorded(UnMap_X86reg(n, y)) /\ Sound(UnMap_X86reg(n, y))
<1> DEFINE r == Min(Owners(n, y))
           o == UnMap_GPR(n, r, TRUE)
<1>1. Sound(UnMap_X86reg(n, y))
  BY UnMapX86 DEF Does
<1>2. CASE n.mapped[y] = "gpr" /\ UnMapsX86reg(n, y)
  <2>1. r \in Guest \ {0} /\ y \in HostsOf(n, r)
    BY <1>2, OwnersFacts
  <2>2. UnMap_X86reg(n, y) = o
    BY <1>2, Zenon DEF UnMap_X86reg, o, r
  <2> HIDE DEF r
  <2> DEFINE k == SetMemory(n, r, Value(n, r))
             p == SignSpread(k, r)
             q == Forget(Release(p, HostsOf(n, r)), r)
  <2>3. o = q \/ o = n
    BY Zenon DEF UnMap_GPR, o, q, p, k
  <2>4. /\ DOMAIN k = Fields /\ k.lo = n.lo /\ k.gpr = IF n.live THEN [n.gpr EXCEPT ![r] = Value(n, r)] ELSE n.gpr
    BY DEF SetMemory, Sound, Shape, Fields
  <2> HIDE DEF k
  <2>5. DOMAIN p = Fields /\ p.gpr = k.gpr
    BY <2>4 DEF SignSpread, SetX86, Fault, Fields
  <2> HIDE DEF p
  <2>6. q.gpr = p.gpr
    BY <2>5 DEF Forget, Release, Fields
  <2>7. Recorded(q)
    <3> HIDE DEF q
    <3>1. \A i \in Guest : q.gpr[i] = n.gpr[i] \/ q.gpr[i] = Value(n, i)
      BY <2>4, <2>5, <2>6 DEF Sound, Shape
    <3> QED
      BY <3>1, ValueRecorded DEF Recorded
  <2> HIDE DEF o, q
  <2> QED
    BY <1>1, <2>2, <2>3, <2>7
<1>3. CASE ~(n.mapped[y] = "gpr" /\ UnMapsX86reg(n, y))
  <2>1. UnMap_X86reg(n, y) \in {n, [n EXCEPT !.mapped[y] = "none"]}
    BY <1>3 DEF UnMap_X86reg
  <2>2. [n EXCEPT !.mapped[y] = "none"].gpr = n.gpr
    BY DEF Sound, Shape, Fields
  <2> QED
    BY <1>1, <2>1, <2>2 DEF Recorded
<1> QED
  BY <1>2, <1>3

LEMMA WriteBackRecorded ==
    ASSUME NEW n, Sound(n), Recorded(n)
    PROVE  Recorded(WriteBackRegisters(n))
<1> DEFINE P == [y \in Host |-> FALSE]
           k == [n EXCEPT !.prot = P]
           l == UnMapThree(k, EAX, ECX, EDX)
           o == UnMapThree(l, EBX, ESI, EDI)
           R == Constants(n)
           w == WriteConstants(o, R)
<1>1. P \in [Host -> BOOLEAN] /\ \A y \in Host : ~P[y]
  OBVIOUS
<1>2. WriteBackRegisters(n) = w
  BY DEF WriteBackRegisters, UnMapAll
<1> HIDE DEF P
<1>3. Sound(k)
  BY <1>1, Protecting DEF Ends
<1>4. Recorded(k)
  BY DEF Recorded, Sound, Shape, Fields
<1> HIDE DEF k
<1>5. ASSUME NEW i, Sound(i), Recorded(i), NEW x \in Host, NEW y \in Host, NEW z \in Host
      PROVE  Sound(UnMapThree(i, x, y, z)) /\ Recorded(UnMapThree(i, x, y, z))
  BY <1>5, UnMapRecorded DEF UnMapThree
<1>6. Sound(l) /\ Recorded(l)
  BY <1>3, <1>4, <1>5, ConstantFacts
<1> HIDE DEF l
<1>7. Sound(o) /\ Recorded(o)
  BY <1>5, <1>6, ConstantFacts
<1> HIDE DEF o, R
<1>8. w.gpr = [r \in Guest |-> IF r \in R THEN WordsStored(o, r) ELSE o.gpr[r]]
  <2> DEFINE b == \E r \in R : OnesStored(o, r) /\ o.hi[r] # Ones
  <2>1. w = [o EXCEPT !.slip = @ \/ b,
              !.gpr = [r \in Guest |-> IF r \in R THEN WordsStored(o, r) ELSE @[r]],
              !.st = [r \in Guest |-> IF r \in R THEN STATE_UNKNOWN ELSE @[r]]]
    BY DEF WriteConstants, b
  <2> HIDE DEF b, w
  <2> QED
    BY <1>7, <2>1 DEF Sound, Shape, Fields
<1>9. \A r : WordsStored(o, r) = [hi |-> WordsStored(o, r).hi, lo |-> WordsStored(o, r).lo]
  BY ValueRecorded DEF WordsStored
<1> HIDE DEF w
<1>10. Recorded(w)
  BY <1>7, <1>8, <1>9 DEF Recorded
<1> QED
  BY <1>2, <1>10

(* Written back, unless that slips, memory holds what the cache did.       *)
LEMMA WriteBackValues ==
    ASSUME NEW n, Sound(n), Recorded(n), n.live, NEW w, w = WriteBackRegisters(n), ~w.slip
    PROVE  w.gpr[0] = n.gpr[0] /\ \A r \in Guest \ {0} : w.gpr[r] = Value(n, r)
<1>1. Ends(n, w, {}) /\ Written(w) /\ Recorded(w)
  BY WriteBackEnds, WriteBackRecorded
<1>2. w.gpr[0] = n.gpr[0] /\ \A r \in Guest : r # 0 => Value(w, r) = Value(n, r)
  BY <1>1 DEF Ends, Effect
<1>3. ASSUME NEW r \in Guest \ {0} PROVE w.gpr[r] = Value(w, r)
  <2>1. w.st[r] = STATE_UNKNOWN
    BY <1>1 DEF Written
  <2>2. Value(w, r) = [hi |-> w.gpr[r].hi, lo |-> w.gpr[r].lo]
    BY <2>1, StateFacts DEF Value
  <2> QED
    BY <1>1, <2>2 DEF Recorded
<1> QED
  BY <1>2, <1>3

---------------------------------------------------------------------------
\* The registers of the interpreter.

Regs(t) == "gpr" \in DOMAIN t /\ DOMAIN t.gpr = Guest
ZeroStays == Regs(s) /\ s.gpr[0] = Zero

LEMMA PutRegs ==
    ASSUME NEW t, Regs(t)
    PROVE  /\ \A r, d : Regs(Put(t, r, d))
           /\ \A h, l : Regs(HiLo(t, h, l)) /\ Regs([t EXCEPT !.HI = h]) /\ Regs([t EXCEPT !.LO = h])
           /\ \A a : Regs([t EXCEPT !.mem = a]) /\ Regs([t EXCEPT !.LLBit = a]) /\ Regs([t EXCEPT !.missed = a])
           /\ \A a : Regs([t EXCEPT !.went = a]) /\ Regs([t EXCEPT !.target = a]) /\ Regs([t EXCEPT !.fpcr = a])
<1>1. \A r, d : Regs(Put(t, r, d))
  BY DEF Regs, Put, HiLo
<1>2. \A h, l : Regs(HiLo(t, h, l)) /\ Regs([t EXCEPT !.HI = h]) /\ Regs([t EXCEPT !.LO = h])
  BY DEF Regs, Put, HiLo
<1>3. \A a : Regs([t EXCEPT !.mem = a]) /\ Regs([t EXCEPT !.LLBit = a]) /\ Regs([t EXCEPT !.missed = a])
  BY DEF Regs, Put, HiLo
<1>4. \A a : Regs([t EXCEPT !.went = a]) /\ Regs([t EXCEPT !.target = a]) /\ Regs([t EXCEPT !.fpcr = a])
  BY DEF Regs, Put, HiLo
<1> QED
  BY <1>1, <1>2, <1>3, <1>4

LEMMA ImmediateRegs ==
    ASSUME NEW t, Regs(t), NEW a, NEW b, NEW c
    PROVE  /\ Regs(ADDIU(t, a, b, c))
           /\ Regs(ADDI(t, a, b, c))
           /\ Regs(DADDIU(t, a, b, c))
           /\ Regs(SLTI(t, a, b, c))
           /\ Regs(SLTIU(t, a, b, c))
           /\ Regs(ANDI(t, a, b, c))
           /\ Regs(ORI(t, a, b, c))
           /\ Regs(XORI(t, a, b, c))
<1>1. Regs(ADDIU(t, a, b, c))
  BY PutRegs DEF ADDIU
<1>2. Regs(ADDI(t, a, b, c))
  BY PutRegs DEF ADDI, ADDIU
<1>3. Regs(DADDIU(t, a, b, c))
  BY PutRegs DEF DADDIU
<1>4. Regs(SLTI(t, a, b, c))
  BY PutRegs DEF SLTI
<1>5. Regs(SLTIU(t, a, b, c))
  BY PutRegs DEF SLTIU
<1>6. Regs(ANDI(t, a, b, c))
  BY PutRegs DEF ANDI
<1>7. Regs(ORI(t, a, b, c))
  BY PutRegs DEF ORI
<1>8. Regs(XORI(t, a, b, c))
  BY PutRegs DEF XORI
<1> QED
  BY <1>1, <1>2, <1>3, <1>4, <1>5, <1>6, <1>7, <1>8

LEMMA ShiftRegs ==
    ASSUME NEW t, Regs(t), NEW a, NEW b, NEW c
    PROVE  /\ Regs(SLL(t, a, b, c))
           /\ Regs(SRL(t, a, b, c))
           /\ Regs(SRA(t, a, b, c))
           /\ Regs(DSLL(t, a, b, c))
           /\ Regs(DSRL(t, a, b, c))
           /\ Regs(DSRA(t, a, b, c))
           /\ Regs(DSLL32(t, a, b, c))
           /\ Regs(DSRL32(t, a, b, c))
           /\ Regs(DSRA32(t, a, b, c))
           /\ Regs(SLLV(t, a, b, c))
           /\ Regs(SRLV(t, a, b, c))
           /\ Regs(SRAV(t, a, b, c))
           /\ Regs(DSLLV(t, a, b, c))
           /\ Regs(DSRLV(t, a, b, c))
           /\ Regs(DSRAV(t, a, b, c))
<1>1. Regs(SLL(t, a, b, c))
  BY PutRegs DEF SLL
<1>2. Regs(SRL(t, a, b, c))
  BY PutRegs DEF SRL
<1>3. Regs(SRA(t, a, b, c))
  BY PutRegs DEF SRA
<1>4. Regs(DSLL(t, a, b, c))
  BY PutRegs DEF DSLL
<1>5. Regs(DSRL(t, a, b, c))
  BY PutRegs DEF DSRL
<1>6. Regs(DSRA(t, a, b, c))
  BY PutRegs DEF DSRA
<1>7. Regs(DSLL32(t, a, b, c))
  BY PutRegs DEF DSLL32, DSLL
<1>8. Regs(DSRL32(t, a, b, c))
  BY PutRegs DEF DSRL32, DSRL
<1>9. Regs(DSRA32(t, a, b, c))
  BY PutRegs DEF DSRA32, DSRA
<1>10. Regs(SLLV(t, a, b, c))
  BY PutRegs DEF SLLV, SLL
<1>11. Regs(SRLV(t, a, b, c))
  BY PutRegs DEF SRLV, SRL
<1>12. Regs(SRAV(t, a, b, c))
  BY PutRegs DEF SRAV, SRA
<1>13. Regs(DSLLV(t, a, b, c))
  BY PutRegs DEF DSLLV, DSLL
<1>14. Regs(DSRLV(t, a, b, c))
  BY PutRegs DEF DSRLV, DSRL
<1>15. Regs(DSRAV(t, a, b, c))
  BY PutRegs DEF DSRAV, DSRA
<1> QED
  BY <1>1, <1>2, <1>3, <1>4, <1>5, <1>6, <1>7, <1>8, <1>9, <1>10, <1>11, <1>12, <1>13, <1>14, <1>15

LEMMA CombinationRegs ==
    ASSUME NEW t, Regs(t), NEW a, NEW b, NEW c
    PROVE  /\ Regs(ADDU(t, a, b, c))
           /\ Regs(SUBU(t, a, b, c))
           /\ Regs(AND(t, a, b, c))
           /\ Regs(OR(t, a, b, c))
           /\ Regs(XOR(t, a, b, c))
           /\ Regs(NOR(t, a, b, c))
           /\ Regs(SLT(t, a, b, c))
           /\ Regs(SLTU(t, a, b, c))
           /\ Regs(DADDU(t, a, b, c))
           /\ Regs(DSUBU(t, a, b, c))
           /\ Regs(ADD(t, a, b, c))
           /\ Regs(SUB(t, a, b, c))
           /\ Regs(DADD(t, a, b, c))
           /\ Regs(DSUB(t, a, b, c))
<1>1. Regs(ADDU(t, a, b, c))
  BY PutRegs DEF ADDU
<1>2. Regs(SUBU(t, a, b, c))
  BY PutRegs DEF SUBU
<1>3. Regs(AND(t, a, b, c))
  BY PutRegs DEF AND
<1>4. Regs(OR(t, a, b, c))
  BY PutRegs DEF OR
<1>5. Regs(XOR(t, a, b, c))
  BY PutRegs DEF XOR
<1>6. Regs(NOR(t, a, b, c))
  BY PutRegs DEF NOR
<1>7. Regs(SLT(t, a, b, c))
  BY PutRegs DEF SLT
<1>8. Regs(SLTU(t, a, b, c))
  BY PutRegs DEF SLTU
<1>9. Regs(DADDU(t, a, b, c))
  BY PutRegs DEF DADDU
<1>10. Regs(DSUBU(t, a, b, c))
  BY PutRegs DEF DSUBU
<1>11. Regs(ADD(t, a, b, c))
  BY PutRegs DEF ADD, ADDU
<1>12. Regs(SUB(t, a, b, c))
  BY PutRegs DEF SUB, SUBU
<1>13. Regs(DADD(t, a, b, c))
  BY PutRegs DEF DADD, DADDU
<1>14. Regs(DSUB(t, a, b, c))
  BY PutRegs DEF DSUB, DSUBU
<1> QED
  BY <1>1, <1>2, <1>3, <1>4, <1>5, <1>6, <1>7, <1>8, <1>9, <1>10, <1>11, <1>12, <1>13, <1>14

LEMMA FactorsRegs ==
    ASSUME NEW t, Regs(t), NEW a, NEW b, NEW c
    PROVE  /\ Regs(MULT(t, a, b))
           /\ Regs(MULTU(t, a, b))
           /\ Regs(DMULT(t, a, b))
           /\ Regs(DMULTU(t, a, b))
           /\ Regs(DIV(t, a, b))
           /\ Regs(DIVU(t, a, b))
           /\ Regs(DDIV(t, a, b))
           /\ Regs(DDIVU(t, a, b))
<1>1. Regs(MULT(t, a, b))
  BY PutRegs DEF MULT, Product
<1>2. Regs(MULTU(t, a, b))
  BY PutRegs DEF MULTU, Product
<1>3. Regs(DMULT(t, a, b))
  BY PutRegs DEF DMULT, LongProduct
<1>4. Regs(DMULTU(t, a, b))
  BY PutRegs DEF DMULTU
<1>5. Regs(DIV(t, a, b))
  BY PutRegs DEF DIV
<1>6. Regs(DIVU(t, a, b))
  BY PutRegs DEF DIVU
<1>7. Regs(DDIV(t, a, b))
  BY PutRegs DEF DDIV
<1>8. Regs(DDIVU(t, a, b))
  BY PutRegs DEF DDIVU
<1> QED
  BY <1>1, <1>2, <1>3, <1>4, <1>5, <1>6, <1>7, <1>8

LEMMA HiLoRegs ==
    ASSUME NEW t, Regs(t), NEW a, NEW b, NEW c
    PROVE  /\ Regs(MFHI(t, a))
           /\ Regs(MTHI(t, a))
           /\ Regs(MFLO(t, a))
           /\ Regs(MTLO(t, a))
<1>1. Regs(MFHI(t, a))
  BY PutRegs DEF MFHI
<1>2. Regs(MTHI(t, a))
  BY PutRegs DEF MTHI
<1>3. Regs(MFLO(t, a))
  BY PutRegs DEF MFLO
<1>4. Regs(MTLO(t, a))
  BY PutRegs DEF MTLO
<1> QED
  BY <1>1, <1>2, <1>3, <1>4

LEMMA MemoryRegs ==
    ASSUME NEW t, Regs(t), NEW a, NEW b, NEW c
    PROVE  /\ Regs(LB(t, a, b, c))
           /\ Regs(LH(t, a, b, c))
           /\ Regs(LW(t, a, b, c))
           /\ Regs(LBU(t, a, b, c))
           /\ Regs(LHU(t, a, b, c))
           /\ Regs(LWU(t, a, b, c))
           /\ Regs(LL(t, a, b, c))
           /\ Regs(LWL(t, a, b, c))
           /\ Regs(LWR(t, a, b, c))
           /\ Regs(LD(t, a, b, c))
           /\ Regs(LDL(t, a, b, c))
           /\ Regs(LDR(t, a, b, c))
           /\ Regs(SB(t, a, b, c))
           /\ Regs(SH(t, a, b, c))
           /\ Regs(SW(t, a, b, c))
           /\ Regs(SWL(t, a, b, c))
           /\ Regs(SWR(t, a, b, c))
           /\ Regs(SD(t, a, b, c))
           /\ Regs(SDL(t, a, b, c))
           /\ Regs(SDR(t, a, b, c))
           /\ Regs(SC(t, a, b, c))
<1>1. Regs(LB(t, a, b, c))
  BY PutRegs DEF LB, Narrow, Loaded, Missing
<1>2. Regs(LH(t, a, b, c))
  BY PutRegs DEF LH, Narrow, Loaded, Missing
<1>3. Regs(LW(t, a, b, c))
  BY PutRegs DEF LW, Narrow, Loaded, Missing
<1>4. Regs(LBU(t, a, b, c))
  BY PutRegs DEF LBU, Narrow, Loaded, Missing
<1>5. Regs(LHU(t, a, b, c))
  BY PutRegs DEF LHU, Narrow, Loaded, Missing
<1>6. Regs(LWU(t, a, b, c))
  BY PutRegs DEF LWU, Narrow, Loaded, Missing
<1>7. Regs(LL(t, a, b, c))
  BY PutRegs DEF LL, LW, Narrow, Loaded, Missing
<1>8. Regs(LWL(t, a, b, c))
  BY PutRegs DEF LWL
<1>9. Regs(LWR(t, a, b, c))
  BY PutRegs DEF LWR
<1>10. Regs(LD(t, a, b, c))
  BY PutRegs DEF LD
<1>11. Regs(LDL(t, a, b, c))
  BY PutRegs DEF LDL
<1>12. Regs(LDR(t, a, b, c))
  BY PutRegs DEF LDR
<1>13. Regs(SB(t, a, b, c))
  BY PutRegs DEF SB, Stored
<1>14. Regs(SH(t, a, b, c))
  BY PutRegs DEF SH, Stored
<1>15. Regs(SW(t, a, b, c))
  BY PutRegs DEF SW, Stored
<1>16. Regs(SWL(t, a, b, c))
  BY PutRegs DEF SWL, Stored
<1>17. Regs(SWR(t, a, b, c))
  BY PutRegs DEF SWR, Stored
<1>18. Regs(SD(t, a, b, c))
  BY PutRegs DEF SD, StoredLong, Stored
<1>19. Regs(SDL(t, a, b, c))
  BY PutRegs DEF SDL, StoredLong, Stored
<1>20. Regs(SDR(t, a, b, c))
  BY PutRegs DEF SDR, StoredLong, Stored
<1>21. Regs(SC(t, a, b, c))
  BY PutRegs DEF SC, SW, Stored
<1> QED
  BY <1>1, <1>2, <1>3, <1>4, <1>5, <1>6, <1>7, <1>8, <1>9, <1>10, <1>11, <1>12, <1>13, <1>14, <1>15, <1>16,
     <1>17, <1>18, <1>19, <1>20, <1>21

LEMMA LUIRegs ==
    ASSUME NEW t, Regs(t), NEW a, NEW b
    PROVE  Regs(LUI(t, a, b))
BY PutRegs DEF LUI

LEMMA ExecuteRegs ==
    ASSUME NEW t, Regs(t), NEW i \in Instructions
    PROVE  Regs(Execute(t, i))
<1>1. i.op \in {"ADDU", "SLT", "MFLO", "DADDU", "ADDIU", "LUI", "DADDIU", "MULT", "CF", "CT"}
  BY DEF Instructions, OfRd, OfRt, OfNone
<1>2. CASE i.op = "ADDIU"
  <2>1. Execute(t, i) = ADDIU(t, i.rt, i.rs, i.imm)
    BY <1>2 DEF Execute
  <2> QED
    BY <2>1, ImmediateRegs
<1>3. CASE i.op = "LUI"
  <2>1. Execute(t, i) = LUI(t, i.rt, i.imm)
    BY <1>3 DEF Execute
  <2> QED
    BY <2>1, LUIRegs
<1>4. CASE i.op = "DADDIU"
  <2>1. Execute(t, i) = DADDIU(t, i.rt, i.rs, i.imm)
    BY <1>4 DEF Execute
  <2> QED
    BY <2>1, ImmediateRegs
<1>5. CASE i.op = "ADDU"
  <2>1. Execute(t, i) = ADDU(t, i.rd, i.rs, i.rt)
    BY <1>5 DEF Execute
  <2> QED
    BY <2>1, CombinationRegs
<1>6. CASE i.op = "SLT"
  <2>1. Execute(t, i) = SLT(t, i.rd, i.rs, i.rt)
    BY <1>6 DEF Execute
  <2> QED
    BY <2>1, CombinationRegs
<1>7. CASE i.op = "DADDU"
  <2>1. Execute(t, i) = DADDU(t, i.rd, i.rs, i.rt)
    BY <1>7 DEF Execute
  <2> QED
    BY <2>1, CombinationRegs
<1>8. CASE i.op = "MFLO"
  <2>1. Execute(t, i) = MFLO(t, i.rd)
    BY <1>8 DEF Execute
  <2> QED
    BY <2>1, HiLoRegs
<1>9. CASE i.op = "MULT"
  <2>1. Execute(t, i) = MULT(t, i.rs, i.rt)
    BY <1>9 DEF Execute
  <2> QED
    BY <2>1, FactorsRegs
<1>10. CASE i.op = "CF"
  <2>1. Execute(t, i) = Put(t, i.rt, Extended(t.fpcr))
    BY <1>10 DEF Execute
  <2> QED
    BY <2>1, PutRegs
<1>11. CASE i.op = "CT"
  <2>1. Execute(t, i) = [t EXCEPT !.fpcr = t.gpr[i.rt].lo]
    BY <1>11 DEF Execute
  <2>2. \A a : Regs([t EXCEPT !.fpcr = a])
    BY PutRegs
  <2> QED
    BY <2>1, <2>2
<1> QED
  BY <1>1, <1>2, <1>3, <1>4, <1>5, <1>6, <1>7, <1>8, <1>9, <1>10, <1>11

LEMMA BranchRegs ==
    ASSUME NEW t, Regs(t), NEW b, b.slot \in Instructions
    PROVE  \A taken : Regs(Branch(t, b, taken)) /\ Regs(BranchLikely(t, b, taken))
<1>1. Regs([t EXCEPT !.gpr[0] = [hi |-> 0, lo |-> 0]])
  BY DEF Regs
<1> DEFINE u == Then(t, b)
<1>2. Regs(u)
  BY <1>1, ExecuteRegs DEF Then
<1> HIDE DEF u
<1>3. \A a : Regs([u EXCEPT !.went = a]) /\ Regs([t EXCEPT !.went = a])
  BY <1>2, PutRegs
<1>4. ASSUME NEW taken PROVE Regs(Branch(t, b, taken))
  BY <1>3, Zenon DEF Branch, u
<1>5. ASSUME NEW taken PROVE Regs(BranchLikely(t, b, taken))
  <2> DEFINE v == Branch(t, b, TRUE)
             w == [t EXCEPT !.went = "cont"]
  <2>1. Regs(v)
    BY <1>4, Zenon
  <2>2. Regs(w)
    BY <1>3
  <2>3. BranchLikely(t, b, taken) = IF taken THEN v ELSE w
    BY Zenon DEF BranchLikely, v, w
  <2> HIDE DEF v, w
  <2> QED
    BY <2>1, <2>2, <2>3
<1> QED
  BY <1>4, <1>5, Zenon

LEMMA JumpRegs ==
    ASSUME NEW t, Regs(t), NEW b, b.slot \in Instructions, NEW rd, NEW rs
    PROVE  Regs(J(t, b)) /\ Regs(JAL(t, b)) /\ Regs(JR(t, rs, b)) /\ Regs(JALR(t, rd, rs, b))
<1>1. \A u : Regs(u) => \A taken : Regs(Branch(u, b, taken))
  BY BranchRegs
<1> DEFINE v == Put(t, Link, Extended(ReturnPC))
           w == [t EXCEPT !.target = t.gpr[rs].lo]
           p == Put(t, rd, Extended(ReturnPC))
           x == [p EXCEPT !.target = t.gpr[rs].lo]
<1>2. Regs(v) /\ Regs(w)
  BY PutRegs
<1>3. Regs(x)
  <2>1. Regs(p)
    BY PutRegs
  <2> HIDE DEF p
  <2> QED
    BY <2>1, PutRegs
<1>4. J(t, b) = Branch(t, b, TRUE) /\ JAL(t, b) = Branch(v, b, TRUE)
      /\ JR(t, rs, b) = Branch(w, b, TRUE) /\ JALR(t, rd, rs, b) = Branch(x, b, TRUE)
  BY Zenon DEF J, JAL, JR, JALR, v, w, x, p
<1> HIDE DEF v, w, x
<1> QED
  BY <1>1, <1>2, <1>3, <1>4, Zenon

LEMMA StepHeld ==
    ASSUME NEW n, NEW t, Regs(t), Step(n, t)
    PROVE  ZeroStays'
<1>1. s' = [t EXCEPT !.gpr[0] = Zero]
  BY DEF Step
<1>2. [t EXCEPT !.gpr[0] = Zero].gpr = [t.gpr EXCEPT ![0] = Zero] /\ "gpr" \in DOMAIN [t EXCEPT !.gpr[0] = Zero]
  BY DEF Regs
<1> QED
  BY <1>1, <1>2, ConstantFacts DEF ZeroStays, Regs

LEMMA WithImmediateHeld ==
    ASSUME ZeroStays, WithImmediate
    PROVE  ZeroStays'
<1>1. Regs(s) /\ \A n, t : Regs(t) /\ Step(n, t) => ZeroStays'
  BY StepHeld DEF ZeroStays
<1>2. CASE OfImmediate(Compile_ADDI, ADDI)
  BY <1>1, <1>2, ImmediateRegs DEF OfImmediate
<1>3. CASE OfImmediate(Compile_ADDIU, ADDIU)
  BY <1>1, <1>3, ImmediateRegs DEF OfImmediate
<1>4. CASE OfImmediate(Compile_DADDIU, DADDIU)
  BY <1>1, <1>4, ImmediateRegs DEF OfImmediate
<1>5. CASE OfImmediate(Compile_SLTI, SLTI)
  BY <1>1, <1>5, ImmediateRegs DEF OfImmediate
<1>6. CASE OfImmediate(Compile_SLTIU, SLTIU)
  BY <1>1, <1>6, ImmediateRegs DEF OfImmediate
<1>7. CASE OfImmediate(Compile_ANDI, ANDI)
  BY <1>1, <1>7, ImmediateRegs DEF OfImmediate
<1>8. CASE OfImmediate(Compile_ORI, ORI)
  BY <1>1, <1>8, ImmediateRegs DEF OfImmediate
<1>9. CASE OfImmediate(Compile_XORI, XORI)
  BY <1>1, <1>9, ImmediateRegs DEF OfImmediate
<1>10. CASE \E rt \in Targets, imm \in Immediate : Step(Compile_LUI(m, rt, imm), LUI(s, rt, imm))
  BY <1>1, <1>10, LUIRegs
<1> QED
  BY <1>2, <1>3, <1>4, <1>5, <1>6, <1>7, <1>8, <1>9, <1>10 DEF WithImmediate

LEMMA ShiftHeld ==
    ASSUME ZeroStays, Shift
    PROVE  ZeroStays'
<1>1. Regs(s) /\ \A n, t : Regs(t) /\ Step(n, t) => ZeroStays'
  BY StepHeld DEF ZeroStays
<1>2. CASE OfImmediate(Compile_SLL, SLL)
  BY <1>1, <1>2, ShiftRegs DEF OfImmediate
<1>3. CASE OfImmediate(Compile_SRL, SRL)
  BY <1>1, <1>3, ShiftRegs DEF OfImmediate
<1>4. CASE OfImmediate(Compile_SRA, SRA)
  BY <1>1, <1>4, ShiftRegs DEF OfImmediate
<1>5. CASE OfImmediate(Compile_DSLL, DSLL)
  BY <1>1, <1>5, ShiftRegs DEF OfImmediate
<1>6. CASE OfImmediate(Compile_DSRL, DSRL)
  BY <1>1, <1>6, ShiftRegs DEF OfImmediate
<1>7. CASE OfImmediate(Compile_DSRA, DSRA)
  BY <1>1, <1>7, ShiftRegs DEF OfImmediate
<1>8. CASE OfImmediate(Compile_DSLL32, DSLL32)
  BY <1>1, <1>8, ShiftRegs DEF OfImmediate
<1>9. CASE OfImmediate(Compile_DSRL32, DSRL32)
  BY <1>1, <1>9, ShiftRegs DEF OfImmediate
<1>10. CASE OfImmediate(Compile_DSRA32, DSRA32)
  BY <1>1, <1>10, ShiftRegs DEF OfImmediate
<1> QED
  BY <1>2, <1>3, <1>4, <1>5, <1>6, <1>7, <1>8, <1>9, <1>10 DEF Shift

LEMMA ShiftVariableHeld ==
    ASSUME ZeroStays, ShiftVariable
    PROVE  ZeroStays'
<1>1. Regs(s) /\ \A n, t : Regs(t) /\ Step(n, t) => ZeroStays'
  BY StepHeld DEF ZeroStays
<1>2. CASE OfPair(Compile_SLLV, SLLV)
  BY <1>1, <1>2, ShiftRegs DEF OfPair
<1>3. CASE OfPair(Compile_SRLV, SRLV)
  BY <1>1, <1>3, ShiftRegs DEF OfPair
<1>4. CASE OfPair(Compile_SRAV, SRAV)
  BY <1>1, <1>4, ShiftRegs DEF OfPair
<1>5. CASE OfPair(Compile_DSLLV, DSLLV)
  BY <1>1, <1>5, ShiftRegs DEF OfPair
<1>6. CASE OfPair(Compile_DSRLV, DSRLV)
  BY <1>1, <1>6, ShiftRegs DEF OfPair
<1>7. CASE OfPair(Compile_DSRAV, DSRAV)
  BY <1>1, <1>7, ShiftRegs DEF OfPair
<1> QED
  BY <1>2, <1>3, <1>4, <1>5, <1>6, <1>7 DEF ShiftVariable

LEMMA CombinationHeld ==
    ASSUME ZeroStays, Combination
    PROVE  ZeroStays'
<1>1. Regs(s) /\ \A n, t : Regs(t) /\ Step(n, t) => ZeroStays'
  BY StepHeld DEF ZeroStays
<1>2. CASE OfPair(Compile_ADD, ADD)
  BY <1>1, <1>2, CombinationRegs DEF OfPair
<1>3. CASE OfPair(Compile_ADDU, ADDU)
  BY <1>1, <1>3, CombinationRegs DEF OfPair
<1>4. CASE OfPair(Compile_SUB, SUB)
  BY <1>1, <1>4, CombinationRegs DEF OfPair
<1>5. CASE OfPair(Compile_SUBU, SUBU)
  BY <1>1, <1>5, CombinationRegs DEF OfPair
<1>6. CASE OfPair(Compile_AND, AND)
  BY <1>1, <1>6, CombinationRegs DEF OfPair
<1>7. CASE OfPair(Compile_OR, OR)
  BY <1>1, <1>7, CombinationRegs DEF OfPair
<1>8. CASE OfPair(Compile_XOR, XOR)
  BY <1>1, <1>8, CombinationRegs DEF OfPair
<1>9. CASE OfPair(Compile_NOR, NOR)
  BY <1>1, <1>9, CombinationRegs DEF OfPair
<1>10. CASE OfPair(Compile_SLT, SLT)
  BY <1>1, <1>10, CombinationRegs DEF OfPair
<1>11. CASE OfPair(Compile_SLTU, SLTU)
  BY <1>1, <1>11, CombinationRegs DEF OfPair
<1>12. CASE OfPair(Compile_DADD, DADD)
  BY <1>1, <1>12, CombinationRegs DEF OfPair
<1>13. CASE OfPair(Compile_DADDU, DADDU)
  BY <1>1, <1>13, CombinationRegs DEF OfPair
<1>14. CASE OfPair(Compile_DSUB, DSUB)
  BY <1>1, <1>14, CombinationRegs DEF OfPair
<1>15. CASE OfPair(Compile_DSUBU, DSUBU)
  BY <1>1, <1>15, CombinationRegs DEF OfPair
<1> QED
  BY <1>2, <1>3, <1>4, <1>5, <1>6, <1>7, <1>8, <1>9, <1>10, <1>11, <1>12, <1>13, <1>14, <1>15 DEF Combination

LEMMA MultiplicationHeld ==
    ASSUME ZeroStays, Multiplication
    PROVE  ZeroStays'
<1>1. Regs(s) /\ \A n, t : Regs(t) /\ Step(n, t) => ZeroStays'
  BY StepHeld DEF ZeroStays
<1>2. CASE OfFactors(Compile_MULT, MULT)
  BY <1>1, <1>2, FactorsRegs DEF OfFactors
<1>3. CASE OfFactors(Compile_MULTU, MULTU)
  BY <1>1, <1>3, FactorsRegs DEF OfFactors
<1>4. CASE OfFactors(Compile_DMULT, DMULT)
  BY <1>1, <1>4, FactorsRegs DEF OfFactors
<1>5. CASE OfFactors(Compile_DMULTU, DMULTU)
  BY <1>1, <1>5, FactorsRegs DEF OfFactors
<1> QED
  BY <1>2, <1>3, <1>4, <1>5 DEF Multiplication

LEMMA DivisionHeld ==
    ASSUME ZeroStays, Division
    PROVE  ZeroStays'
<1>1. Regs(s) /\ \A n, t : Regs(t) /\ Step(n, t) => ZeroStays'
  BY StepHeld DEF ZeroStays
<1>2. CASE OfFactors(Compile_DDIV, DDIV)
  BY <1>1, <1>2, FactorsRegs DEF OfFactors
<1>3. CASE OfFactors(Compile_DDIVU, DDIVU)
  BY <1>1, <1>3, FactorsRegs DEF OfFactors
<1>4. CASE \E rs, rt \in Operands : /\ ~DividesBadly(s, rs, rt)
                                  /\ \/ Step(Compile_DIV(m, rs, rt), DIV(s, rs, rt))
                                     \/ Step(Compile_DIVU(m, rs, rt), DIVU(s, rs, rt))
  BY <1>1, <1>4, FactorsRegs
<1> QED
  BY <1>2, <1>3, <1>4 DEF Division

LEMMA MoveHiLoHeld ==
    ASSUME ZeroStays, MoveHiLo
    PROVE  ZeroStays'
BY StepHeld, HiLoRegs DEF MoveHiLo, ZeroStays

LEMMA LoadHeld ==
    ASSUME ZeroStays, Load
    PROVE  ZeroStays'
<1>1. Regs(s) /\ \A n, t : Regs(t) /\ Step(n, t) => ZeroStays'
  BY StepHeld DEF ZeroStays
<1>2. CASE OfMemory(1, Compile_LB, LB)
  BY <1>1, <1>2, MemoryRegs DEF OfMemory
<1>3. CASE OfMemory(1, Compile_LBU, LBU)
  BY <1>1, <1>3, MemoryRegs DEF OfMemory
<1>4. CASE OfMemory(2, Compile_LH, LH)
  BY <1>1, <1>4, MemoryRegs DEF OfMemory
<1>5. CASE OfMemory(2, Compile_LHU, LHU)
  BY <1>1, <1>5, MemoryRegs DEF OfMemory
<1>6. CASE OfMemory(4, Compile_LW, LW)
  BY <1>1, <1>6, MemoryRegs DEF OfMemory
<1>7. CASE OfMemory(4, Compile_LWU, LWU)
  BY <1>1, <1>7, MemoryRegs DEF OfMemory
<1>8. CASE OfMemory(4, Compile_LL, LL)
  BY <1>1, <1>8, MemoryRegs DEF OfMemory
<1>9. CASE OfMemory(8, Compile_LD, LD)
  BY <1>1, <1>9, MemoryRegs DEF OfMemory
<1>10. CASE OfMemory(1, Compile_LWL, LWL)
  BY <1>1, <1>10, MemoryRegs DEF OfMemory
<1>11. CASE OfMemory(1, Compile_LWR, LWR)
  BY <1>1, <1>11, MemoryRegs DEF OfMemory
<1>12. CASE OfMemory(1, Compile_LDL, LDL)
  BY <1>1, <1>12, MemoryRegs DEF OfMemory
<1>13. CASE OfMemory(1, Compile_LDR, LDR)
  BY <1>1, <1>13, MemoryRegs DEF OfMemory
<1> QED
  BY <1>2, <1>3, <1>4, <1>5, <1>6, <1>7, <1>8, <1>9, <1>10, <1>11, <1>12, <1>13 DEF Load

LEMMA StoreHeld ==
    ASSUME ZeroStays, Store
    PROVE  ZeroStays'
<1>1. Regs(s) /\ \A n, t : Regs(t) /\ Step(n, t) => ZeroStays'
  BY StepHeld DEF ZeroStays
<1>2. CASE OfMemory(1, Compile_SB, SB)
  BY <1>1, <1>2, MemoryRegs DEF OfMemory
<1>3. CASE OfMemory(2, Compile_SH, SH)
  BY <1>1, <1>3, MemoryRegs DEF OfMemory
<1>4. CASE OfMemory(4, Compile_SW, SW)
  BY <1>1, <1>4, MemoryRegs DEF OfMemory
<1>5. CASE OfMemory(4, Compile_SC, SC)
  BY <1>1, <1>5, MemoryRegs DEF OfMemory
<1>6. CASE OfMemory(8, Compile_SD, SD)
  BY <1>1, <1>6, MemoryRegs DEF OfMemory
<1>7. CASE OfMemory(1, Compile_SWL, SWL)
  BY <1>1, <1>7, MemoryRegs DEF OfMemory
<1>8. CASE OfMemory(1, Compile_SWR, SWR)
  BY <1>1, <1>8, MemoryRegs DEF OfMemory
<1>9. CASE OfMemory(1, Compile_SDL, SDL)
  BY <1>1, <1>9, MemoryRegs DEF OfMemory
<1>10. CASE OfMemory(1, Compile_SDR, SDR)
  BY <1>1, <1>10, MemoryRegs DEF OfMemory
<1> QED
  BY <1>2, <1>3, <1>4, <1>5, <1>6, <1>7, <1>8, <1>9, <1>10 DEF Store

LEMMA BranchesHeld ==
    ASSUME ZeroStays, BranchOnPair \/ BranchOnSign \/ BranchAndLink \/ BranchOnFloat \/ Jump
    PROVE  ZeroStays'
<1>1. Regs(s) /\ \A n, t : Regs(t) /\ Step(n, t) => ZeroStays'
  BY StepHeld DEF ZeroStays
<1>2. \A b \in Places : \A t : Regs(t) => \A taken : Regs(Branch(t, b, taken)) /\ Regs(BranchLikely(t, b, taken))
  BY NamesInside, BranchRegs
<1>3. CASE BranchOnPair
  BY <1>1, <1>2, <1>3, Zenon DEF BranchOnPair, Compare2
<1>4. CASE BranchOnSign
  BY <1>1, <1>2, <1>4, Zenon DEF BranchOnSign, Compare2
<1>5. CASE BranchAndLink
  <2>1. Regs(Put(s, Link, Extended(ReturnPC)))
    BY <1>1, PutRegs
  <2> QED
    BY <1>1, <1>2, <1>5, <2>1, Zenon DEF BranchAndLink
<1>6. CASE BranchOnFloat
  BY <1>1, <1>2, <1>6, Zenon DEF BranchOnFloat
<1>7. CASE Jump
  <2>1. \A b \in Places : \A rd, rs : Regs(J(s, b)) /\ Regs(JAL(s, b)) /\ Regs(JR(s, rs, b)) /\ Regs(JALR(s, rd, rs, b))
    BY <1>1, NamesInside, JumpRegs
  <2> QED
    BY <1>1, <1>7, <2>1, Zenon DEF Jump
<1> QED
  BY <1>3, <1>4, <1>5, <1>6, <1>7

(* Every instruction of the interpreter is a function on machines whose    *)
(* registers are those of the guest, and the loop of interpreter_cpu.c     *)
(* clears register 0 after each, whatever the handler wrote to it.         *)
THEOREM NextHeld ==
    ASSUME ZeroStays, [Next]_vars
    PROVE  ZeroStays'
<1>1. CASE UNCHANGED vars
  BY <1>1 DEF vars, ZeroStays
<1>2. CASE Next
  BY <1>2, WithImmediateHeld, ShiftHeld, ShiftVariableHeld, CombinationHeld, MultiplicationHeld, DivisionHeld,
     MoveHiLoHeld, LoadHeld, StoreHeld, BranchesHeld DEF Next
<1> QED
  BY <1>1, <1>2

(* Register 0 of the interpreter is a pair of words of value zero at all   *)
(* times.                                                                  *)
THEOREM AlwaysHeld == Spec => []ZeroStays
<1>1. Init => ZeroStays
  <2>1. SUFFICES ASSUME Init PROVE ZeroStays
    OBVIOUS
  <2>2. s = [gpr |-> [r \in Guest |-> IF r = 0 THEN Zero ELSE Value(m, r)], HI |-> m.HI, LO |-> m.LO,
             mem |-> m.mem, LLBit |-> m.LLBit, missed |-> NoReg, went |-> m.went, target |-> m.target,
             fpcr |-> m.fpcr]
    BY <2>1 DEF Init
  <2> QED
    BY <2>2, ConstantFacts DEF ZeroStays, Regs
<1>2. ZeroStays /\ [Next]_vars => ZeroStays'
  BY NextHeld
<1> QED
  BY <1>1, <1>2, PTL DEF Spec

(* Wherever the cache says of the guest registers what the interpreter     *)
(* computed, WriteBackRegisters leaves exactly that in memory: what it     *)
(* stores of a register of 32 bits, sign or zero extended, of one of 64    *)
(* bits and of a constant, in whatever order it walks and drops them, is   *)
(* what the cache stood for. It is the step that every call out of         *)
(* compiled code, every exit of a block and every branch to the            *)
(* interpreter relies on.                                                  *)
THEOREM AlwaysMemoryAgrees == Spec => [](StateAgrees => MemoryAgrees)
<1>1. Kept /\ ZeroStays => (StateAgrees => MemoryAgrees)
  <2> DEFINE w == WriteBackRegisters(m)
  <2>1. SUFFICES ASSUME Kept, ZeroStays, StateAgrees, Comparable, ~w.slip, NEW r \in Guest
                 PROVE  w.gpr[r] = s.gpr[r]
    BY Zenon DEF MemoryAgrees
  <2>2. Sound(m) /\ m.live /\ m.gpr[0] = Zero
    BY <2>1 DEF Kept, Comparable, Idle
  <2>3. Recorded(m)
    BY <2>1 DEF StateAgrees, TypeOK, DoubleWord, Recorded
  <2> HIDE DEF w
  <2>4. w.gpr[0] = m.gpr[0] /\ \A q \in Guest \ {0} : w.gpr[q] = Value(m, q)
    BY <2>1, <2>2, <2>3, WriteBackValues DEF w
  <2>5. CASE r = 0
    BY <2>1, <2>2, <2>4, <2>5 DEF ZeroStays
  <2>6. CASE r # 0
    BY <2>1, <2>4, <2>6 DEF StateAgrees
  <2> QED
    BY <2>5, <2>6
<1> QED
  BY <1>1, AlwaysKept, AlwaysHeld, PTL

---------------------------------------------------------------------------
\* An instruction changes one guest register.

(* The interpreter has written no register but r, and 0.                   *)
Wrote(t, u, r) == Regs(u) /\ \A q \in Guest \ {0, r} : u.gpr[q] = t.gpr[q]
(* What a guest register holds, wherever it is kept, is what it held.      *)
Elsewhere(r) == \A q \in Guest \ {0, r} : Value(m', q) = Value(m, q) /\ s'.gpr[q] = s.gpr[q]
OneWritten == m'.slip = TRUE \/ \E r \in Guest : Elsewhere(r)

LEMMA PutWrote ==
    ASSUME NEW t, Regs(t)
    PROVE  /\ \A r, d : Wrote(t, Put(t, r, d), r)
           /\ \A r : Wrote(t, t, r)
           /\ \A r, h, l : Wrote(t, HiLo(t, h, l), r) /\ Wrote(t, [t EXCEPT !.HI = h], r) /\ Wrote(t, [t EXCEPT !.LO = h], r)
           /\ \A r, a : Wrote(t, [t EXCEPT !.mem = a], r) /\ Wrote(t, [t EXCEPT !.LLBit = a], r)
                       /\ Wrote(t, [t EXCEPT !.missed = a], r)
<1>1. \A r, d : Wrote(t, Put(t, r, d), r)
  BY DEF Wrote, Regs, Put
<1>2. \A r : Wrote(t, t, r)
  BY DEF Wrote, Regs
<1>3. \A r, h, l : Wrote(t, HiLo(t, h, l), r) /\ Wrote(t, [t EXCEPT !.HI = h], r) /\ Wrote(t, [t EXCEPT !.LO = h], r)
  BY DEF Wrote, Regs, HiLo
<1>4. \A r, a : Wrote(t, [t EXCEPT !.mem = a], r) /\ Wrote(t, [t EXCEPT !.LLBit = a], r)
             /\ Wrote(t, [t EXCEPT !.missed = a], r)
  BY DEF Wrote, Regs
<1> QED
  BY <1>1, <1>2, <1>3, <1>4

LEMMA WroteTrans ==
    ASSUME NEW t, NEW u, NEW v, NEW r, Wrote(t, u, r), Wrote(u, v, r)
    PROVE  Wrote(t, v, r)
BY DEF Wrote

LEMMA ImmediateWrote ==
    ASSUME NEW t, Regs(t), NEW a, NEW b, NEW c
    PROVE  /\ Wrote(t, ADDIU(t, a, b, c), a)
           /\ Wrote(t, ADDI(t, a, b, c), a)
           /\ Wrote(t, DADDIU(t, a, b, c), a)
           /\ Wrote(t, SLTI(t, a, b, c), a)
           /\ Wrote(t, SLTIU(t, a, b, c), a)
           /\ Wrote(t, ANDI(t, a, b, c), a)
           /\ Wrote(t, ORI(t, a, b, c), a)
           /\ Wrote(t, XORI(t, a, b, c), a)
<1>1. Wrote(t, ADDIU(t, a, b, c), a)
  BY PutWrote DEF ADDIU
<1>2. Wrote(t, ADDI(t, a, b, c), a)
  BY PutWrote DEF ADDI, ADDIU
<1>3. Wrote(t, DADDIU(t, a, b, c), a)
  BY PutWrote DEF DADDIU
<1>4. Wrote(t, SLTI(t, a, b, c), a)
  BY PutWrote DEF SLTI
<1>5. Wrote(t, SLTIU(t, a, b, c), a)
  BY PutWrote DEF SLTIU
<1>6. Wrote(t, ANDI(t, a, b, c), a)
  BY PutWrote DEF ANDI
<1>7. Wrote(t, ORI(t, a, b, c), a)
  BY PutWrote DEF ORI
<1>8. Wrote(t, XORI(t, a, b, c), a)
  BY PutWrote DEF XORI
<1> QED
  BY <1>1, <1>2, <1>3, <1>4, <1>5, <1>6, <1>7, <1>8

LEMMA ShiftWrote ==
    ASSUME NEW t, Regs(t), NEW a, NEW b, NEW c
    PROVE  /\ Wrote(t, SLL(t, a, b, c), a)
           /\ Wrote(t, SRL(t, a, b, c), a)
           /\ Wrote(t, SRA(t, a, b, c), a)
           /\ Wrote(t, DSLL(t, a, b, c), a)
           /\ Wrote(t, DSRL(t, a, b, c), a)
           /\ Wrote(t, DSRA(t, a, b, c), a)
           /\ Wrote(t, DSLL32(t, a, b, c), a)
           /\ Wrote(t, DSRL32(t, a, b, c), a)
           /\ Wrote(t, DSRA32(t, a, b, c), a)
           /\ Wrote(t, SLLV(t, a, b, c), a)
           /\ Wrote(t, SRLV(t, a, b, c), a)
           /\ Wrote(t, SRAV(t, a, b, c), a)
           /\ Wrote(t, DSLLV(t, a, b, c), a)
           /\ Wrote(t, DSRLV(t, a, b, c), a)
           /\ Wrote(t, DSRAV(t, a, b, c), a)
<1>1. Wrote(t, SLL(t, a, b, c), a)
  BY PutWrote DEF SLL
<1>2. Wrote(t, SRL(t, a, b, c), a)
  BY PutWrote DEF SRL
<1>3. Wrote(t, SRA(t, a, b, c), a)
  BY PutWrote DEF SRA
<1>4. Wrote(t, DSLL(t, a, b, c), a)
  BY PutWrote DEF DSLL
<1>5. Wrote(t, DSRL(t, a, b, c), a)
  BY PutWrote DEF DSRL
<1>6. Wrote(t, DSRA(t, a, b, c), a)
  BY PutWrote DEF DSRA
<1>7. Wrote(t, DSLL32(t, a, b, c), a)
  BY PutWrote DEF DSLL32, DSLL
<1>8. Wrote(t, DSRL32(t, a, b, c), a)
  BY PutWrote DEF DSRL32, DSRL
<1>9. Wrote(t, DSRA32(t, a, b, c), a)
  BY PutWrote DEF DSRA32, DSRA
<1>10. Wrote(t, SLLV(t, a, b, c), a)
  BY PutWrote DEF SLLV, SLL
<1>11. Wrote(t, SRLV(t, a, b, c), a)
  BY PutWrote DEF SRLV, SRL
<1>12. Wrote(t, SRAV(t, a, b, c), a)
  BY PutWrote DEF SRAV, SRA
<1>13. Wrote(t, DSLLV(t, a, b, c), a)
  BY PutWrote DEF DSLLV, DSLL
<1>14. Wrote(t, DSRLV(t, a, b, c), a)
  BY PutWrote DEF DSRLV, DSRL
<1>15. Wrote(t, DSRAV(t, a, b, c), a)
  BY PutWrote DEF DSRAV, DSRA
<1> QED
  BY <1>1, <1>2, <1>3, <1>4, <1>5, <1>6, <1>7, <1>8, <1>9, <1>10, <1>11, <1>12, <1>13, <1>14, <1>15

LEMMA CombinationWrote ==
    ASSUME NEW t, Regs(t), NEW a, NEW b, NEW c
    PROVE  /\ Wrote(t, ADDU(t, a, b, c), a)
           /\ Wrote(t, SUBU(t, a, b, c), a)
           /\ Wrote(t, AND(t, a, b, c), a)
           /\ Wrote(t, OR(t, a, b, c), a)
           /\ Wrote(t, XOR(t, a, b, c), a)
           /\ Wrote(t, NOR(t, a, b, c), a)
           /\ Wrote(t, SLT(t, a, b, c), a)
           /\ Wrote(t, SLTU(t, a, b, c), a)
           /\ Wrote(t, DADDU(t, a, b, c), a)
           /\ Wrote(t, DSUBU(t, a, b, c), a)
           /\ Wrote(t, ADD(t, a, b, c), a)
           /\ Wrote(t, SUB(t, a, b, c), a)
           /\ Wrote(t, DADD(t, a, b, c), a)
           /\ Wrote(t, DSUB(t, a, b, c), a)
<1>1. Wrote(t, ADDU(t, a, b, c), a)
  BY PutWrote DEF ADDU
<1>2. Wrote(t, SUBU(t, a, b, c), a)
  BY PutWrote DEF SUBU
<1>3. Wrote(t, AND(t, a, b, c), a)
  BY PutWrote DEF AND
<1>4. Wrote(t, OR(t, a, b, c), a)
  BY PutWrote DEF OR
<1>5. Wrote(t, XOR(t, a, b, c), a)
  BY PutWrote DEF XOR
<1>6. Wrote(t, NOR(t, a, b, c), a)
  BY PutWrote DEF NOR
<1>7. Wrote(t, SLT(t, a, b, c), a)
  BY PutWrote DEF SLT
<1>8. Wrote(t, SLTU(t, a, b, c), a)
  BY PutWrote DEF SLTU
<1>9. Wrote(t, DADDU(t, a, b, c), a)
  BY PutWrote DEF DADDU
<1>10. Wrote(t, DSUBU(t, a, b, c), a)
  BY PutWrote DEF DSUBU
<1>11. Wrote(t, ADD(t, a, b, c), a)
  BY PutWrote DEF ADD, ADDU
<1>12. Wrote(t, SUB(t, a, b, c), a)
  BY PutWrote DEF SUB, SUBU
<1>13. Wrote(t, DADD(t, a, b, c), a)
  BY PutWrote DEF DADD, DADDU
<1>14. Wrote(t, DSUB(t, a, b, c), a)
  BY PutWrote DEF DSUB, DSUBU
<1> QED
  BY <1>1, <1>2, <1>3, <1>4, <1>5, <1>6, <1>7, <1>8, <1>9, <1>10, <1>11, <1>12, <1>13, <1>14

LEMMA FactorsWrote ==
    ASSUME NEW t, Regs(t), NEW a, NEW b, NEW c
    PROVE  /\ Wrote(t, MULT(t, a, b), a)
           /\ Wrote(t, MULTU(t, a, b), a)
           /\ Wrote(t, DMULT(t, a, b), a)
           /\ Wrote(t, DMULTU(t, a, b), a)
           /\ Wrote(t, DIV(t, a, b), a)
           /\ Wrote(t, DIVU(t, a, b), a)
           /\ Wrote(t, DDIV(t, a, b), a)
           /\ Wrote(t, DDIVU(t, a, b), a)
<1>1. Wrote(t, MULT(t, a, b), a)
  BY PutWrote DEF MULT, Product
<1>2. Wrote(t, MULTU(t, a, b), a)
  BY PutWrote DEF MULTU, Product
<1>3. Wrote(t, DMULT(t, a, b), a)
  BY PutWrote DEF DMULT, LongProduct
<1>4. Wrote(t, DMULTU(t, a, b), a)
  BY PutWrote DEF DMULTU
<1>5. Wrote(t, DIV(t, a, b), a)
  BY PutWrote DEF DIV
<1>6. Wrote(t, DIVU(t, a, b), a)
  BY PutWrote DEF DIVU
<1>7. Wrote(t, DDIV(t, a, b), a)
  BY PutWrote DEF DDIV
<1>8. Wrote(t, DDIVU(t, a, b), a)
  BY PutWrote DEF DDIVU
<1> QED
  BY <1>1, <1>2, <1>3, <1>4, <1>5, <1>6, <1>7, <1>8

LEMMA HiLoWrote ==
    ASSUME NEW t, Regs(t), NEW a, NEW b, NEW c
    PROVE  /\ Wrote(t, MFHI(t, a), a)
           /\ Wrote(t, MTHI(t, a), a)
           /\ Wrote(t, MFLO(t, a), a)
           /\ Wrote(t, MTLO(t, a), a)
<1>1. Wrote(t, MFHI(t, a), a)
  BY PutWrote DEF MFHI
<1>2. Wrote(t, MTHI(t, a), a)
  BY PutWrote DEF MTHI
<1>3. Wrote(t, MFLO(t, a), a)
  BY PutWrote DEF MFLO
<1>4. Wrote(t, MTLO(t, a), a)
  BY PutWrote DEF MTLO
<1> QED
  BY <1>1, <1>2, <1>3, <1>4

LEMMA MemoryWrote ==
    ASSUME NEW t, Regs(t), NEW a, NEW b, NEW c
    PROVE  /\ Wrote(t, LB(t, a, b, c), a)
           /\ Wrote(t, LH(t, a, b, c), a)
           /\ Wrote(t, LW(t, a, b, c), a)
           /\ Wrote(t, LBU(t, a, b, c), a)
           /\ Wrote(t, LHU(t, a, b, c), a)
           /\ Wrote(t, LWU(t, a, b, c), a)
           /\ Wrote(t, LL(t, a, b, c), a)
           /\ Wrote(t, LWL(t, a, b, c), a)
           /\ Wrote(t, LWR(t, a, b, c), a)
           /\ Wrote(t, LD(t, a, b, c), a)
           /\ Wrote(t, LDL(t, a, b, c), a)
           /\ Wrote(t, LDR(t, a, b, c), a)
           /\ Wrote(t, SB(t, a, b, c), a)
           /\ Wrote(t, SH(t, a, b, c), a)
           /\ Wrote(t, SW(t, a, b, c), a)
           /\ Wrote(t, SWL(t, a, b, c), a)
           /\ Wrote(t, SWR(t, a, b, c), a)
           /\ Wrote(t, SD(t, a, b, c), a)
           /\ Wrote(t, SDL(t, a, b, c), a)
           /\ Wrote(t, SDR(t, a, b, c), a)
           /\ Wrote(t, SC(t, a, b, c), a)
<1>1. Wrote(t, LB(t, a, b, c), a)
  BY PutWrote DEF LB, Narrow, Loaded, Missing
<1>2. Wrote(t, LH(t, a, b, c), a)
  BY PutWrote DEF LH, Narrow, Loaded, Missing
<1>3. Wrote(t, LW(t, a, b, c), a)
  BY PutWrote DEF LW, Narrow, Loaded, Missing
<1>4. Wrote(t, LBU(t, a, b, c), a)
  BY PutWrote DEF LBU, Narrow, Loaded, Missing
<1>5. Wrote(t, LHU(t, a, b, c), a)
  BY PutWrote DEF LHU, Narrow, Loaded, Missing
<1>6. Wrote(t, LWU(t, a, b, c), a)
  BY PutWrote DEF LWU, Narrow, Loaded, Missing
<1>7. Wrote(t, LL(t, a, b, c), a)
  <2> DEFINE u == LW(t, a, b, c)
  <2>1. Wrote(t, u, a) /\ Regs(u)
    BY <1>3 DEF Wrote
  <2> HIDE DEF u
  <2>2. Wrote(u, [u EXCEPT !.LLBit = 1], a)
    BY <2>1, PutWrote
  <2>3. Wrote(t, [u EXCEPT !.LLBit = 1], a) /\ Wrote(t, t, a)
    BY <2>1, <2>2, PutWrote, WroteTrans
  <2> QED
    BY <2>1, <2>3 DEF LL, u
<1>8. Wrote(t, LWL(t, a, b, c), a)
  BY PutWrote DEF LWL
<1>9. Wrote(t, LWR(t, a, b, c), a)
  BY PutWrote DEF LWR
<1>10. Wrote(t, LD(t, a, b, c), a)
  BY PutWrote DEF LD
<1>11. Wrote(t, LDL(t, a, b, c), a)
  BY PutWrote DEF LDL
<1>12. Wrote(t, LDR(t, a, b, c), a)
  BY PutWrote DEF LDR
<1>13. Wrote(t, SB(t, a, b, c), a)
  BY PutWrote DEF SB, Stored
<1>14. Wrote(t, SH(t, a, b, c), a)
  BY PutWrote DEF SH, Stored
<1>15. Wrote(t, SW(t, a, b, c), a)
  BY PutWrote DEF SW, Stored
<1>16. Wrote(t, SWL(t, a, b, c), a)
  BY PutWrote DEF SWL, Stored
<1>17. Wrote(t, SWR(t, a, b, c), a)
  BY PutWrote DEF SWR, Stored
<1>18. Wrote(t, SD(t, a, b, c), a)
  BY PutWrote DEF SD, StoredLong, Stored
<1>19. Wrote(t, SDL(t, a, b, c), a)
  BY PutWrote DEF SDL, StoredLong, Stored
<1>20. Wrote(t, SDR(t, a, b, c), a)
  BY PutWrote DEF SDR, StoredLong, Stored
<1>21. Wrote(t, SC(t, a, b, c), a)
  <2> DEFINE u == IF t.LLBit = 1 THEN SW(t, a, b, c) ELSE t
  <2>1. Wrote(t, u, a) /\ Regs(u)
    BY <1>15, PutWrote DEF Wrote
  <2> HIDE DEF u
  <2>2. \A d : Wrote(t, Put(u, a, d), a)
    BY <2>1, PutWrote, WroteTrans
  <2> QED
    BY <2>2 DEF SC, u
<1> QED
  BY <1>1, <1>2, <1>3, <1>4, <1>5, <1>6, <1>7, <1>8, <1>9, <1>10, <1>11, <1>12, <1>13, <1>14, <1>15, <1>16,
     <1>17, <1>18, <1>19, <1>20, <1>21

LEMMA LUIWrote ==
    ASSUME NEW t, Regs(t), NEW a, NEW b
    PROVE  Wrote(t, LUI(t, a, b), a)
BY PutWrote DEF LUI

LEMMA UnprotectedSame ==
    ASSUME NEW n, Sound(n), NEW q
    PROVE  Value(Unprotected(n), q) = Value(n, q)
<1> DEFINE u == Unprotected(n)
<1>1. u.st = n.st /\ u.lo = n.lo /\ u.hi = n.hi /\ u.x = n.x /\ u.gpr = n.gpr
  BY DEF Unprotected, Sound, Shape, Fields
<1> HIDE DEF u
<1>2. LowWord(u, q) = LowWord(n, q)
  BY <1>1, Zenon DEF LowWord, IsUnknown, IsConst, IsMapped, IsKnown
<1>3. HighWord(u, q) = HighWord(n, q)
  BY <1>1, <1>2, Zenon DEF HighWord, IsUnknown
<1> QED
  BY <1>2, <1>3 DEF Value, u

LEMMA StepWrote ==
    ASSUME Kept, ~m.slip, ZeroStays, NEW r \in Guest, NEW n, Ends(m, n, {r}) \/ Ends(m, n, {}) \/ Slipped(n),
           NEW t, Step(n, t), Wrote(s, t, r)
    PROVE  OneWritten
<1>1. m' = Unprotected(n) /\ s' = [t EXCEPT !.gpr[0] = Zero]
  BY DEF Step
<1>2. CASE Slipped(n)
  <2>1. Unprotected(n).slip = TRUE
    BY <1>2 DEF Slipped, Unprotected
  <2> QED
    BY <1>1, <2>1 DEF OneWritten
<1>3. CASE Ends(m, n, {r}) \/ Ends(m, n, {})
  <2>1. m.live
    BY DEF Kept
  <2>2. Sound(n) /\ (~n.slip => \A q \in Guest \ {0, r} : Value(n, q) = Value(m, q))
    BY <1>3, <2>1 DEF Ends, Effect
  <2>3. Unprotected(n).slip = n.slip /\ n.slip \in BOOLEAN
    BY <2>2, UnprotectedEnds DEF Sound, Shape
  <2>4. \A q : Value(Unprotected(n), q) = Value(n, q)
    BY <2>2, UnprotectedSame
  <2>5. \A q \in Guest \ {0, r} : s'.gpr[q] = s.gpr[q]
    BY <1>1 DEF Wrote, Regs
  <2> QED
    BY <1>1, <2>2, <2>3, <2>4, <2>5 DEF OneWritten, Elsewhere
<1> QED
  BY <1>2, <1>3

LEMMA WithImmediateOne ==
    ASSUME Kept, ZeroStays, WithImmediate
    PROVE  OneWritten
<1>1. ~m.slip /\ Idle(m) /\ Regs(s)
  BY CompilesIdle DEF ZeroStays, WithImmediate
<1>2. \A n, t : \A r \in Guest : Ends(m, n, {r}) /\ Step(n, t) /\ Wrote(s, t, r) => OneWritten
  BY <1>1, StepWrote
<1>3. CASE OfImmediate(Compile_ADDI, ADDI)
  <2>1. \A d, a \in Guest : \A b : Ends(m, Compile_ADDI(m, d, a, b), {d})
    BY <1>1, Compile_ADDI_Ends
  <2>2. \A d, a, b : Wrote(s, ADDI(s, d, a, b), d)
    BY <1>1, ImmediateWrote
  <2>3. PICK d \in Targets, a \in Operands, b \in Immediate : Step(Compile_ADDI(m, d, a, b), ADDI(s, d, a, b))
    BY <1>3 DEF OfImmediate
  <2>4. d \in Guest /\ a \in Guest
    BY NamesInside
  <2> QED
    BY <1>2, <2>1, <2>2, <2>3, <2>4
<1>4. CASE OfImmediate(Compile_ADDIU, ADDIU)
  <2>1. \A d, a \in Guest : \A b : Ends(m, Compile_ADDIU(m, d, a, b), {d})
    BY <1>1, Compile_ADDIU_Ends
  <2>2. \A d, a, b : Wrote(s, ADDIU(s, d, a, b), d)
    BY <1>1, ImmediateWrote
  <2>3. PICK d \in Targets, a \in Operands, b \in Immediate : Step(Compile_ADDIU(m, d, a, b), ADDIU(s, d, a, b))
    BY <1>4 DEF OfImmediate
  <2>4. d \in Guest /\ a \in Guest
    BY NamesInside
  <2> QED
    BY <1>2, <2>1, <2>2, <2>3, <2>4
<1>5. CASE OfImmediate(Compile_DADDIU, DADDIU)
  <2>1. \A d, a \in Guest : \A b : Ends(m, Compile_DADDIU(m, d, a, b), {d})
    BY <1>1, Compile_DADDIU_Ends
  <2>2. \A d, a, b : Wrote(s, DADDIU(s, d, a, b), d)
    BY <1>1, ImmediateWrote
  <2>3. PICK d \in Targets, a \in Operands, b \in Immediate : Step(Compile_DADDIU(m, d, a, b), DADDIU(s, d, a, b))
    BY <1>5 DEF OfImmediate
  <2>4. d \in Guest /\ a \in Guest
    BY NamesInside
  <2> QED
    BY <1>2, <2>1, <2>2, <2>3, <2>4
<1>6. CASE OfImmediate(Compile_SLTI, SLTI)
  <2>1. \A d, a \in Guest : \A b : Ends(m, Compile_SLTI(m, d, a, b), {d})
    BY <1>1, Compile_SLTI_Ends
  <2>2. \A d, a, b : Wrote(s, SLTI(s, d, a, b), d)
    BY <1>1, ImmediateWrote
  <2>3. PICK d \in Targets, a \in Operands, b \in Immediate : Step(Compile_SLTI(m, d, a, b), SLTI(s, d, a, b))
    BY <1>6 DEF OfImmediate
  <2>4. d \in Guest /\ a \in Guest
    BY NamesInside
  <2> QED
    BY <1>2, <2>1, <2>2, <2>3, <2>4
<1>7. CASE OfImmediate(Compile_SLTIU, SLTIU)
  <2>1. \A d, a \in Guest : \A b : Ends(m, Compile_SLTIU(m, d, a, b), {d})
    BY <1>1, Compile_SLTIU_Ends
  <2>2. \A d, a, b : Wrote(s, SLTIU(s, d, a, b), d)
    BY <1>1, ImmediateWrote
  <2>3. PICK d \in Targets, a \in Operands, b \in Immediate : Step(Compile_SLTIU(m, d, a, b), SLTIU(s, d, a, b))
    BY <1>7 DEF OfImmediate
  <2>4. d \in Guest /\ a \in Guest
    BY NamesInside
  <2> QED
    BY <1>2, <2>1, <2>2, <2>3, <2>4
<1>8. CASE OfImmediate(Compile_ANDI, ANDI)
  <2>1. \A d, a \in Guest : \A b : Ends(m, Compile_ANDI(m, d, a, b), {d})
    BY <1>1, Compile_ANDI_Ends
  <2>2. \A d, a, b : Wrote(s, ANDI(s, d, a, b), d)
    BY <1>1, ImmediateWrote
  <2>3. PICK d \in Targets, a \in Operands, b \in Immediate : Step(Compile_ANDI(m, d, a, b), ANDI(s, d, a, b))
    BY <1>8 DEF OfImmediate
  <2>4. d \in Guest /\ a \in Guest
    BY NamesInside
  <2> QED
    BY <1>2, <2>1, <2>2, <2>3, <2>4
<1>9. CASE OfImmediate(Compile_ORI, ORI)
  <2>1. \A d, a \in Guest : \A b : Ends(m, Compile_ORI(m, d, a, b), {d})
    BY <1>1, Compile_ORI_Ends
  <2>2. \A d, a, b : Wrote(s, ORI(s, d, a, b), d)
    BY <1>1, ImmediateWrote
  <2>3. PICK d \in Targets, a \in Operands, b \in Immediate : Step(Compile_ORI(m, d, a, b), ORI(s, d, a, b))
    BY <1>9 DEF OfImmediate
  <2>4. d \in Guest /\ a \in Guest
    BY NamesInside
  <2> QED
    BY <1>2, <2>1, <2>2, <2>3, <2>4
<1>10. CASE OfImmediate(Compile_XORI, XORI)
  <2>1. \A d, a \in Guest : \A b : Ends(m, Compile_XORI(m, d, a, b), {d})
    BY <1>1, Compile_XORI_Ends
  <2>2. \A d, a, b : Wrote(s, XORI(s, d, a, b), d)
    BY <1>1, ImmediateWrote
  <2>3. PICK d \in Targets, a \in Operands, b \in Immediate : Step(Compile_XORI(m, d, a, b), XORI(s, d, a, b))
    BY <1>10 DEF OfImmediate
  <2>4. d \in Guest /\ a \in Guest
    BY NamesInside
  <2> QED
    BY <1>2, <2>1, <2>2, <2>3, <2>4
<1>11. CASE \E rt \in Targets, imm \in Immediate : Step(Compile_LUI(m, rt, imm), LUI(s, rt, imm))
  BY <1>1, <1>2, <1>11, NamesInside, Compile_LUI_Ends, LUIWrote
<1> QED
  BY <1>3, <1>4, <1>5, <1>6, <1>7, <1>8, <1>9, <1>10, <1>11 DEF WithImmediate

LEMMA ShiftOne ==
    ASSUME Kept, ZeroStays, Shift
    PROVE  OneWritten
<1>1. ~m.slip /\ Idle(m) /\ Regs(s)
  BY CompilesIdle DEF ZeroStays, Shift
<1>2. \A n, t : \A r \in Guest : Ends(m, n, {r}) /\ Step(n, t) /\ Wrote(s, t, r) => OneWritten
  BY <1>1, StepWrote
<1>3. \A n, t : \A r \in Guest : Ends(m, n, {}) /\ Step(n, t) /\ Wrote(s, t, r) => OneWritten
  BY <1>1, StepWrote
<1>4. CASE OfImmediate(Compile_SLL, SLL)
  <2>1. \A d, a \in Guest : \A b : Ends(m, Compile_SLL(m, d, a, b), {d})
    BY <1>1, Compile_SLL_Ends
  <2>2. \A d, a, b : Wrote(s, SLL(s, d, a, b), d)
    BY <1>1, ShiftWrote
  <2>3. PICK d \in Targets, a \in Operands, b \in Immediate : Step(Compile_SLL(m, d, a, b), SLL(s, d, a, b))
    BY <1>4 DEF OfImmediate
  <2>4. d \in Guest /\ a \in Guest
    BY NamesInside
  <2> QED
    BY <1>2, <2>1, <2>2, <2>3, <2>4
<1>5. CASE OfImmediate(Compile_SRL, SRL)
  <2>1. \A d, a \in Guest : \A b : Ends(m, Compile_SRL(m, d, a, b), {d})
    BY <1>1, Compile_SRL_Ends
  <2>2. \A d, a, b : Wrote(s, SRL(s, d, a, b), d)
    BY <1>1, ShiftWrote
  <2>3. PICK d \in Targets, a \in Operands, b \in Immediate : Step(Compile_SRL(m, d, a, b), SRL(s, d, a, b))
    BY <1>5 DEF OfImmediate
  <2>4. d \in Guest /\ a \in Guest
    BY NamesInside
  <2> QED
    BY <1>2, <2>1, <2>2, <2>3, <2>4
<1>6. CASE OfImmediate(Compile_SRA, SRA)
  <2>1. \A d, a \in Guest : \A b : Ends(m, Compile_SRA(m, d, a, b), {d})
    BY <1>1, Compile_SRL_Ends
  <2>2. \A d, a, b : Wrote(s, SRA(s, d, a, b), d)
    BY <1>1, ShiftWrote
  <2>3. PICK d \in Targets, a \in Operands, b \in Immediate : Step(Compile_SRA(m, d, a, b), SRA(s, d, a, b))
    BY <1>6 DEF OfImmediate
  <2>4. d \in Guest /\ a \in Guest
    BY NamesInside
  <2> QED
    BY <1>2, <2>1, <2>2, <2>3, <2>4
<1>7. CASE OfImmediate(Compile_DSLL, DSLL)
  <2>1. \A d, a \in Guest : \A b : Ends(m, Compile_DSLL(m, d, a, b), {d})
    BY <1>1, Compile_DSLL_Ends
  <2>2. \A d, a, b : Wrote(s, DSLL(s, d, a, b), d)
    BY <1>1, ShiftWrote
  <2>3. PICK d \in Targets, a \in Operands, b \in Immediate : Step(Compile_DSLL(m, d, a, b), DSLL(s, d, a, b))
    BY <1>7 DEF OfImmediate
  <2>4. d \in Guest /\ a \in Guest
    BY NamesInside
  <2> QED
    BY <1>2, <2>1, <2>2, <2>3, <2>4
<1>8. CASE OfImmediate(Compile_DSRL, DSRL)
  <2>1. \A d, a \in Guest : \A b : Ends(m, Compile_DSRL(m, d, a, b), {d})
    BY <1>1, Compile_DSLL_Ends
  <2>2. \A d, a, b : Wrote(s, DSRL(s, d, a, b), d)
    BY <1>1, ShiftWrote
  <2>3. PICK d \in Targets, a \in Operands, b \in Immediate : Step(Compile_DSRL(m, d, a, b), DSRL(s, d, a, b))
    BY <1>8 DEF OfImmediate
  <2>4. d \in Guest /\ a \in Guest
    BY NamesInside
  <2> QED
    BY <1>2, <2>1, <2>2, <2>3, <2>4
<1>9. CASE OfImmediate(Compile_DSRA, DSRA)
  <2>1. \A d, a \in Guest : \A b : Ends(m, Compile_DSRA(m, d, a, b), {d})
    BY <1>1, Compile_DSLL_Ends
  <2>2. \A d, a, b : Wrote(s, DSRA(s, d, a, b), d)
    BY <1>1, ShiftWrote
  <2>3. PICK d \in Targets, a \in Operands, b \in Immediate : Step(Compile_DSRA(m, d, a, b), DSRA(s, d, a, b))
    BY <1>9 DEF OfImmediate
  <2>4. d \in Guest /\ a \in Guest
    BY NamesInside
  <2> QED
    BY <1>2, <2>1, <2>2, <2>3, <2>4
<1>10. CASE OfImmediate(Compile_DSLL32, DSLL32)
  <2>1. \A d, a \in Guest : \A b : Ends(m, Compile_DSLL32(m, d, a, b), {d})
    BY <1>1, Compile_DSLL32_Ends
  <2>2. \A d, a, b : Wrote(s, DSLL32(s, d, a, b), d)
    BY <1>1, ShiftWrote
  <2>3. PICK d \in Targets, a \in Operands, b \in Immediate : Step(Compile_DSLL32(m, d, a, b), DSLL32(s, d, a, b))
    BY <1>10 DEF OfImmediate
  <2>4. d \in Guest /\ a \in Guest
    BY NamesInside
  <2> QED
    BY <1>2, <2>1, <2>2, <2>3, <2>4
<1>11. CASE OfImmediate(Compile_DSRL32, DSRL32)
  <2>1. \A d, a \in Guest : \A b : Ends(m, Compile_DSRL32(m, d, a, b), {d})
    BY <1>1, Compile_DSRL32_Ends
  <2>2. \A d, a, b : Wrote(s, DSRL32(s, d, a, b), d)
    BY <1>1, ShiftWrote
  <2>3. PICK d \in Targets, a \in Operands, b \in Immediate : Step(Compile_DSRL32(m, d, a, b), DSRL32(s, d, a, b))
    BY <1>11 DEF OfImmediate
  <2>4. d \in Guest /\ a \in Guest
    BY NamesInside
  <2> QED
    BY <1>2, <2>1, <2>2, <2>3, <2>4
<1>12. CASE OfImmediate(Compile_DSRA32, DSRA32)
  <2>1. \A d, a \in Guest : \A b : Ends(m, Compile_DSRA32(m, d, a, b), {d})
    BY <1>1, Compile_DSRL32_Ends
  <2>2. \A d, a, b : Wrote(s, DSRA32(s, d, a, b), d)
    BY <1>1, ShiftWrote
  <2>3. PICK d \in Targets, a \in Operands, b \in Immediate : Step(Compile_DSRA32(m, d, a, b), DSRA32(s, d, a, b))
    BY <1>12 DEF OfImmediate
  <2>4. d \in Guest /\ a \in Guest
    BY NamesInside
  <2> QED
    BY <1>2, <2>1, <2>2, <2>3, <2>4
<1> QED
  BY <1>4, <1>5, <1>6, <1>7, <1>8, <1>9, <1>10, <1>11, <1>12 DEF Shift

LEMMA ShiftVariableOne ==
    ASSUME Kept, ZeroStays, ShiftVariable
    PROVE  OneWritten
<1>1. ~m.slip /\ Idle(m) /\ Regs(s)
  BY CompilesIdle DEF ZeroStays, ShiftVariable
<1>2. \A n, t : \A r \in Guest : Ends(m, n, {r}) /\ Step(n, t) /\ Wrote(s, t, r) => OneWritten
  BY <1>1, StepWrote
<1>3. \A n, t : \A r \in Guest : Ends(m, n, {}) /\ Step(n, t) /\ Wrote(s, t, r) => OneWritten
  BY <1>1, StepWrote
<1>4. CASE OfPair(Compile_SLLV, SLLV)
  <2>1. \A d, a, b \in Guest : Ends(m, Compile_SLLV(m, d, a, b), {d})
    BY <1>1, Compile_SLLV_Ends
  <2>2. \A d, a, b : Wrote(s, SLLV(s, d, a, b), d)
    BY <1>1, ShiftWrote
  <2>3. PICK d \in Targets, a, b \in Operands : Step(Compile_SLLV(m, d, a, b), SLLV(s, d, a, b))
    BY <1>4 DEF OfPair
  <2>4. d \in Guest /\ a \in Guest /\ b \in Guest
    BY NamesInside
  <2> QED
    BY <1>2, <2>1, <2>2, <2>3, <2>4
<1>5. CASE OfPair(Compile_SRLV, SRLV)
  <2>1. \A d, a, b \in Guest : Ends(m, Compile_SRLV(m, d, a, b), {d})
    BY <1>1, Compile_SLLV_Ends
  <2>2. \A d, a, b : Wrote(s, SRLV(s, d, a, b), d)
    BY <1>1, ShiftWrote
  <2>3. PICK d \in Targets, a, b \in Operands : Step(Compile_SRLV(m, d, a, b), SRLV(s, d, a, b))
    BY <1>5 DEF OfPair
  <2>4. d \in Guest /\ a \in Guest /\ b \in Guest
    BY NamesInside
  <2> QED
    BY <1>2, <2>1, <2>2, <2>3, <2>4
<1>6. CASE OfPair(Compile_SRAV, SRAV)
  <2>1. \A d, a, b \in Guest : Ends(m, Compile_SRAV(m, d, a, b), {d})
    BY <1>1, Compile_SLLV_Ends
  <2>2. \A d, a, b : Wrote(s, SRAV(s, d, a, b), d)
    BY <1>1, ShiftWrote
  <2>3. PICK d \in Targets, a, b \in Operands : Step(Compile_SRAV(m, d, a, b), SRAV(s, d, a, b))
    BY <1>6 DEF OfPair
  <2>4. d \in Guest /\ a \in Guest /\ b \in Guest
    BY NamesInside
  <2> QED
    BY <1>2, <2>1, <2>2, <2>3, <2>4
<1>7. CASE OfPair(Compile_DSLLV, DSLLV)
  <2>1. \A d, a, b \in Guest : Ends(m, Compile_DSLLV(m, d, a, b), {d})
    BY <1>1, Compile_DSLLV_Ends
  <2>2. \A d, a, b : Wrote(s, DSLLV(s, d, a, b), d)
    BY <1>1, ShiftWrote
  <2>3. PICK d \in Targets, a, b \in Operands : Step(Compile_DSLLV(m, d, a, b), DSLLV(s, d, a, b))
    BY <1>7 DEF OfPair
  <2>4. d \in Guest /\ a \in Guest /\ b \in Guest
    BY NamesInside
  <2> QED
    BY <1>2, <2>1, <2>2, <2>3, <2>4
<1>8. CASE OfPair(Compile_DSRLV, DSRLV)
  <2>1. \A d, a, b \in Guest : Ends(m, Compile_DSRLV(m, d, a, b), {d})
    BY <1>1, Compile_DSLLV_Ends
  <2>2. \A d, a, b : Wrote(s, DSRLV(s, d, a, b), d)
    BY <1>1, ShiftWrote
  <2>3. PICK d \in Targets, a, b \in Operands : Step(Compile_DSRLV(m, d, a, b), DSRLV(s, d, a, b))
    BY <1>8 DEF OfPair
  <2>4. d \in Guest /\ a \in Guest /\ b \in Guest
    BY NamesInside
  <2> QED
    BY <1>2, <2>1, <2>2, <2>3, <2>4
<1>9. CASE OfPair(Compile_DSRAV, DSRAV)
  <2>1. \A d, a, b \in Guest : Ends(m, Compile_DSRAV(m, d, a, b), {d})
    BY <1>1, Compile_DSLLV_Ends
  <2>2. \A d, a, b : Wrote(s, DSRAV(s, d, a, b), d)
    BY <1>1, ShiftWrote
  <2>3. PICK d \in Targets, a, b \in Operands : Step(Compile_DSRAV(m, d, a, b), DSRAV(s, d, a, b))
    BY <1>9 DEF OfPair
  <2>4. d \in Guest /\ a \in Guest /\ b \in Guest
    BY NamesInside
  <2> QED
    BY <1>2, <2>1, <2>2, <2>3, <2>4
<1> QED
  BY <1>4, <1>5, <1>6, <1>7, <1>8, <1>9 DEF ShiftVariable

LEMMA CombinationOne ==
    ASSUME Kept, ZeroStays, Combination
    PROVE  OneWritten
<1>1. ~m.slip /\ Idle(m) /\ Regs(s)
  BY CompilesIdle DEF ZeroStays, Combination
<1>2. \A n, t : \A r \in Guest : Ends(m, n, {r}) /\ Step(n, t) /\ Wrote(s, t, r) => OneWritten
  BY <1>1, StepWrote
<1>3. \A n, t : \A r \in Guest : Ends(m, n, {}) /\ Step(n, t) /\ Wrote(s, t, r) => OneWritten
  BY <1>1, StepWrote
<1>4. CASE OfPair(Compile_ADD, ADD)
  <2>1. \A d, a, b \in Guest : Ends(m, Compile_ADD(m, d, a, b), {d})
    BY <1>1, Compile_ADD_Ends
  <2>2. \A d, a, b : Wrote(s, ADD(s, d, a, b), d)
    BY <1>1, CombinationWrote
  <2>3. PICK d \in Targets, a, b \in Operands : Step(Compile_ADD(m, d, a, b), ADD(s, d, a, b))
    BY <1>4 DEF OfPair
  <2>4. d \in Guest /\ a \in Guest /\ b \in Guest
    BY NamesInside
  <2> QED
    BY <1>2, <2>1, <2>2, <2>3, <2>4
<1>5. CASE OfPair(Compile_ADDU, ADDU)
  <2>1. \A d, a, b \in Guest : Ends(m, Compile_ADDU(m, d, a, b), {d})
    BY <1>1, Compile_ADD_Ends
  <2>2. \A d, a, b : Wrote(s, ADDU(s, d, a, b), d)
    BY <1>1, CombinationWrote
  <2>3. PICK d \in Targets, a, b \in Operands : Step(Compile_ADDU(m, d, a, b), ADDU(s, d, a, b))
    BY <1>5 DEF OfPair
  <2>4. d \in Guest /\ a \in Guest /\ b \in Guest
    BY NamesInside
  <2> QED
    BY <1>2, <2>1, <2>2, <2>3, <2>4
<1>6. CASE OfPair(Compile_SUB, SUB)
  <2>1. \A d, a, b \in Guest : Ends(m, Compile_SUB(m, d, a, b), {d})
    BY <1>1, Compile_SUB_Ends
  <2>2. \A d, a, b : Wrote(s, SUB(s, d, a, b), d)
    BY <1>1, CombinationWrote
  <2>3. PICK d \in Targets, a, b \in Operands : Step(Compile_SUB(m, d, a, b), SUB(s, d, a, b))
    BY <1>6 DEF OfPair
  <2>4. d \in Guest /\ a \in Guest /\ b \in Guest
    BY NamesInside
  <2> QED
    BY <1>2, <2>1, <2>2, <2>3, <2>4
<1>7. CASE OfPair(Compile_SUBU, SUBU)
  <2>1. \A d, a, b \in Guest : Ends(m, Compile_SUBU(m, d, a, b), {d})
    BY <1>1, Compile_SUB_Ends
  <2>2. \A d, a, b : Wrote(s, SUBU(s, d, a, b), d)
    BY <1>1, CombinationWrote
  <2>3. PICK d \in Targets, a, b \in Operands : Step(Compile_SUBU(m, d, a, b), SUBU(s, d, a, b))
    BY <1>7 DEF OfPair
  <2>4. d \in Guest /\ a \in Guest /\ b \in Guest
    BY NamesInside
  <2> QED
    BY <1>2, <2>1, <2>2, <2>3, <2>4
<1>8. CASE OfPair(Compile_AND, AND)
  <2>1. \A d, a, b \in Guest : Ends(m, Compile_AND(m, d, a, b), {d}) \/ Slipped(Compile_AND(m, d, a, b))
    BY <1>1, Compile_AND_Ends
  <2>2. \A d, a, b : Wrote(s, AND(s, d, a, b), d)
    BY <1>1, CombinationWrote
  <2>3. PICK d \in Targets, a, b \in Operands : Step(Compile_AND(m, d, a, b), AND(s, d, a, b))
    BY <1>8 DEF OfPair
  <2>4. d \in Guest /\ a \in Guest /\ b \in Guest
    BY NamesInside
  <2> QED
    BY <1>1, StepWrote, <2>1, <2>2, <2>3, <2>4
<1>9. CASE OfPair(Compile_OR, OR)
  <2>1. \A d, a, b \in Guest : Ends(m, Compile_OR(m, d, a, b), {d})
    BY <1>1, Compile_OR_Ends
  <2>2. \A d, a, b : Wrote(s, OR(s, d, a, b), d)
    BY <1>1, CombinationWrote
  <2>3. PICK d \in Targets, a, b \in Operands : Step(Compile_OR(m, d, a, b), OR(s, d, a, b))
    BY <1>9 DEF OfPair
  <2>4. d \in Guest /\ a \in Guest /\ b \in Guest
    BY NamesInside
  <2> QED
    BY <1>2, <2>1, <2>2, <2>3, <2>4
<1>10. CASE OfPair(Compile_XOR, XOR)
  <2>1. \A d, a, b \in Guest : Ends(m, Compile_XOR(m, d, a, b), {d})
    BY <1>1, Compile_XOR_Ends
  <2>2. \A d, a, b : Wrote(s, XOR(s, d, a, b), d)
    BY <1>1, CombinationWrote
  <2>3. PICK d \in Targets, a, b \in Operands : Step(Compile_XOR(m, d, a, b), XOR(s, d, a, b))
    BY <1>10 DEF OfPair
  <2>4. d \in Guest /\ a \in Guest /\ b \in Guest
    BY NamesInside
  <2> QED
    BY <1>2, <2>1, <2>2, <2>3, <2>4
<1>11. CASE OfPair(Compile_NOR, NOR)
  <2>1. \A d, a, b \in Guest : Ends(m, Compile_NOR(m, d, a, b), {d})
    BY <1>1, Compile_NOR_Ends
  <2>2. \A d, a, b : Wrote(s, NOR(s, d, a, b), d)
    BY <1>1, CombinationWrote
  <2>3. PICK d \in Targets, a, b \in Operands : Step(Compile_NOR(m, d, a, b), NOR(s, d, a, b))
    BY <1>11 DEF OfPair
  <2>4. d \in Guest /\ a \in Guest /\ b \in Guest
    BY NamesInside
  <2> QED
    BY <1>2, <2>1, <2>2, <2>3, <2>4
<1>12. CASE OfPair(Compile_SLT, SLT)
  <2>1. \A d, a, b \in Guest : Ends(m, Compile_SLT(m, d, a, b), {d})
    BY <1>1, Compile_SLT_Ends
  <2>2. \A d, a, b : Wrote(s, SLT(s, d, a, b), d)
    BY <1>1, CombinationWrote
  <2>3. PICK d \in Targets, a, b \in Operands : Step(Compile_SLT(m, d, a, b), SLT(s, d, a, b))
    BY <1>12 DEF OfPair
  <2>4. d \in Guest /\ a \in Guest /\ b \in Guest
    BY NamesInside
  <2> QED
    BY <1>2, <2>1, <2>2, <2>3, <2>4
<1>13. CASE OfPair(Compile_SLTU, SLTU)
  <2>1. \A d, a, b \in Guest : Ends(m, Compile_SLTU(m, d, a, b), {d})
    BY <1>1, Compile_SLT_Ends
  <2>2. \A d, a, b : Wrote(s, SLTU(s, d, a, b), d)
    BY <1>1, CombinationWrote
  <2>3. PICK d \in Targets, a, b \in Operands : Step(Compile_SLTU(m, d, a, b), SLTU(s, d, a, b))
    BY <1>13 DEF OfPair
  <2>4. d \in Guest /\ a \in Guest /\ b \in Guest
    BY NamesInside
  <2> QED
    BY <1>2, <2>1, <2>2, <2>3, <2>4
<1>14. CASE OfPair(Compile_DADD, DADD)
  <2>1. \A d, a, b \in Guest : Ends(m, Compile_DADD(m, d, a, b), {d})
    BY <1>1, Compile_DADD_Ends
  <2>2. \A d, a, b : Wrote(s, DADD(s, d, a, b), d)
    BY <1>1, CombinationWrote
  <2>3. PICK d \in Targets, a, b \in Operands : Step(Compile_DADD(m, d, a, b), DADD(s, d, a, b))
    BY <1>14 DEF OfPair
  <2>4. d \in Guest /\ a \in Guest /\ b \in Guest
    BY NamesInside
  <2> QED
    BY <1>2, <2>1, <2>2, <2>3, <2>4
<1>15. CASE OfPair(Compile_DADDU, DADDU)
  <2>1. \A d, a, b \in Guest : Ends(m, Compile_DADDU(m, d, a, b), {d})
    BY <1>1, Compile_DADD_Ends
  <2>2. \A d, a, b : Wrote(s, DADDU(s, d, a, b), d)
    BY <1>1, CombinationWrote
  <2>3. PICK d \in Targets, a, b \in Operands : Step(Compile_DADDU(m, d, a, b), DADDU(s, d, a, b))
    BY <1>15 DEF OfPair
  <2>4. d \in Guest /\ a \in Guest /\ b \in Guest
    BY NamesInside
  <2> QED
    BY <1>2, <2>1, <2>2, <2>3, <2>4
<1>16. CASE OfPair(Compile_DSUB, DSUB)
  <2>1. \A d, a, b \in Guest : Ends(m, Compile_DSUB(m, d, a, b), {d})
    BY <1>1, Compile_DSUB_Ends
  <2>2. \A d, a, b : Wrote(s, DSUB(s, d, a, b), d)
    BY <1>1, CombinationWrote
  <2>3. PICK d \in Targets, a, b \in Operands : Step(Compile_DSUB(m, d, a, b), DSUB(s, d, a, b))
    BY <1>16 DEF OfPair
  <2>4. d \in Guest /\ a \in Guest /\ b \in Guest
    BY NamesInside
  <2> QED
    BY <1>2, <2>1, <2>2, <2>3, <2>4
<1>17. CASE OfPair(Compile_DSUBU, DSUBU)
  <2>1. \A d, a, b \in Guest : Ends(m, Compile_DSUBU(m, d, a, b), {d})
    BY <1>1, Compile_DSUB_Ends
  <2>2. \A d, a, b : Wrote(s, DSUBU(s, d, a, b), d)
    BY <1>1, CombinationWrote
  <2>3. PICK d \in Targets, a, b \in Operands : Step(Compile_DSUBU(m, d, a, b), DSUBU(s, d, a, b))
    BY <1>17 DEF OfPair
  <2>4. d \in Guest /\ a \in Guest /\ b \in Guest
    BY NamesInside
  <2> QED
    BY <1>2, <2>1, <2>2, <2>3, <2>4
<1> QED
  BY <1>4, <1>5, <1>6, <1>7, <1>8, <1>9, <1>10, <1>11, <1>12, <1>13, <1>14, <1>15, <1>16, <1>17 DEF Combination

LEMMA MultiplicationOne ==
    ASSUME Kept, ZeroStays, Multiplication
    PROVE  OneWritten
<1>1. ~m.slip /\ Idle(m) /\ Regs(s)
  BY CompilesIdle DEF ZeroStays, Multiplication
<1>2. \A n, t : \A r \in Guest : Ends(m, n, {r}) /\ Step(n, t) /\ Wrote(s, t, r) => OneWritten
  BY <1>1, StepWrote
<1>3. \A n, t : \A r \in Guest : Ends(m, n, {}) /\ Step(n, t) /\ Wrote(s, t, r) => OneWritten
  BY <1>1, StepWrote
<1>4. CASE OfFactors(Compile_MULT, MULT)
  BY <1>1, <1>2, <1>3, <1>4, NamesInside, Compile_MULT_Ends, FactorsWrote DEF OfFactors
<1>5. CASE OfFactors(Compile_MULTU, MULTU)
  BY <1>1, <1>2, <1>3, <1>5, NamesInside, Compile_MULT_Ends, FactorsWrote DEF OfFactors
<1>6. CASE OfFactors(Compile_DMULT, DMULT)
  BY <1>1, <1>2, <1>3, <1>6, NamesInside, Compile_DDIV_Ends, FactorsWrote DEF OfFactors
<1>7. CASE OfFactors(Compile_DMULTU, DMULTU)
  BY <1>1, <1>2, <1>3, <1>7, NamesInside, Compile_DMULTU_Ends, FactorsWrote DEF OfFactors
<1> QED
  BY <1>4, <1>5, <1>6, <1>7 DEF Multiplication

LEMMA DivisionOne ==
    ASSUME Kept, ZeroStays, Division
    PROVE  OneWritten
<1>1. ~m.slip /\ Idle(m) /\ Regs(s)
  BY CompilesIdle DEF ZeroStays, Division
<1>2. \A n, t : \A r \in Guest : Ends(m, n, {r}) /\ Step(n, t) /\ Wrote(s, t, r) => OneWritten
  BY <1>1, StepWrote
<1>3. \A n, t : \A r \in Guest : Ends(m, n, {}) /\ Step(n, t) /\ Wrote(s, t, r) => OneWritten
  BY <1>1, StepWrote
<1>4. CASE OfFactors(Compile_DDIV, DDIV)
  BY <1>1, <1>2, <1>3, <1>4, NamesInside, Compile_DDIV_Ends, FactorsWrote DEF OfFactors
<1>5. CASE OfFactors(Compile_DDIVU, DDIVU)
  BY <1>1, <1>2, <1>3, <1>5, NamesInside, Compile_DDIV_Ends, FactorsWrote DEF OfFactors
<1>6. CASE \E rs, rt \in Operands : /\ ~DividesBadly(s, rs, rt)
                                  /\ \/ Step(Compile_DIV(m, rs, rt), DIV(s, rs, rt))
                                     \/ Step(Compile_DIVU(m, rs, rt), DIVU(s, rs, rt))
  BY <1>1, <1>2, <1>3, <1>6, NamesInside, Compile_DIV_Ends, FactorsWrote
<1> QED
  BY <1>4, <1>5, <1>6 DEF Division

LEMMA MoveHiLoOne ==
    ASSUME Kept, ZeroStays, MoveHiLo
    PROVE  OneWritten
<1>1. ~m.slip /\ Idle(m) /\ Regs(s)
  BY CompilesIdle DEF ZeroStays, MoveHiLo
<1>2. \A n, t : \A r \in Guest : Ends(m, n, {r}) /\ Step(n, t) /\ Wrote(s, t, r) => OneWritten
  BY <1>1, StepWrote
<1>3. \A n, t : \A r \in Guest : Ends(m, n, {}) /\ Step(n, t) /\ Wrote(s, t, r) => OneWritten
  BY <1>1, StepWrote
<1>4. CASE \E r \in Targets : \/ Step(Compile_MFHI(m, r), MFHI(s, r))
                             \/ Step(Compile_MFLO(m, r), MFLO(s, r))
  BY <1>1, <1>2, <1>3, <1>4, NamesInside, Compile_MFLO_Ends, HiLoWrote
<1>5. CASE \E r \in Targets : \/ Step(Compile_MTHI(m, r), MTHI(s, r))
                             \/ Step(Compile_MTLO(m, r), MTLO(s, r))
  BY <1>1, <1>2, <1>3, <1>5, NamesInside, Compile_MTLO_Ends, HiLoWrote
<1> QED
  BY <1>4, <1>5 DEF MoveHiLo

LEMMA LoadOne ==
    ASSUME Kept, ZeroStays, Load
    PROVE  OneWritten
<1>1. ~m.slip /\ Idle(m) /\ Regs(s)
  BY CompilesIdle DEF ZeroStays, Load
<1>2. \A n, t : \A r \in Guest : Ends(m, n, {r}) /\ Step(n, t) /\ Wrote(s, t, r) => OneWritten
  BY <1>1, StepWrote
<1>3. \A n, t : \A r \in Guest : Ends(m, n, {}) /\ Step(n, t) /\ Wrote(s, t, r) => OneWritten
  BY <1>1, StepWrote
<1>4. CASE OfMemory(1, Compile_LB, LB)
  BY <1>1, <1>2, <1>3, <1>4, NamesInside, Compile_LB_Ends, MemoryWrote DEF OfMemory
<1>5. CASE OfMemory(1, Compile_LBU, LBU)
  BY <1>1, <1>2, <1>3, <1>5, NamesInside, Compile_LB_Ends, MemoryWrote DEF OfMemory
<1>6. CASE OfMemory(2, Compile_LH, LH)
  BY <1>1, <1>2, <1>3, <1>6, NamesInside, Compile_LB_Ends, MemoryWrote DEF OfMemory
<1>7. CASE OfMemory(2, Compile_LHU, LHU)
  BY <1>1, <1>2, <1>3, <1>7, NamesInside, Compile_LB_Ends, MemoryWrote DEF OfMemory
<1>8. CASE OfMemory(4, Compile_LW, LW)
  BY <1>1, <1>2, <1>3, <1>8, NamesInside, Compile_LW_Ends, MemoryWrote DEF OfMemory
<1>9. CASE OfMemory(4, Compile_LWU, LWU)
  BY <1>1, <1>2, <1>3, <1>9, NamesInside, Compile_LB_Ends, MemoryWrote DEF OfMemory
<1>10. CASE OfMemory(4, Compile_LL, LL)
  BY <1>1, <1>2, <1>3, <1>10, NamesInside, Compile_LL_Ends, MemoryWrote DEF OfMemory
<1>11. CASE OfMemory(8, Compile_LD, LD)
  <2>1. \A d, a \in Guest : \A b : Ends(m, Compile_LD(m, d, a, b), {d})
    BY <1>1, Compile_LD_Ends
  <2>2. \A d, a, b : Wrote(s, LD(s, d, a, b), d)
    BY <1>1, MemoryWrote
  <2>3. PICK d \in Targets, a \in Operands, b \in Immediate : Step(Compile_LD(m, d, a, b), LD(s, d, a, b))
    BY <1>11 DEF OfMemory
  <2>4. d \in Guest /\ a \in Guest
    BY NamesInside
  <2> QED
    BY <1>2, <2>1, <2>2, <2>3, <2>4
<1>12. CASE OfMemory(1, Compile_LWL, LWL)
  BY <1>1, <1>2, <1>3, <1>12, NamesInside, Compile_LWL_Ends, MemoryWrote DEF OfMemory
<1>13. CASE OfMemory(1, Compile_LWR, LWR)
  BY <1>1, <1>2, <1>3, <1>13, NamesInside, Compile_LWL_Ends, MemoryWrote DEF OfMemory
<1>14. CASE OfMemory(1, Compile_LDL, LDL)
  BY <1>1, <1>2, <1>3, <1>14, NamesInside, Compile_LDL_Ends, MemoryWrote DEF OfMemory
<1>15. CASE OfMemory(1, Compile_LDR, LDR)
  BY <1>1, <1>2, <1>3, <1>15, NamesInside, Compile_LDL_Ends, MemoryWrote DEF OfMemory
<1> QED
  BY <1>4, <1>5, <1>6, <1>7, <1>8, <1>9, <1>10, <1>11, <1>12, <1>13, <1>14, <1>15 DEF Load

LEMMA StoreOne ==
    ASSUME Kept, ZeroStays, Store
    PROVE  OneWritten
<1>1. ~m.slip /\ Idle(m) /\ Regs(s)
  BY CompilesIdle DEF ZeroStays, Store
<1>2. \A n, t : \A r \in Guest : Ends(m, n, {r}) /\ Step(n, t) /\ Wrote(s, t, r) => OneWritten
  BY <1>1, StepWrote
<1>3. \A n, t : \A r \in Guest : Ends(m, n, {}) /\ Step(n, t) /\ Wrote(s, t, r) => OneWritten
  BY <1>1, StepWrote
<1>4. CASE OfMemory(1, Compile_SB, SB)
  BY <1>1, <1>2, <1>3, <1>4, NamesInside, Compile_SB_Ends, MemoryWrote DEF OfMemory
<1>5. CASE OfMemory(2, Compile_SH, SH)
  BY <1>1, <1>2, <1>3, <1>5, NamesInside, Compile_SB_Ends, MemoryWrote DEF OfMemory
<1>6. CASE OfMemory(4, Compile_SW, SW)
  BY <1>1, <1>2, <1>3, <1>6, NamesInside, Compile_SB_Ends, MemoryWrote DEF OfMemory
<1>7. CASE OfMemory(4, Compile_SC, SC)
  BY <1>1, <1>2, <1>3, <1>7, NamesInside, Compile_SC_Ends, MemoryWrote DEF OfMemory
<1>8. CASE OfMemory(8, Compile_SD, SD)
  BY <1>1, <1>2, <1>3, <1>8, NamesInside, Compile_SD_Ends, MemoryWrote DEF OfMemory
<1>9. CASE OfMemory(1, Compile_SWL, SWL)
  BY <1>1, <1>2, <1>3, <1>9, NamesInside, Compile_SWL_Ends, MemoryWrote DEF OfMemory
<1>10. CASE OfMemory(1, Compile_SWR, SWR)
  BY <1>1, <1>2, <1>3, <1>10, NamesInside, Compile_SWL_Ends, MemoryWrote DEF OfMemory
<1>11. CASE OfMemory(1, Compile_SDL, SDL)
  BY <1>1, <1>2, <1>3, <1>11, NamesInside, Compile_LDL_Ends, MemoryWrote DEF OfMemory
<1>12. CASE OfMemory(1, Compile_SDR, SDR)
  BY <1>1, <1>2, <1>3, <1>12, NamesInside, Compile_LDL_Ends, MemoryWrote DEF OfMemory
<1> QED
  BY <1>4, <1>5, <1>6, <1>7, <1>8, <1>9, <1>10, <1>11, <1>12 DEF Store

(* However an instruction's operands are known and wherever its x86        *)
(* registers come from - moved, evicted to memory, widened, loaded again - *)
(* it leaves every guest register but its destination holding what it held *)
(* and the interpreter changes no other one: the two can part on no        *)
(* register that the instruction does not name.                            *)
THEOREM OnlyTheDestination ==
    Spec => [][WithImmediate \/ Shift \/ ShiftVariable \/ Combination \/ Multiplication \/ Division
                 \/ MoveHiLo \/ Load \/ Store => OneWritten]_vars
<1> DEFINE Straight == WithImmediate \/ Shift \/ ShiftVariable \/ Combination \/ Multiplication \/ Division
                         \/ MoveHiLo \/ Load \/ Store
<1>1. Kept /\ ZeroStays /\ [Next]_vars => [Straight => OneWritten]_vars
  BY WithImmediateOne, ShiftOne, ShiftVariableOne, CombinationOne, MultiplicationOne, DivisionOne, MoveHiLoOne,
     LoadOne, StoreOne
<1> QED
  BY <1>1, AlwaysKept, AlwaysHeld, PTL DEF Spec
=============================================================================
