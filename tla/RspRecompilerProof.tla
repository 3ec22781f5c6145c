------------------------- MODULE RspRecompilerProof -------------------------
(***************************************************************************)
(* The recompiler of the signal processor, for every program, every size   *)
(* of its tables and either processor: what IInv says of the orders that    *)
(* the bubble sort leads to, of the code of each block and of the targets   *)
(* still to be linked is kept by every step, and the properties of          *)
(* RspRecompiler that speak of the compiled code follow from it.            *)
(***************************************************************************)
EXTENDS RspRecompiler, Recursion

-----------------------------------------------------------------------------
(* Two neighbours that CompareInstructions lets the recompiler exchange    *)
(* have nothing in common, but for what Overlooked names, and a slot that  *)
(* DelaySlotAffectBranch lets run before the comparison leaves what is     *)
(* compared alone, whatever the registers of the instructions are.         *)

(* Resources of different kinds, and of different numbers, are different. *)
LEMMA Distinct ==
    /\ \A a, b : GPR(a) = GPR(b) => a = b
    /\ \A a, b : Vect(a) = Vect(b) => a = b
    /\ \A a, b : GPR(a) # Vect(b)
    /\ \A a : GPR(a) \notin {DMEM, SP} /\ Vect(a) \notin {DMEM, SP}
    /\ DMEM # SP
BY DEF GPR, Vect, DMEM, SP

(* What the vector unit works upon beside the vector registers. *)
Inner == Accum \cup {Recp, SQroot, Flags(0), Flags(1), Flags(2)}

LEMMA InnerApart ==
    /\ \A a : GPR(a) \notin Inner /\ Vect(a) \notin Inner
    /\ DMEM \notin Inner /\ SP \notin Inner
BY DEF Inner, Accum, Low, High, Recp, SQroot, Flags, GPR, Vect, DMEM, SP

IsResource(r) ==
    \/ r \in Inner \cup {DMEM}
    \/ \E a : r = GPR(a)
    \/ \E v : r = Vect(v)

(* The groups of opcodes that EffectOf and GetInstructionInfo tell apart do *)
(* not overlap.                                                            *)
LEMMA Groups ==
    ASSUME NEW op
    PROVE  /\ op \in Scalar => op \notin Branches \cup Compute \cup Memory
           /\ op \in Compute => op \notin Branches \cup Memory
           /\ op \in Memory => op \notin Branches
<1> USE DEF Shifts, Arithmetic, Immediates, Loads, Stores, Equals, Signs, RegImm, Jumps,
        RegisterJumps, VectorLoads, VectorStores, Products, Sums, Carrying, CarryOut, Logic,
        Compares, Clips, Reciprocals, LowWriters
<1>1. op \in Scalar => op \notin Branches BY DEF Scalar, Branches
<1>2. op \in Scalar => op \notin Compute BY DEF Scalar, Compute
<1>3. op \in Scalar => op \notin Memory BY DEF Scalar, Memory
<1>4. op \in Compute => op \notin Branches BY DEF Compute, Branches
<1>5. op \in Compute => op \notin Memory BY DEF Compute, Memory
<1>6. op \in Memory => op \notin Branches BY DEF Memory, Branches
<1> QED BY <1>1, <1>2, <1>3, <1>4, <1>5, <1>6

LEMMA GroupEffect ==
    ASSUME NEW i
    PROVE  /\ i.op \in Scalar => EffectOf(i) = ScalarEffect(i)
           /\ i.op \in Compute => EffectOf(i) = VectorEffect(i)
           /\ i.op \in Memory => EffectOf(i) = MemoryEffect(i)
           /\ i.op \in Branches => EffectOf(i) = OfBranch(i)
BY Groups DEF EffectOf

-----------------------------------------------------------------------------
(* What an instruction of the vector unit reads and writes lies within the *)
(* registers that GetInstructionInfo names, and the inside of the unit.    *)
LEMMA ComputeEffect ==
    ASSUME NEW i, i.op \in Compute
    PROVE  /\ Reads(i) \subseteq Sources(i) \cup Inner
           /\ Writes(i) \subseteq {Vect(i.sa)} \cup Inner
           /\ i.op = "VSAW" => Reads(i) \subseteq Inner
           /\ i.op = "VNOOP" => Reads(i) = {} /\ Writes(i) = {}
<1> USE DEF Reads, Writes, Covers, Effect, Inner, Sources
<1>1. EffectOf(i) = VectorEffect(i)
  BY GroupEffect
<1>2. CASE i.op \in Products
  <2>1. VectorEffect(i) = OfProduct(i)
    BY <1>2 DEF VectorEffect, Products, Sums, Carrying, CarryOut, Compares, Clips, Logic
  <2> QED BY <1>1, <1>2, <2>1 DEF OfProduct, Products
<1>3. CASE i.op \in Sums
  <2>1. VectorEffect(i) = OfSum(i)
    BY <1>3 DEF VectorEffect, Products, Sums, Carrying, CarryOut, Compares, Clips, Logic
  <2> QED BY <1>1, <1>3, <2>1 DEF OfSum, Sums
<1>4. CASE i.op \in Carrying
  <2>1. VectorEffect(i) = OfCarrying(i)
    BY <1>4 DEF VectorEffect, Products, Sums, Carrying, CarryOut, Compares, Clips, Logic
  <2> QED BY <1>1, <1>4, <2>1 DEF OfCarrying, Carrying, Accum
<1>5. CASE i.op = "VABS"
  <2>1. VectorEffect(i) = OfVABS(i)
    BY <1>5 DEF VectorEffect, Products, Sums, Carrying, CarryOut, Compares, Clips, Logic
  <2> QED BY <1>1, <1>5, <2>1 DEF OfVABS, Accum
<1>6. CASE i.op \in CarryOut
  <2>1. VectorEffect(i) = OfCarryOut(i)
    BY <1>6 DEF VectorEffect, Products, Sums, Carrying, CarryOut, Compares, Clips, Logic
  <2> QED BY <1>1, <1>6, <2>1 DEF OfCarryOut, CarryOut, Accum
<1>7. CASE i.op = "VSAW"
  <2>1. VectorEffect(i) = OfVSAW(i)
    BY <1>7 DEF VectorEffect, Products, Sums, Carrying, CarryOut, Compares, Clips, Logic
  <2> QED BY <1>1, <1>7, <2>1 DEF OfVSAW
<1>8. CASE i.op \in Compares
  <2>1. VectorEffect(i) = OfCompare(i)
    BY <1>8 DEF VectorEffect, Products, Sums, Carrying, CarryOut, Compares, Clips, Logic
  <2> QED BY <1>1, <1>8, <2>1 DEF OfCompare, Compares, Accum
<1>9. CASE i.op = "VCL"
  <2>1. VectorEffect(i) = OfVCL(i)
    BY <1>9 DEF VectorEffect, Products, Sums, Carrying, CarryOut, Compares, Clips, Logic
  <2> QED BY <1>1, <1>9, <2>1 DEF OfVCL, Accum
<1>10. CASE i.op \in Clips \ {"VCL"}
  <2>1. VectorEffect(i) = OfClip(i)
    BY <1>10 DEF VectorEffect, Products, Sums, Carrying, CarryOut, Compares, Clips, Logic
  <2> QED BY <1>1, <1>10, <2>1 DEF OfClip, Clips, Accum
<1>11. CASE i.op \in Logic
  <2>1. VectorEffect(i) = OfLogic(i)
    BY <1>11 DEF VectorEffect, Products, Sums, Carrying, CarryOut, Compares, Clips, Logic
  <2> QED BY <1>1, <1>11, <2>1 DEF OfLogic, Logic, Accum
<1>12. CASE i.op \in {"VRCP", "VRCPL", "VRCPH"}
  <2>1. VectorEffect(i) = OfReciprocal(i)
    BY <1>12 DEF VectorEffect, Products, Sums, Carrying, CarryOut, Compares, Clips, Logic
  <2> QED BY <1>1, <1>12, <2>1 DEF OfReciprocal, Accum
<1>13. CASE i.op \in {"VRSQL", "VRSQH"}
  <2>1. VectorEffect(i) = OfRoot(i)
    BY <1>13 DEF VectorEffect, Products, Sums, Carrying, CarryOut, Compares, Clips, Logic
  <2> QED BY <1>1, <1>13, <2>1 DEF OfRoot, Accum
<1>14. CASE i.op = "VNOOP"
  <2>1. VectorEffect(i) = Effect({}, {}, {})
    BY <1>14 DEF VectorEffect, Products, Sums, Carrying, CarryOut, Compares, Clips, Logic
  <2> QED BY <1>1, <1>14, <2>1
<1> QED
  BY <1>2, <1>3, <1>4, <1>5, <1>6, <1>7, <1>8, <1>9, <1>10, <1>11, <1>12, <1>13, <1>14
     DEF Compute, LowWriters, Clips, Reciprocals

(* Vector loads and stores. *)
LEMMA MemoryEffects ==
    ASSUME NEW i
    PROVE  /\ i.op \in VectorLoads => /\ Reads(i) \subseteq {GPR(i.rs), DMEM}
                                     /\ Writes(i) = {Vect(i.rt)}
           /\ i.op \in VectorStores => /\ Reads(i) \subseteq {GPR(i.rs), Vect(i.rt)}
                                      /\ Writes(i) = {DMEM}
<1> USE DEF Reads, Writes, Covers, Effect
<1>1. ASSUME i.op \in VectorLoads
      PROVE  EffectOf(i) = OfVectorLoad(i)
  BY <1>1, GroupEffect DEF MemoryEffect, Memory, VectorLoads, VectorStores
<1>2. ASSUME i.op \in VectorStores
      PROVE  EffectOf(i) = OfVectorStore(i)
  BY <1>2, GroupEffect DEF MemoryEffect, Memory, VectorLoads, VectorStores
<1> QED BY <1>1, <1>2 DEF OfVectorLoad, OfVectorStore

(* Scalar instructions, but those that work upon what is looked for nowhere: *)
(* the register that is noted as their destination is the only one that    *)
(* they write, and none without a memory or processor access meets DMEM.   *)
LEMMA ScalarEffects ==
    ASSUME NEW i, i.op \in Scalar \ {"CF", "CT", "BREAK", "MF", "MT"}
    PROVE  LET x == ScalarInfo(i)
           IN  /\ Kind(x) = {"GPR"} /\ "Invalid" \notin x.flags
               /\ \A a : GPR(a) \in Writes(i) => a = x.DestReg /\ a # 0
               /\ \A v : Vect(v) \notin Reads(i) \cup Writes(i)
               /\ (Reads(i) \cup Writes(i)) \cap Inner = {}
               /\ DMEM \in Reads(i) \cup Writes(i) => InMemory(x)
<1> DEFINE x == ScalarInfo(i)
<1> USE Distinct, InnerApart
        DEF Reads, Writes, Covers, Effect, Info, Kind, InMemory
<1>1. EffectOf(i) = ScalarEffect(i)
  BY GroupEffect
<1>2. CASE i.op \in Shifts
  <2>1. ScalarEffect(i) = OfShift(i) /\ x = Info({"GPR"}, i.rd, i.rt, Nothing)
    BY <1>2 DEF ScalarEffect, ScalarInfo, Shifts, Arithmetic, Immediates, Loads, Stores
  <2> QED BY <1>1, <2>1 DEF OfShift
<1>3. CASE i.op \in Arithmetic
  <2>1. ScalarEffect(i) = OfArithmetic(i) /\ x = Info({"GPR"}, i.rd, i.rs, i.rt)
    BY <1>3 DEF ScalarEffect, ScalarInfo, Shifts, Arithmetic, Immediates, Loads, Stores
  <2> QED BY <1>1, <2>1 DEF OfArithmetic
<1>4. CASE i.op \in Immediates
  <2>1. ScalarEffect(i) = OfImmediate(i) /\ x = Info({"GPR"}, i.rt, i.rs, Nothing)
    BY <1>4 DEF ScalarEffect, ScalarInfo, Shifts, Arithmetic, Immediates, Loads, Stores
  <2> QED BY <1>1, <2>1 DEF OfImmediate
<1>5. CASE i.op = "LUI"
  <2>1. ScalarEffect(i) = OfLUI(i) /\ x = Info({"GPR"}, i.rt, Nothing, Nothing)
    BY <1>5 DEF ScalarEffect, ScalarInfo, Shifts, Arithmetic, Immediates, Loads, Stores
  <2> QED BY <1>1, <2>1 DEF OfLUI
<1>6. CASE i.op \in Loads
  <2>1. ScalarEffect(i) = OfLoad(i) /\ x = Info({"GPR", "Load"}, i.rt, i.rs, Nothing)
    BY <1>6 DEF ScalarEffect, ScalarInfo, Shifts, Arithmetic, Immediates, Loads, Stores
  <2> QED BY <1>1, <2>1 DEF OfLoad
<1>7. CASE i.op \in Stores
  <2>1. ScalarEffect(i) = OfStore(i) /\ x = Info({"GPR", "Store"}, i.rt, i.rs, Nothing)
    BY <1>7 DEF ScalarEffect, ScalarInfo, Shifts, Arithmetic, Immediates, Loads, Stores
  <2> QED BY <1>1, <2>1 DEF OfStore
<1>8. CASE i.op = "MFC0"
  <2>1. ScalarEffect(i) = OfMFC0(i) /\ x = Info({"GPR", "Load"}, i.rt, Nothing, Nothing)
    BY <1>8 DEF ScalarEffect, ScalarInfo, Shifts, Arithmetic, Immediates, Loads, Stores
  <2> QED BY <1>1, <2>1 DEF OfMFC0
<1>9. CASE i.op = "MTC0"
  <2>1. ScalarEffect(i) = OfMTC0(i) /\ x = Info({"GPR", "Store"}, i.rt, Nothing, Nothing)
    BY <1>9 DEF ScalarEffect, ScalarInfo, Shifts, Arithmetic, Immediates, Loads, Stores
  <2> QED BY <1>1, <2>1 DEF OfMTC0
<1> QED
  BY <1>2, <1>3, <1>4, <1>5, <1>6, <1>7, <1>8, <1>9 DEF Scalar

(* The moves between the units, and what of them is looked at. *)
LEMMA MoveEffects ==
    ASSUME NEW i
    PROVE  /\ i.op = "MT" => /\ ScalarInfo(i) = Info({"VEC", "GPR", "Load"}, i.rd, i.rt, Nothing)
                             /\ Reads(i) \subseteq {GPR(i.rt)}
                             /\ Writes(i) = {Vect(i.rd)}
           /\ i.op = "MF" => /\ ScalarInfo(i) = Info({"VEC", "GPR", "Store"}, i.rt, i.rd, Nothing)
                             /\ Reads(i) = {Vect(i.rd)}
                             /\ Writes(i) = {GPR(i.rt)} \ {GPR(0)}
<1> USE Distinct DEF Reads, Writes, Covers, Effect
<1>1. ASSUME i.op \in {"MF", "MT"} PROVE EffectOf(i) = ScalarEffect(i)
  BY <1>1, GroupEffect DEF Scalar
<1>2. CASE i.op = "MT"
  <2>1. ScalarEffect(i) = OfMT(i)
    BY <1>2 DEF ScalarEffect, Shifts, Arithmetic, Immediates, Loads, Stores
  <2>2. ScalarInfo(i) = Info({"VEC", "GPR", "Load"}, i.rd, i.rt, Nothing)
    BY <1>2 DEF ScalarInfo, Shifts, Arithmetic, Immediates, Loads, Stores
  <2> QED BY <1>1, <1>2, <2>1, <2>2 DEF OfMT
<1>3. CASE i.op = "MF"
  <2>1. ScalarEffect(i) = OfMF(i)
    BY <1>3 DEF ScalarEffect, Shifts, Arithmetic, Immediates, Loads, Stores
  <2>2. ScalarInfo(i) = Info({"VEC", "GPR", "Store"}, i.rt, i.rd, Nothing)
    BY <1>3 DEF ScalarInfo, Shifts, Arithmetic, Immediates, Loads, Stores
  <2> QED BY <1>1, <1>3, <2>1, <2>2 DEF OfMF
<1> QED BY <1>2, <1>3

-----------------------------------------------------------------------------
(* Which of its cases GetInstructionInfo takes. *)
LEMMA GroupInfo ==
    ASSUME NEW i, i.op \in Opcodes
    PROVE  /\ i.op \in Scalar => GetInstructionInfo(i) = ScalarInfo(i)
           /\ i.op \notin Scalar \cup Branches => GetInstructionInfo(i) = VectorInfo(i)
           /\ i.op \in Branches => /\ "Invalid" \in GetInstructionInfo(i).flags
                                   /\ Kind(GetInstructionInfo(i)) = {}
<1>1. i.op \in Scalar => GetInstructionInfo(i) = ScalarInfo(i)
  BY Groups DEF GetInstructionInfo, Branches
<1>2. i.op \notin Scalar \cup Branches => GetInstructionInfo(i) = VectorInfo(i)
  BY DEF GetInstructionInfo, Branches, RegisterJumps
<1>3. ASSUME i.op \in Branches
      PROVE  /\ "Invalid" \in GetInstructionInfo(i).flags
             /\ Kind(GetInstructionInfo(i)) = {}
  <2>1. GetInstructionInfo(i) \in
          {Invalid(i.rs, Nothing), Invalid(i.rt, i.rs), Invalid(Nothing, Nothing), Invalid(0, 0)}
    BY <1>3, Groups DEF GetInstructionInfo, Branches, RegisterJumps, RegImm, Signs, Equals, Jumps
  <2> QED BY <2>1 DEF Invalid, Info, Kind
<1> QED BY <1>1, <1>2, <1>3

(* What the vector unit's instructions are noted as. *)
LEMMA VectorInfos ==
    ASSUME NEW i
    PROVE  LET x == VectorInfo(i)
           IN  /\ i.op = "VNOOP" => x = Info({"VEC"}, Nothing, Nothing, Nothing)
               /\ i.op = "VSAW" =>
                    x = Info({"VEC", "Accum", "Accumulate"}, i.sa, Nothing, Nothing)
               /\ i.op \in Compute \ {"VNOOP", "VSAW"} =>
                    /\ ~InMemory(x) /\ Kind(x) = {"VEC"} /\ "Load" \notin x.flags
                    /\ x.DestReg = i.sa /\ x.SourceReg0 = i.rd /\ x.SourceReg1 = i.rt
                    /\ "Invalid" \notin x.flags
               /\ i.op \in VectorLoads => x = Info({"VEC", "Load"}, i.rt, i.rs, Nothing)
               /\ i.op \in VectorStores => x = Info({"VEC", "Store"}, i.rt, i.rs, Nothing)
               /\ i.op \in {"VMOV", "VMRG", "LTV", "STV"} => x = Invalid(0, 0)
<1> USE DEF VectorInfo, Sums, Products, LowWriters, Carrying, CarryOut, Logic, Compares, Clips,
        Reciprocals, VectorLoads, VectorStores
<1>1. i.op = "VNOOP" => VectorInfo(i) = Info({"VEC"}, Nothing, Nothing, Nothing)
  OBVIOUS
<1>2. i.op = "VSAW" =>
        VectorInfo(i) = Info({"VEC", "Accum", "Accumulate"}, i.sa, Nothing, Nothing)
  OBVIOUS
<1>3. ASSUME i.op \in Sums
      PROVE  VectorInfo(i) = Info({"VEC", "Accum", "Accumulate"}, i.sa, i.rd, i.rt)
  BY <1>3
<1>4. ASSUME i.op \in Products \cup LowWriters
      PROVE  VectorInfo(i) = Info({"VEC", "Accum"}, i.sa, i.rd, i.rt)
  BY <1>4
<1>5. i.op \in VectorLoads => VectorInfo(i) = Info({"VEC", "Load"}, i.rt, i.rs, Nothing)
  OBVIOUS
<1>6. i.op \in VectorStores => VectorInfo(i) = Info({"VEC", "Store"}, i.rt, i.rs, Nothing)
  OBVIOUS
<1>7. i.op \in {"VMOV", "VMRG", "LTV", "STV"} => VectorInfo(i) = Invalid(0, 0)
  OBVIOUS
<1>8. i.op \in Compute \ {"VNOOP", "VSAW"} => i.op \in Sums \cup Products \cup LowWriters
  BY DEF Compute
<1> HIDE DEF VectorInfo, Sums, Products, LowWriters, Carrying, CarryOut, Logic, Compares, Clips,
        Reciprocals, VectorLoads, VectorStores
<1> QED
  BY <1>1, <1>2, <1>3, <1>4, <1>5, <1>6, <1>7, <1>8 DEF Info, Kind, InMemory

(* A lower instruction that CompareInstructions lets go up is one of the    *)
(* vector unit, or one of its loads and stores.                            *)
LEMMA LowerIsVector ==
    ASSUME NEW j, IsInstruction(j),
           LET y == GetInstructionInfo(j) IN Kind(y) = {"VEC"} /\ "Invalid" \notin y.flags
    PROVE  /\ j.op \in Compute \cup VectorLoads \cup VectorStores
           /\ GetInstructionInfo(j) = VectorInfo(j)
<1>1. j.op \notin Branches
  BY GroupInfo DEF IsInstruction
<1>2. j.op \notin Scalar
  <2>1. ASSUME j.op \in Scalar PROVE FALSE
    <3>1. GetInstructionInfo(j) = ScalarInfo(j)
      BY <2>1, GroupInfo DEF IsInstruction
    <3>2. "GPR" \in ScalarInfo(j).flags
      <4>1. CASE j.op \in {"CF", "CT", "BREAK"}
        BY <4>1 DEF ScalarInfo, Info, Shifts, Arithmetic, Immediates, Loads, Stores
      <4>2. CASE j.op \in {"MF", "MT"}
        BY <4>2, MoveEffects DEF Info
      <4>3. CASE j.op \notin {"CF", "CT", "BREAK", "MF", "MT"}
        BY <2>1, <4>3, ScalarEffects DEF Kind
      <4> QED BY <4>1, <4>2, <4>3
    <3> QED BY <3>1, <3>2 DEF Kind
  <2> QED BY <2>1
<1>3. GetInstructionInfo(j) = VectorInfo(j)
  BY <1>1, <1>2, GroupInfo DEF IsInstruction
<1>4. j.op \notin {"VMOV", "VMRG", "LTV", "STV"}
  BY <1>3, VectorInfos DEF Invalid, Info
<1> QED BY <1>1, <1>2, <1>3, <1>4 DEF IsInstruction, Opcodes, Memory

(* The facts of the lemmas above, for the lower instruction. *)
LEMMA LowerEffects ==
    ASSUME NEW j, IsInstruction(j),
           LET y == GetInstructionInfo(j) IN Kind(y) = {"VEC"} /\ "Invalid" \notin y.flags
    PROVE  LET y == GetInstructionInfo(j)
           IN  /\ j.op # "BREAK"
               /\ SP \notin Reads(j) \cup Writes(j)
               /\ \A a : GPR(a) \notin Writes(j)
               /\ \A a : GPR(a) \in Reads(j) => InMemory(y) /\ a = y.SourceReg0
               /\ DMEM \in Reads(j) \cup Writes(j) => InMemory(y)
               /\ \A v : Vect(v) \in Writes(j) => v = y.DestReg
               /\ \A v : Vect(v) \in Reads(j) =>
                    v \in {y.DestReg, y.SourceReg0, y.SourceReg1}
               /\ InMemory(y) => \A v : Vect(v) \in Reads(j) => v = y.DestReg
               /\ InMemory(y) /\ "Load" \notin y.flags => \A v : Vect(v) \notin Writes(j)
               /\ InMemory(y) => (Reads(j) \cup Writes(j)) \cap Inner = {}
               /\ \A r \in Reads(j) \cup Writes(j) : IsResource(r)
<1> USE DEF IsResource
<1> DEFINE y == GetInstructionInfo(j)
<1>1. /\ j.op \in Compute \cup VectorLoads \cup VectorStores
      /\ y = VectorInfo(j)
  BY LowerIsVector
<1>2. j.op # "BREAK"
  BY <1>1, Groups DEF Scalar, Memory
<1>3. CASE j.op = "VNOOP"
  <2>1. y.flags = {"VEC"}
    BY <1>1, <1>3, VectorInfos DEF Info
  <2> QED BY <1>2, <1>3, <2>1, ComputeEffect, Distinct DEF Compute, InMemory
<1>4. CASE j.op = "VSAW"
  <2>1. /\ Reads(j) \subseteq Inner /\ Writes(j) \subseteq {Vect(j.sa)} \cup Inner
        /\ y.DestReg = j.sa /\ ~InMemory(y)
    BY <1>1, <1>4, ComputeEffect, VectorInfos DEF Compute, Info, InMemory
  <2> QED BY <1>2, <2>1, Distinct, InnerApart
<1>5. CASE j.op \in Compute \ {"VNOOP", "VSAW"}
  <2>1. /\ Reads(j) \subseteq Sources(j) \cup Inner
        /\ Writes(j) \subseteq {Vect(j.sa)} \cup Inner
        /\ y.DestReg = j.sa /\ y.SourceReg0 = j.rd /\ y.SourceReg1 = j.rt
        /\ ~InMemory(y)
    BY <1>1, <1>5, ComputeEffect, VectorInfos
  <2> QED BY <1>2, <2>1, Distinct, InnerApart DEF Sources
<1>6. CASE j.op \in VectorLoads
  <2>1. y = Info({"VEC", "Load"}, j.rt, j.rs, Nothing)
    BY <1>1, <1>6, VectorInfos
  <2> QED BY <1>2, <1>6, <2>1, MemoryEffects, Distinct, InnerApart DEF Info, InMemory
<1>7. CASE j.op \in VectorStores
  <2>1. y = Info({"VEC", "Store"}, j.rt, j.rs, Nothing)
    BY <1>1, <1>7, VectorInfos
  <2> QED BY <1>2, <1>7, <2>1, MemoryEffects, Distinct, InnerApart DEF Info, InMemory
<1> QED BY <1>1, <1>3, <1>4, <1>5, <1>6, <1>7

-----------------------------------------------------------------------------
(* The instruction that is exchanged with the one above it neither changes *)
(* what that one reads or writes nor reads what it writes, whatever their  *)
(* registers are: for every pair that CompareInstructions accepts, but for *)
(* those of Overlooked.  OrderKept has TLC look at whole blocks.           *)
THEOREM ExchangedIndependent ==
    ASSUME NEW i, IsInstruction(i), NEW j, IsInstruction(j),
           CompareInstructions(i, j), ~Overlooked(i, j)
    PROVE  ~Conflict(i, j)
<1> DEFINE x == GetInstructionInfo(i)
           y == GetInstructionInfo(j)
<1>1. Kind(y) = {"VEC"} /\ "Invalid" \notin y.flags /\ "Invalid" \notin x.flags
  BY DEF CompareInstructions
<1>2. /\ j.op # "BREAK"
      /\ SP \notin Reads(j) \cup Writes(j)
      /\ \A a : GPR(a) \notin Writes(j)
      /\ \A a : GPR(a) \in Reads(j) => InMemory(y) /\ a = y.SourceReg0
      /\ DMEM \in Reads(j) \cup Writes(j) => InMemory(y)
      /\ \A v : Vect(v) \in Writes(j) => v = y.DestReg
      /\ \A v : Vect(v) \in Reads(j) => v \in {y.DestReg, y.SourceReg0, y.SourceReg1}
      /\ InMemory(y) => \A v : Vect(v) \in Reads(j) => v = y.DestReg
      /\ InMemory(y) /\ "Load" \notin y.flags => \A v : Vect(v) \notin Writes(j)
      /\ InMemory(y) => (Reads(j) \cup Writes(j)) \cap Inner = {}
      /\ \A r \in Reads(j) \cup Writes(j) : IsResource(r)
  BY <1>1, LowerEffects
<1>3. i.op # "BREAK"
  BY DEF Overlooked
<1>4. i.op \notin Branches
  BY <1>1, GroupInfo DEF IsInstruction
<1>5. SUFFICES (Writes(i) \cap (Reads(j) \cup Writes(j))) \cup (Reads(i) \cap Writes(j)) = {}
  BY <1>2, <1>3 DEF Conflict
<1>6. CASE i.op \in Scalar \ {"MF", "MT"}
  <2>1. /\ Kind(x) = {"GPR"}
        /\ \A a : GPR(a) \in Writes(i) => a = x.DestReg /\ a # 0
        /\ \A v : Vect(v) \notin Reads(i) \cup Writes(i)
        /\ (Reads(i) \cup Writes(i)) \cap Inner = {}
        /\ DMEM \in Reads(i) \cup Writes(i) => InMemory(x)
    BY <1>6, ScalarEffects, GroupInfo DEF Overlooked, IsInstruction
  <2>2. GPRThenVector(x, y)
    BY <2>1 DEF CompareInstructions
  <2> QED BY <1>2, <2>1, <2>2 DEF GPRThenVector, IsResource
<1>7. CASE i.op = "MT"
  <2>1. /\ x = Info({"VEC", "GPR", "Load"}, i.rd, i.rt, Nothing)
        /\ Reads(i) \subseteq {GPR(i.rt)}
        /\ Writes(i) = {Vect(i.rd)}
    BY <1>7, MoveEffects, GroupInfo DEF IsInstruction, Scalar
  <2>2. Cop2ThenVector(x, y)
    BY <2>1 DEF CompareInstructions, Kind, Info
  <2>3. i.rd \notin {y.DestReg, y.SourceReg0, y.SourceReg1}
    BY <2>1, <2>2 DEF Cop2ThenVector, Info
  <2> QED BY <1>2, <2>1, <2>3, Distinct
<1>8. CASE i.op = "MF"
  <2>1. /\ x = Info({"VEC", "GPR", "Store"}, i.rt, i.rd, Nothing)
        /\ Reads(i) = {Vect(i.rd)}
        /\ Writes(i) = {GPR(i.rt)} \ {GPR(0)}
    BY <1>8, MoveEffects, GroupInfo DEF IsInstruction, Scalar
  <2>2. Cop2ThenVector(x, y)
    BY <2>1 DEF CompareInstructions, Kind, Info
  <2>3. i.rd \notin {y.DestReg, y.SourceReg0, y.SourceReg1}
    BY <2>1, <2>2 DEF Cop2ThenVector, Info
  <2>4. GPR(i.rt) \notin Reads(j)
    BY <1>8 DEF Overlooked
  <2> QED BY <1>2, <2>1, <2>3, <2>4, Distinct
<1>9. CASE i.op \notin Scalar
  <2>1. x = VectorInfo(i)
    BY <1>4, <1>9, GroupInfo DEF IsInstruction
  <2>2. i.op \in Compute \cup {"VMOV", "VMRG"} \cup Memory
    BY <1>4, <1>9 DEF IsInstruction, Opcodes
  <2>3. i.op \notin {"VMOV", "VMRG", "LTV", "STV"}
    BY <1>1, <2>1, VectorInfos DEF Invalid, Info
  <2>4. Kind(x) = {"VEC"}
    BY <2>1, <2>2, <2>3, VectorInfos DEF Memory, Info, Kind
  <2>5. /\ SP \notin Reads(i) \cup Writes(i)
        /\ \A a : GPR(a) \notin Writes(i)
        /\ DMEM \in Reads(i) \cup Writes(i) => InMemory(x)
        /\ \A v : Vect(v) \in Writes(i) => v = x.DestReg
        /\ \A v : Vect(v) \in Reads(i) => v \in {x.DestReg, x.SourceReg0, x.SourceReg1}
        /\ InMemory(x) => \A v : Vect(v) \in Reads(i) => v = x.DestReg
        /\ InMemory(x) /\ "Load" \notin x.flags => \A v : Vect(v) \notin Writes(i)
        /\ InMemory(x) => (Reads(i) \cup Writes(i)) \cap Inner = {}
    BY <1>1, <2>4, LowerEffects
  <2>6. VectorThenVector(x, y)
    BY <2>4 DEF CompareInstructions
  <2> QED BY <1>2, <2>5, <2>6 DEF VectorThenVector, IsResource
<1> QED BY <1>6, <1>7, <1>8, <1>9

-----------------------------------------------------------------------------
(* The general register that an instruction writes is the destination that *)
(* is noted of it.                                                         *)
LEMMA WrittenIsNoted ==
    ASSUME NEW i, IsInstruction(i), i.op \notin Branches,
           NEW a, GPR(a) \in Writes(i)
    PROVE  /\ i.op \in Scalar
           /\ Kind(GetInstructionInfo(i)) # {"VEC"}
           /\ GetInstructionInfo(i).DestReg = a
<1> USE Distinct, InnerApart DEF Reads, Writes, Covers, Effect
<1>1. ASSUME i.op \notin Scalar PROVE FALSE
  <2>1. CASE i.op \in Compute
    BY <2>1, ComputeEffect
  <2>2. CASE i.op \in VectorLoads \cup VectorStores
    BY <2>2, MemoryEffects
  <2>3. CASE i.op \in {"LTV", "STV"}
    <3>1. EffectOf(i) \in {OfLTV(i), OfSTV(i)}
      BY <2>3, GroupEffect DEF MemoryEffect, Memory, VectorLoads, VectorStores
    <3> QED BY <3>1 DEF OfLTV, OfSTV, Transposed
  <2>4. CASE i.op \in {"VMOV", "VMRG"}
    <3>1. i.op \notin Scalar \cup Branches \cup Memory
      BY <2>4 DEF Scalar, Branches, Memory, Shifts, Arithmetic, Immediates, Loads, Stores,
           Equals, Signs, RegImm, Jumps, RegisterJumps, VectorLoads, VectorStores
    <3>2. EffectOf(i) = VectorEffect(i)
      BY <3>1 DEF EffectOf
    <3>3. VectorEffect(i) \in {OfVMOV(i), OfVMRG(i)}
      BY <2>4 DEF VectorEffect, Products, Sums, Carrying, CarryOut, Compares, Clips, Logic
    <3> QED BY <3>2, <3>3 DEF OfVMOV, OfVMRG
  <2> QED
    BY <1>1, <2>1, <2>2, <2>3, <2>4 DEF IsInstruction, Opcodes, Memory
<1>2. GetInstructionInfo(i) = ScalarInfo(i) /\ EffectOf(i) = ScalarEffect(i)
  BY <1>1, GroupInfo, GroupEffect DEF IsInstruction
<1>3. CASE i.op = "CF"
  <2>1. ScalarEffect(i) = OfCF(i)
    BY <1>3 DEF ScalarEffect, Shifts, Arithmetic, Immediates, Loads, Stores
  <2>2. ScalarInfo(i) = Info({"GPR", "Load"}, i.rt, Nothing, Nothing)
    BY <1>3 DEF ScalarInfo, Shifts, Arithmetic, Immediates, Loads, Stores
  <2> QED BY <1>1, <1>2, <2>1, <2>2 DEF OfCF, Info, Kind
<1>4. CASE i.op = "CT"
  <2>1. ScalarEffect(i) = OfCT(i)
    BY <1>4 DEF ScalarEffect, Shifts, Arithmetic, Immediates, Loads, Stores
  <2> QED BY <1>2, <2>1 DEF OfCT, FlagOf, Flags, GPR
<1>5. CASE i.op = "BREAK"
  <2>1. ScalarEffect(i) = OfBREAK
    BY <1>5 DEF ScalarEffect, Shifts, Arithmetic, Immediates, Loads, Stores
  <2> QED BY <1>2, <2>1 DEF OfBREAK
<1>6. CASE i.op = "MF"
  BY <1>1, <1>2, <1>6, MoveEffects DEF Info, Kind
<1>7. CASE i.op = "MT"
  BY <1>2, <1>7, MoveEffects
<1>8. CASE i.op \notin {"CF", "CT", "BREAK", "MF", "MT"}
  BY <1>1, <1>2, <1>8, ScalarEffects
<1> QED BY <1>3, <1>4, <1>5, <1>6, <1>7, <1>8

(* A slot that DelaySlotAffectBranch lets run before the comparison writes *)
(* no register that the branch compares, whatever the registers are.       *)
(* SlotNoticed has TLC look at whole blocks.                               *)
THEOREM SlotIndependent ==
    ASSUME NEW Code, NEW PC, IsInstruction(Code[PC]), IsInstruction(Code[PC + 1]),
           Code[PC].op \in Equals \cup Signs \cup RegImm,
           Code[PC + 1].op \notin Branches,
           ~DelaySlotAffectBranch(Code, PC)
    PROVE  Reads(Code[PC]) \cap Writes(Code[PC + 1]) = {}
<1> DEFINE i == Code[PC]
           j == Code[PC + 1]
           x == GetInstructionInfo(i)
<1>1. i.op \in Branches
  BY DEF Branches
<1>2. \A r \in Reads(i) : \E a : r = GPR(a) /\ a \in {x.SourceReg0, x.SourceReg1} /\ a # 0
  <2>1. EffectOf(i) = OfBranch(i)
    BY <1>1, GroupEffect
  <2>2. CASE i.op \in Equals
    <3>1. x = Invalid(i.rt, i.rs)
      BY <2>2 DEF GetInstructionInfo, Equals, Signs, RegImm, Jumps, Scalar, Shifts, Arithmetic,
           Immediates, Loads, Stores
    <3>2. OfBranch(i).reads = {GPR(i.rs), GPR(i.rt)} \ {GPR(0)}
      BY <2>2 DEF OfBranch, Effect, Equals, Jumps
    <3> QED BY <2>1, <3>1, <3>2 DEF Reads, Invalid, Info
  <2>3. CASE i.op \in Signs \cup RegImm
    <3>1. x = Invalid(i.rs, Nothing)
      BY <2>3 DEF GetInstructionInfo, Equals, Signs, RegImm, Jumps, Scalar, Shifts, Arithmetic,
           Immediates, Loads, Stores
    <3>2. OfBranch(i).reads = {GPR(i.rs)} \ {GPR(0)}
      BY <2>3 DEF OfBranch, Effect, Equals, Signs, RegImm, Jumps
    <3> QED BY <2>1, <3>1, <3>2 DEF Reads, Invalid, Info
  <2> QED BY <2>2, <2>3
<1>3. SUFFICES ASSUME NEW a, a \in {x.SourceReg0, x.SourceReg1}, a # 0, GPR(a) \in Writes(j)
               PROVE  FALSE
  BY <1>2
<1>4. /\ Kind(GetInstructionInfo(j)) # {"VEC"}
      /\ GetInstructionInfo(j).DestReg = a
      /\ j.op \in Scalar
  BY <1>3, WrittenIsNoted
<1>5. ~IsOpcodeNop(j)
  <2>1. ASSUME IsOpcodeNop(j) PROVE FALSE
    <3>1. j.op = "SLL" /\ j.rd = 0
      BY <2>1 DEF IsOpcodeNop
    <3>2. EffectOf(j) = OfShift(j)
      BY <1>4, <3>1, GroupEffect DEF ScalarEffect, Shifts, Arithmetic, Immediates, Loads, Stores
    <3>3. Writes(j) = {}
      BY <3>1, <3>2 DEF OfShift, Effect, Writes, Covers
    <3> QED BY <1>3, <3>3
  <2> QED BY <2>1
<1> QED BY <1>3, <1>4, <1>5 DEF DelaySlotAffectBranch

-----------------------------------------------------------------------------
(* The bubble sort.  Where every exchange that it may make leads from an order *)
(* in I to one in I, it keeps the order in I.                              *)

Keeps(I, P, StartPC, EndPC) ==
    \A q \in I : \A a \in StartPC + 1 .. EndPC - 1 :
        CompareInstructions(P[q[a - 1]], P[q[a]]) => Exchanged(q, a) \in I
Passing(I) == [o : I, quiet : BOOLEAN]

LEMMA ComparedKeeps ==
    ASSUME NEW I, NEW P, NEW StartPC \in Nat, NEW EndPC \in Nat, Keeps(I, P, StartPC, EndPC),
           NEW q \in Passing(I), NEW a \in StartPC + 1 .. EndPC - 1
    PROVE  Compared(P, q, a) \in Passing(I)
<1> DEFINE n == IF CompareInstructions(P[q.o[a - 1]], P[q.o[a]]) THEN Exchanged(q.o, a) ELSE q.o
<1>1. q.o \in I
  BY DEF Passing
<1>2. n \in I
  BY <1>1 DEF Keeps
<1>3. Quiet(P, n, a) \in BOOLEAN
  BY DEF Quiet
<1>4. Compared(P, q, a) = IF q.quiet THEN q ELSE [o |-> n, quiet |-> Quiet(P, n, a)]
  BY DEF Compared
<1> HIDE DEF n
<1> QED
  BY <1>2, <1>3, <1>4 DEF Passing

LEMMA PassKeeps ==
    ASSUME NEW I, NEW P, NEW StartPC \in Nat, NEW EndPC \in Nat, Keeps(I, P, StartPC, EndPC),
           StartPC < EndPC, NEW o \in I
    PROVE  Pass(P, o, StartPC, EndPC) \in I
<1> DEFINE V == Passing(I)
           hi == EndPC - 1
           base == [o |-> o, quiet |-> FALSE]
           F == [a \in Nat |-> [q \in V |-> IF a \in StartPC + 1 .. hi THEN Compared(P, q, a) ELSE q]]
           R(g) == [a \in StartPC .. hi |-> IF a = StartPC THEN base ELSE Compared(P, g[a - 1], a)]
           c == CHOOSE g : g = R(g)
<1>1. base \in V /\ hi \in Nat /\ hi >= StartPC
  BY DEF Passing
<1>2. \A q \in V : \A a \in StartPC + 1 .. hi : Compared(P, q, a) \in V
  BY ComparedKeeps
<1> HIDE DEF V, base
<1>3. F \in [Nat -> [V -> V]]
  BY <1>2
<1>4. \A q \in V : \A a \in StartPC + 1 .. hi : F[a][q] = Compared(P, q, a)
  BY <1>1
<1> HIDE DEF F
<1>5. Iterates(base, F, V, StartPC, hi)
  BY <1>1, <1>3, Iteration
<1>6. PICK g \in [StartPC .. hi -> V] :
          \A n \in StartPC .. hi : g[n] = IF n = StartPC THEN base ELSE F[n][g[n - 1]]
  BY <1>5 DEF Iterates
<1>7. \A n \in StartPC .. hi : g[n] = IF n = StartPC THEN base ELSE Compared(P, g[n - 1], n)
  <2> TAKE n \in StartPC .. hi
  <2>1. CASE n = StartPC
    BY <1>6, <2>1
  <2>2. CASE n # StartPC
    <3>1. n \in StartPC + 1 .. hi /\ n - 1 \in StartPC .. hi
      BY <1>1, <2>2
    <3>2. g[n - 1] \in V
      BY <1>6, <3>1
    <3> QED
      BY <1>4, <1>6, <2>2, <3>1, <3>2
  <2> QED
    BY <2>1, <2>2
<1>8. g = R(g)
  BY <1>6, <1>7
<1> HIDE DEF hi
<1>9. c = R(c)
  <2> HIDE DEF R
  <2> QED
    BY <1>8
<1>10. c[StartPC] = base /\ \A n \in StartPC + 1 .. hi : c[n] = Compared(P, c[n - 1], n)
  <2> HIDE DEF c
  <2>1. \A n \in StartPC .. hi : R(c)[n] = IF n = StartPC THEN base ELSE Compared(P, c[n - 1], n)
    OBVIOUS
  <2> HIDE DEF R
  <2> QED
    BY <1>1, <1>9, <2>1
<1>11. Pass(P, o, StartPC, EndPC) = c[hi].o
  BY DEF Pass, hi, base
<1> HIDE DEF c
<1>12. c[StartPC] \in V /\ \A n \in StartPC + 1 .. hi : c[n - 1] \in V => c[n] \in V
  BY <1>1, <1>2, <1>10
<1>13. \A n \in StartPC .. hi : c[n] \in V
  BY <1>1, <1>12, AllValues
<1>14. c[hi] \in V
  BY <1>1, <1>13
<1> QED
  BY <1>11, <1>14 DEF V, Passing

LEMMA PassesKeep ==
    ASSUME NEW I, NEW P, NEW StartPC \in Nat, NEW EndPC \in Nat, Keeps(I, P, StartPC, EndPC),
           StartPC < EndPC, NEW o \in I
    PROVE  Passes(P, o, StartPC, EndPC) \in I
<1> DEFINE hi == EndPC - StartPC
           F == [n \in Nat |-> [q \in I |-> Pass(P, q, StartPC, EndPC)]]
           R(g) == [n \in 0 .. hi |-> IF n = 0 THEN o ELSE Pass(P, g[n - 1], StartPC, EndPC)]
           c == CHOOSE g : g = R(g)
<1>1. hi \in Nat
  OBVIOUS
<1>2. \A q \in I : Pass(P, q, StartPC, EndPC) \in I
  BY PassKeeps
<1>3. F \in [Nat -> [I -> I]]
  BY <1>2
<1>4. \A q \in I : \A n \in Nat : F[n][q] = Pass(P, q, StartPC, EndPC)
  OBVIOUS
<1> HIDE DEF F
<1>5. Iterates(o, F, I, 0, hi)
  BY <1>1, <1>3, Iteration
<1>6. PICK g \in [0 .. hi -> I] :
          \A n \in 0 .. hi : g[n] = IF n = 0 THEN o ELSE F[n][g[n - 1]]
  BY <1>5 DEF Iterates
<1> HIDE DEF hi
<1>7. \A n \in 0 .. hi : g[n] = IF n = 0 THEN o ELSE Pass(P, g[n - 1], StartPC, EndPC)
  <2> TAKE n \in 0 .. hi
  <2>1. CASE n = 0
    BY <1>6, <2>1
  <2>2. CASE n # 0
    <3>1. n \in Nat /\ n - 1 \in 0 .. hi
      BY <1>1, <2>2
    <3>2. g[n - 1] \in I
      BY <1>6, <3>1
    <3> QED
      BY <1>4, <1>6, <2>2, <3>1, <3>2
  <2> QED
    BY <2>1, <2>2
<1>8. g = R(g)
  BY <1>6, <1>7
<1>9. c = R(c)
  <2> HIDE DEF R
  <2> QED
    BY <1>8
<1>10. c[0] = o /\ \A n \in 0 + 1 .. hi : c[n] = Pass(P, c[n - 1], StartPC, EndPC)
  <2> HIDE DEF c
  <2>1. \A n \in 0 .. hi : R(c)[n] = IF n = 0 THEN o ELSE Pass(P, c[n - 1], StartPC, EndPC)
    OBVIOUS
  <2> HIDE DEF R
  <2> QED
    BY <1>1, <1>9, <2>1
<1>11. Passes(P, o, StartPC, EndPC) = c[hi]
  BY DEF Passes, hi
<1> HIDE DEF c
<1>12. c[0] \in I /\ \A n \in 0 + 1 .. hi : c[n - 1] \in I => c[n] \in I
  BY <1>2, <1>10
<1>13. \A n \in 0 .. hi : c[n] \in I
  BY <1>1, <1>12, AllValues
<1> QED
  BY <1>1, <1>11, <1>13

-----------------------------------------------------------------------------
(* A section and what may change places in it.                             *)

SectionEnd(P, CurrPC) ==
    Min({Top} \cup {a \in BranchLabels(P) \cup BranchLocations(P) : a > CurrPC})

LEMMA SectionEndIs ==
    ASSUME NEW P, \A a \in Words : P[a].to \in Words, NEW CurrPC \in Words, CurrPC <= Top - 3
    PROVE  /\ SectionEnd(P, CurrPC) \in Words
           /\ SectionEnd(P, CurrPC) > CurrPC
           /\ \A a \in Words : CurrPC < a /\ a < SectionEnd(P, CurrPC) =>
                  a \notin BranchLabels(P) \cup BranchLocations(P)
<1> DEFINE L == BranchLabels(P) \cup BranchLocations(P)
           S == {Top} \cup {a \in L : a > CurrPC}
<1>1. Top \in Nat
  BY RspAssumption
<1>2. L \subseteq Words
  BY DEF BranchLabels, BranchLocations
<1>3. S \in SUBSET Nat /\ S # {} /\ S \subseteq Words
  BY <1>1, <1>2 DEF Words
<1>4. Min(S) \in S /\ \A x \in S : Min(S) <= x
  <2> HIDE DEF S
  <2>1. PICK m \in S : \A x \in S : m <= x
    BY <1>3, Minimum
  <2> QED
    BY <2>1 DEF Min
<1>5. \A x \in S : x > CurrPC
  BY <1>1 DEF Words
<1>6. SectionEnd(P, CurrPC) = Min(S)
  BY DEF SectionEnd
<1> HIDE DEF L
<1>7. ASSUME NEW a \in Words, CurrPC < a, a < Min(S) PROVE a \notin L
  BY <1>1, <1>3, <1>4, <1>7 DEF Words
<1> HIDE DEF S
<1> QED
  BY <1>3, <1>4, <1>5, <1>6, <1>7 DEF L

(* In a section that begins at CurrPC. *)
Within(P, CurrPC, a) ==
    /\ CurrPC < a /\ a < Top
    /\ \A k \in Words : CurrPC < k /\ k <= a => k \notin BranchLabels(P) \cup BranchLocations(P)

LEMMA ReOrderKeeps ==
    ASSUME NEW I, NEW P, \A a \in Words : P[a].to \in Words, NEW CurrPC \in Words, NEW o \in I,
           IsOpcodeBranch(P[o[CurrPC]]) \/
               \A q \in I : \A a \in Words :
                   Within(P, CurrPC, a) /\ CompareInstructions(P[q[a - 1]], P[q[a]]) =>
                       Exchanged(q, a) \in I
    PROVE  ReOrderSubBlock(P, o, CurrPC) \in I
<1> DEFINE EndPC == SectionEnd(P, CurrPC)
<1>1. Top \in Nat /\ CurrPC \in Nat
  BY RspAssumption DEF Words
<1>2. CASE CurrPC > Top - 3
  BY <1>2 DEF ReOrderSubBlock
<1>3. CASE ~(CurrPC > Top - 3)
  <2>1. ReOrderSubBlock(P, o, CurrPC) = ReOrderInstructions(P, o, CurrPC, EndPC)
    BY <1>3 DEF ReOrderSubBlock, SectionEnd
  <2>2. /\ EndPC \in Words /\ EndPC > CurrPC
        /\ \A a \in Words : CurrPC < a /\ a < EndPC =>
               a \notin BranchLabels(P) \cup BranchLocations(P)
    BY <1>1, <1>3, SectionEndIs
  <2> HIDE DEF EndPC
  <2>3. CASE IsOpcodeBranch(P[o[CurrPC]])
    BY <2>1, <2>3 DEF ReOrderInstructions
  <2>4. CASE ~IsOpcodeBranch(P[o[CurrPC]])
    <3>1. \A a \in CurrPC + 1 .. EndPC - 1 : a \in Words /\ Within(P, CurrPC, a)
      BY <1>1, <2>2 DEF Within, Words
    <3>2. Keeps(I, P, CurrPC, EndPC)
      BY <2>4, <3>1 DEF Keeps
    <3>3. EndPC \in Nat /\ CurrPC < EndPC
      BY <1>1, <2>2 DEF Words
    <3>4. Passes(P, o, CurrPC, EndPC) \in I
      BY <1>1, <3>2, <3>3, PassesKeep
    <3> QED
      BY <2>1, <3>4 DEF ReOrderInstructions
  <2> QED
    BY <2>3, <2>4
<1> QED
  BY <1>2, <1>3

-----------------------------------------------------------------------------
Branch(a) == IsOpcodeBranch(program[a])

(* The instruction memory holds a program. *)
ProgramInv ==
    /\ program \in [Words -> {program[a] : a \in Words}]
    /\ \A a \in Words : IsInstruction(program[a]) /\ program[a].to \in Words
    /\ \A a \in Words : Branch(a) => a < Top /\ ~Branch(a + 1)

(* An order that exchanges lead to: every word is there once, the branches *)
(* are where they were, and what has changed places was compared.          *)
Ordered(P, o) ==
    /\ o \in [Words -> Words]
    /\ \A a, b \in Words : o[a] = o[b] => a = b
    /\ \A a \in Words : IsOpcodeBranch(P[a]) \/ IsOpcodeBranch(P[o[a]]) => o[a] = a
    /\ \A a, b \in Words : a < b /\ o[a] > o[b] => CompareInstructions(P[o[b]], P[o[a]])

Between(k, a, b) == (a <= k /\ k < b) \/ (b <= k /\ k < a)

(* Neither a label nor a branch lies between k and the word after it. *)
Joined(P, k) ==
    k + 1 \notin BranchLabels(P) /\ ~IsOpcodeBranch(P[k]) /\ ~IsOpcodeBranch(P[k + 1])

Stretched(P, o) == \A a, k \in Words : Between(k, a, o[a]) => Joined(P, k)

(* A slot that o moves is not behind its branch in the code that is made.  *)
SlotsStay(o, PC, made) ==
    \A a, k \in Words : Between(k, a, o[a]) /\ k > 0 /\ Branch(k - 1) =>
        k - 1 < PC /\ k - 1 \notin made

(* What CompilerRSPBlock has of the order in which it compiles, at PC with *)
(* "made" behind it.                                                       *)
InOrder(o, PC, made) ==
    /\ Ordered(program, o)
    /\ Stretched(program, o)
    /\ ~Truncated => SlotsStay(o, PC, made)

BlocksInv == blocks \in Seq({blocks[b] : b \in Compilation})
Code(b) == DOMAIN blocks[b]

(* A slot that the branch before it leaves behind the comparison is harmless. *)
SlotHarmless(c, slot) ==
    program[c.at].op \in Equals \cup Signs \cup RegImm /\ ~c.saves =>
        Reads(program[c.at]) \cap Writes(program[slot.at]) = {}

BlockInv(b) ==
    /\ \A a \in Code(b) : a \in Words /\ Was(b, a) \in Words
    /\ \A a \in Code(b) : Branch(a) \/ Branch(Was(b, a)) => Was(b, a) = a /\ a + 1 \in Code(b)
    /\ \A above, below \in Code(b) : above < below /\ Was(b, above) > Was(b, below) =>
           CompareInstructions(program[Was(b, below)], program[Was(b, above)])
    /\ \A a \in Code(b) : SlotHarmless(blocks[b][a], blocks[b][a + 1])
    /\ \A a \in Code(b), k \in Words : Between(k, a, Was(b, a)) =>
           /\ Joined(program, k)
           /\ ~Truncated /\ k > 0 /\ Branch(k - 1) => k - 1 \notin Code(b)

(* What the block that compiles has to do with the order of the moment. *)
CompileInv ==
    phase = "compile" =>
        /\ Len(blocks) > 0
        /\ InOrder(IMEM, RSPCompilePC, Code(This))
        /\ \A a \in Code(This) : a < RSPCompilePC /\ Was(This, a) = IMEM[a]
        /\ RSPCompilePC - 1 \in Code(This) => ~Branch(RSPCompilePC - 1)

(* A target that no code has been made for yet is still to be resolved. *)
Awaited(s, PC) == \E n \in 1..Len(s) : \E k \in 1..Len(s[n]) : s[n][k] = PC
Pending(PC) == Awaited(BranchesToResolve, PC)
Resolved(b) ==
    \A a \in Code(b) :
        LET c == blocks[b][a]
        IN  Labelled(program, c.at) /\ ~Never(Instr(c)) /\ ~c.lost =>
                RSPJumpTable[Instr(c).to] # 0 \/ Pending(Instr(c).to)
LinkInv ==
    /\ phase \in {"stopped", "run", "halted", "astray"} => BranchesToResolve = <<>>
    /\ phase \in {"compile", "link"} => BranchesToResolve # <<>>
    /\ \A b \in Compilation : Resolved(b)

(* The table leads to code, or to what is compiled next. *)
TableInv ==
    \A a \in Words : RSPJumpTable[a] # 0 =>
        \/ a \in Code(RSPJumpTable[a])
        \/ phase \in {"compile", "hung"} /\ RSPJumpTable[a] = Len(blocks) /\ a = RSPCompilePC

RunInv == phase = "run" => block \in Compilation /\ PrgCount \in Code(block)

(* Who is noted as the last to write a register does write it.              *)
Writers(writer) ==
    /\ writer \in [NamedGPRs -> Words \cup {None}]
    /\ \A g \in NamedGPRs :
           writer[g] # None => GPR(g) \in Covers(program[writer[g]])
WriterInv == Writers(regs.writer)

IInv ==
    /\ TypeOK /\ BlocksInv /\ ProgramInv /\ CompileInv /\ LinkInv /\ TableInv /\ RunInv /\ WriterInv
    /\ \A b \in Compilation : BlockInv(b)

-----------------------------------------------------------------------------
(* What an exchange does to an order.                                      *)

LEMMA NotBranches ==
    ASSUME NEW i, IsInstruction(i), NEW j, IsInstruction(j), CompareInstructions(i, j)
    PROVE  ~IsOpcodeBranch(i) /\ ~IsOpcodeBranch(j)
<1>1. i.op \in Opcodes /\ j.op \in Opcodes
  BY DEF IsInstruction
<1>2. "Invalid" \notin GetInstructionInfo(i).flags /\ "Invalid" \notin GetInstructionInfo(j).flags
  BY DEF CompareInstructions
<1> QED
  BY <1>1, <1>2, GroupInfo DEF IsOpcodeBranch

LEMMA ExchangedAt ==
    ASSUME NEW q \in [Words -> Words], NEW a \in Words, a > 0
    PROVE  /\ a - 1 \in Words
           /\ Exchanged(q, a) \in [Words -> Words]
           /\ Exchanged(q, a)[a] = q[a - 1] /\ Exchanged(q, a)[a - 1] = q[a]
           /\ \A x \in Words \ {a - 1, a} : Exchanged(q, a)[x] = q[x]
<1>1. a - 1 \in Words /\ a - 1 # a
  BY RspAssumption DEF Words
<1> QED
  BY <1>1 DEF Exchanged

LEMMA ExchangeOrdered ==
    ASSUME NEW P, \A x \in Words : IsInstruction(P[x]), NEW q, Ordered(P, q),
           NEW a \in Words, a > 0, CompareInstructions(P[q[a - 1]], P[q[a]])
    PROVE  Ordered(P, Exchanged(q, a))
<1> DEFINE n == Exchanged(q, a)
<1>1. /\ q \in [Words -> Words]
      /\ \A x, y \in Words : q[x] = q[y] => x = y
      /\ \A x \in Words : IsOpcodeBranch(P[x]) \/ IsOpcodeBranch(P[q[x]]) => q[x] = x
      /\ \A x, y \in Words : x < y /\ q[x] > q[y] => CompareInstructions(P[q[y]], P[q[x]])
  BY DEF Ordered
<1>2. /\ a - 1 \in Words /\ n \in [Words -> Words]
      /\ n[a] = q[a - 1] /\ n[a - 1] = q[a]
      /\ \A x \in Words \ {a - 1, a} : n[x] = q[x]
  BY <1>1, ExchangedAt
<1>3. ~IsOpcodeBranch(P[q[a - 1]]) /\ ~IsOpcodeBranch(P[q[a]])
  BY <1>1, <1>2, NotBranches
<1>4. ~IsOpcodeBranch(P[a - 1]) /\ ~IsOpcodeBranch(P[a])
  BY <1>1, <1>2, <1>3
<1> HIDE DEF n
<1>5. \A x, y \in Words : n[x] = n[y] => x = y
  BY <1>1, <1>2
<1>6. \A x \in Words : IsOpcodeBranch(P[x]) \/ IsOpcodeBranch(P[n[x]]) => n[x] = x
  BY <1>1, <1>2, <1>3, <1>4
<1>7. ASSUME NEW x \in Words, NEW y \in Words, x < y, n[x] > n[y]
      PROVE  CompareInstructions(P[n[y]], P[n[x]])
  <2>0. Words \subseteq Nat
    BY RspAssumption DEF Words
  <2>1. CASE x = a - 1 /\ y = a
    BY <1>2, <2>1
  <2>2. CASE x = a - 1 /\ y # a
    BY <1>1, <1>2, <1>7, <2>0, <2>2
  <2>3. CASE x = a
    BY <1>1, <1>2, <1>7, <2>0, <2>3
  <2>4. CASE x \notin {a - 1, a} /\ y \in {a - 1, a}
    BY <1>1, <1>2, <1>7, <2>0, <2>4
  <2>5. CASE x \notin {a - 1, a} /\ y \notin {a - 1, a}
    BY <1>1, <1>2, <1>7, <2>5
  <2> QED
    BY <2>1, <2>2, <2>3, <2>4, <2>5
<1> QED
  BY <1>2, <1>5, <1>6, <1>7 DEF Ordered, n

(* An exchange moves nothing over a place but that between its two words.  *)
LEMMA ExchangeBetween ==
    ASSUME NEW q \in [Words -> Words], NEW a \in Words, a > 0,
           NEW x \in Words, NEW k \in Words, Between(k, x, Exchanged(q, a)[x])
    PROVE  k = a - 1 \/ \E y \in Words : Between(k, y, q[y])
<1>1. /\ a - 1 \in Words
      /\ Exchanged(q, a)[a] = q[a - 1] /\ Exchanged(q, a)[a - 1] = q[a]
      /\ \A y \in Words \ {a - 1, a} : Exchanged(q, a)[y] = q[y]
  BY ExchangedAt
<1>2. Words \subseteq Nat /\ q[a] \in Words /\ q[a - 1] \in Words
  BY <1>1, RspAssumption DEF Words
<1>3. CASE x = a
  <2>1. k = a - 1 \/ Between(k, a - 1, q[a - 1])
    BY <1>1, <1>2, <1>3 DEF Between
  <2> QED
    BY <1>1, <2>1
<1>4. CASE x = a - 1
  <2>1. k = a - 1 \/ Between(k, a, q[a])
    BY <1>1, <1>2, <1>4 DEF Between
  <2> QED
    BY <2>1
<1>5. CASE x \notin {a - 1, a}
  BY <1>1, <1>5
<1> QED
  BY <1>3, <1>4, <1>5

LEMMA ExchangeStretched ==
    ASSUME NEW P, \A x \in Words : IsInstruction(P[x]), NEW q, Ordered(P, q), Stretched(P, q),
           NEW a \in Words, a > 0, CompareInstructions(P[q[a - 1]], P[q[a]]),
           a \notin BranchLabels(P)
    PROVE  Stretched(P, Exchanged(q, a))
<1>1. /\ q \in [Words -> Words]
      /\ \A x \in Words : IsOpcodeBranch(P[x]) \/ IsOpcodeBranch(P[q[x]]) => q[x] = x
  BY DEF Ordered
<1>2. a - 1 \in Words /\ (a - 1) + 1 = a
  BY RspAssumption DEF Words
<1>3. ~IsOpcodeBranch(P[a - 1]) /\ ~IsOpcodeBranch(P[a])
  <2>1. ~IsOpcodeBranch(P[q[a - 1]]) /\ ~IsOpcodeBranch(P[q[a]])
    BY <1>1, <1>2, NotBranches
  <2> QED
    BY <1>1, <1>2, <2>1
<1>4. Joined(P, a - 1)
  BY <1>2, <1>3 DEF Joined
<1>5. ASSUME NEW x \in Words, NEW k \in Words, Between(k, x, Exchanged(q, a)[x])
      PROVE  Joined(P, k)
  <2>1. k = a - 1 \/ \E y \in Words : Between(k, y, q[y])
    BY <1>1, <1>5, ExchangeBetween
  <2> QED
    BY <1>4, <2>1 DEF Stretched
<1> QED
  BY <1>5 DEF Stretched

LEMMA ExchangeSlots ==
    ASSUME NEW q \in [Words -> Words], NEW PC, NEW made, SlotsStay(q, PC, made),
           NEW a \in Words, a > 0, a - 1 > 0 /\ Branch(a - 2) => a - 2 < PC /\ a - 2 \notin made
    PROVE  SlotsStay(Exchanged(q, a), PC, made)
<1>1. ASSUME NEW x \in Words, NEW k \in Words, Between(k, x, Exchanged(q, a)[x]),
             k > 0, Branch(k - 1)
      PROVE  k - 1 < PC /\ k - 1 \notin made
  <2>1. CASE k = a - 1
    <3>1. k - 1 = a - 2
      BY <2>1, RspAssumption DEF Words
    <3> QED
      BY <1>1, <2>1, <3>1
  <2>2. CASE \E y \in Words : Between(k, y, q[y])
    BY <1>1, <2>2 DEF SlotsStay
  <2> QED
    BY <1>1, <2>1, <2>2, ExchangeBetween
<1> QED
  BY <1>1 DEF SlotsStay

LEMMA SectionKeeps ==
    ASSUME ProgramInv, NEW PC \in Words, NEW made, NEW o, InOrder(o, PC, made),
           PC - 1 \in made => ~Branch(PC - 1)
    PROVE  /\ InOrder(ReOrderSubBlock(program, o, PC), PC, made)
           /\ \A x \in Words : x < PC => ReOrderSubBlock(program, o, PC)[x] = o[x]
<1> DEFINE I == {q \in [Words -> Words] :
                   InOrder(q, PC, made) /\ \A x \in Words : x < PC => q[x] = o[x]}
<1>1. /\ \A x \in Words : IsInstruction(program[x]) /\ program[x].to \in Words
      /\ Words \subseteq Nat /\ Top \in Nat
  BY RspAssumption DEF ProgramInv, Words
<1>2. o \in [Words -> Words] /\ o \in I
  BY DEF InOrder, Ordered
<1>3. ASSUME ~IsOpcodeBranch(program[o[PC]]), NEW q \in I, NEW a \in Words, Within(program, PC, a),
             CompareInstructions(program[q[a - 1]], program[q[a]])
      PROVE  Exchanged(q, a) \in I
  <2>1. /\ q \in [Words -> Words] /\ InOrder(q, PC, made)
        /\ \A x \in Words : x < PC => q[x] = o[x]
    OBVIOUS
  <2>2. a > 0 /\ PC < a /\ a < Top /\ a - 1 \in Words
    BY <1>1, <1>3 DEF Within, Words
  <2>3. a \notin BranchLabels(program)
    BY <1>1, <1>3, <2>2 DEF Within
  <2>4. Ordered(program, Exchanged(q, a)) /\ Stretched(program, Exchanged(q, a))
    BY <1>1, <1>3, <2>1, <2>2, <2>3, ExchangeOrdered, ExchangeStretched DEF InOrder
  <2>5. ASSUME ~Truncated, a - 1 > 0, Branch(a - 2) PROVE a - 2 < PC /\ a - 2 \notin made
    <3>1. a - 2 \in Words /\ a - 2 <= a /\ PC \in Nat /\ a \in Nat
      BY <1>1, <2>2, <2>5 DEF Words
    <3>2. a - 2 \in BranchLocations(program)
      BY <2>5, <3>1 DEF Truncated, Branch
    <3>3. ~(PC < a - 2)
      BY <1>3, <3>1, <3>2 DEF Within
    <3>4. ~Branch(PC)
      BY <1>3 DEF InOrder, Ordered, Branch
    <3>5. a - 2 = PC - 1
      BY <2>2, <2>5, <3>1, <3>3, <3>4
    <3> QED
      BY <2>5, <3>1, <3>5
  <2>6. ~Truncated => SlotsStay(Exchanged(q, a), PC, made)
    BY <2>1, <2>2, <2>5, ExchangeSlots DEF InOrder
  <2>7. Exchanged(q, a) \in [Words -> Words]
    BY <2>1, <2>2, ExchangedAt
  <2>8. ASSUME NEW x \in Words, x < PC PROVE Exchanged(q, a)[x] = o[x]
    <3>1. x \notin {a - 1, a}
      BY <1>1, <2>2, <2>8
    <3> QED
      BY <2>1, <2>2, <2>8, <3>1, ExchangedAt
  <2> QED
    BY <2>4, <2>6, <2>7, <2>8 DEF InOrder
<1> HIDE DEF I
<1>4. ReOrderSubBlock(program, o, PC) \in I
  BY <1>1, <1>2, <1>3, ReOrderKeeps
<1> QED
  BY <1>4 DEF I

LEMMA HereInOrder == ASSUME NEW PC PROVE InOrder(Here, PC, {})
<1>1. Words \subseteq Nat
  BY RspAssumption DEF Words
<1>2. Here \in [Words -> Words] /\ \A x \in Words : Here[x] = x
  BY DEF Here
<1>3. Ordered(program, Here)
  BY <1>1, <1>2 DEF Ordered
<1>4. \A x, k \in Words : ~Between(k, x, Here[x])
  BY <1>1, <1>2 DEF Between
<1> QED
  BY <1>3, <1>4 DEF InOrder, Stretched, SlotsStay

-----------------------------------------------------------------------------
(* Sequences.                                                              *)

LEMMA AsSequence ==
    ASSUME NEW S, NEW s \in Seq(S)
    PROVE  s \in Seq({s[b] : b \in 1 .. Len(s)})
OBVIOUS

LEMMA Pushed ==
    ASSUME NEW s \in Seq(Seq(Words)), NEW t \in Seq(Words)
    PROVE  /\ <<t>> \o s \in Seq(Seq(Words)) /\ <<t>> \o s # <<>>
           /\ Len(<<t>> \o s) = Len(s) + 1
           /\ (<<t>> \o s)[1] = t
           /\ \A n \in 1 .. Len(s) : (<<t>> \o s)[n + 1] = s[n]
OBVIOUS

LEMMA Popped ==
    ASSUME NEW T, NEW s \in Seq(T), s # <<>>
    PROVE  /\ Len(s) \in Nat /\ Len(s) > 0
           /\ Head(s) = s[1] /\ Head(s) \in T
           /\ Tail(s) \in Seq(T) /\ Len(Tail(s)) = Len(s) - 1
           /\ \A n \in 1 .. Len(s) - 1 : Tail(s)[n] = s[n + 1]
OBVIOUS

-----------------------------------------------------------------------------
(* Code that is begun, and code that is made.                              *)

LEMMA Begun ==
    ASSUME BlocksInv, blocks' = Append(blocks, <<>>)
    PROVE  /\ Len(blocks) \in Nat /\ Len(blocks') = Len(blocks) + 1
           /\ DOMAIN (blocks'[Len(blocks) + 1]) = {}
           /\ \A b \in Compilation : blocks'[b] = blocks[b]
           /\ BlocksInv'
<1> DEFINE S == {blocks[b] : b \in Compilation}
<1>1. blocks \in Seq(S)
  BY DEF BlocksInv
<1> HIDE DEF S
<1>2. blocks' \in Seq(S \cup {<<>>})
  BY <1>1
<1>3. Len(blocks) \in Nat /\ Len(blocks') = Len(blocks) + 1
  BY <1>1
<1>4. blocks'[Len(blocks) + 1] = <<>>
  BY <1>1
<1>5. \A b \in Compilation : blocks'[b] = blocks[b]
  BY <1>1 DEF Compilation
<1>6. BlocksInv'
  BY <1>2, AsSequence DEF BlocksInv, Compilation
<1>7. DOMAIN <<>> = {}
  OBVIOUS
<1> QED
  BY <1>3, <1>4, <1>5, <1>6, <1>7

LEMMA Grown ==
    ASSUME BlocksInv, Len(blocks) > 0, NEW f, Made(f)
    PROVE  /\ Len(blocks) \in Nat /\ Len(blocks') = Len(blocks)
           /\ \A b \in Compilation : b # This => blocks'[b] = blocks[b]
           /\ Code(This)' = Code(This) \cup DOMAIN f
           /\ \A a \in DOMAIN f : blocks'[This][a] = f[a]
           /\ \A a \in Code(This) : a \notin DOMAIN f => blocks'[This][a] = blocks[This][a]
           /\ BlocksInv'
<1> DEFINE S == {blocks[b] : b \in Compilation}
           new == With(blocks[This], f)
<1>1. blocks \in Seq(S)
  BY DEF BlocksInv
<1>2. blocks' = [blocks EXCEPT ![This] = new]
  BY DEF Made
<1>3. /\ DOMAIN new = Code(This) \cup DOMAIN f
      /\ \A a \in DOMAIN f : new[a] = f[a]
      /\ \A a \in Code(This) : a \notin DOMAIN f => new[a] = blocks[This][a]
  BY DEF With, Code
<1> HIDE DEF S, new
<1>4. blocks' \in Seq(S \cup {new})
  <2>1. blocks \in Seq(S \cup {new})
    BY <1>1
  <2>2. Len(blocks) \in 1 .. Len(blocks)
    BY <1>1
  <2> QED
    BY <1>2, <2>1, <2>2 DEF This
<1>5. Len(blocks) \in Nat /\ Len(blocks') = Len(blocks)
  BY <1>1, <1>2
<1>6. blocks'[This] = new /\ \A b \in Compilation : b # This => blocks'[b] = blocks[b]
  BY <1>1, <1>2 DEF Compilation, This
<1>7. BlocksInv'
  BY <1>4, AsSequence DEF BlocksInv, Compilation
<1>8. This' = This
  BY <1>5 DEF This
<1> QED
  BY <1>3, <1>5, <1>6, <1>7, <1>8 DEF Code

LEMMA SameBlock ==
    ASSUME program' = program, NEW b, blocks'[b] = blocks[b], BlockInv(b)
    PROVE  BlockInv(b)'
<1>1. Code(b)' = Code(b) /\ \A a : Was(b, a)' = Was(b, a)
  BY DEF Code, Was
<1>2. Truncated' = Truncated /\ \A a : Branch(a)' = Branch(a)
  BY DEF Truncated, Branch
<1>3. \A a : SlotHarmless(blocks[b][a], blocks[b][a + 1])' = SlotHarmless(blocks[b][a], blocks[b][a + 1])
  BY DEF SlotHarmless
<1> QED
  BY <1>1, <1>2, <1>3 DEF BlockInv

(* What has been made stays in order when the next words join it.          *)
LEMMA BlockGrows ==
    ASSUME TypeOK, ProgramInv, BlocksInv, CompileInv, \A b \in Compilation : BlockInv(b),
           phase = "compile", program' = program,
           NEW f, Made(f), DOMAIN f \subseteq Words,
           \A a \in DOMAIN f : RSPCompilePC <= a /\ f[a].at = IMEM[a],
           \A a \in DOMAIN f : Branch(a) => a + 1 \in DOMAIN f /\ SlotHarmless(f[a], f[a + 1])
    PROVE  /\ \A b \in Compilation : BlockInv(b)'
           /\ \A a \in Code(This)' : Was(This, a)' = IMEM[a]
           /\ \A PC \in Words : PC >= RSPCompilePC => InOrder(IMEM, PC, Code(This)')
<1> DEFINE D == Code(This) \cup DOMAIN f
           new == blocks'[This]
<1>1. /\ Len(blocks) > 0 /\ InOrder(IMEM, RSPCompilePC, Code(This))
      /\ \A a \in Code(This) : a < RSPCompilePC /\ Was(This, a) = IMEM[a]
  BY DEF CompileInv
<1>2. /\ Len(blocks) \in Nat /\ Len(blocks') = Len(blocks)
      /\ \A b \in Compilation : b # This => blocks'[b] = blocks[b]
      /\ Code(This)' = D
      /\ \A a \in DOMAIN f : new[a] = f[a]
      /\ \A a \in Code(This) : a \notin DOMAIN f => new[a] = blocks[This][a]
  BY <1>1, Grown
<1>3. This' = This /\ This \in Compilation /\ Words \subseteq Nat /\ RSPCompilePC \in Words
  BY <1>1, <1>2, RspAssumption DEF This, Compilation, Words, TypeOK
<1>4. BlockInv(This)
  BY <1>3
<1>5. /\ Code(This) \subseteq Words /\ D \subseteq Words
      /\ \A a \in Code(This) : a \notin DOMAIN f
  <2>1. Code(This) \subseteq Words
    BY <1>4 DEF BlockInv
  <2>2. ASSUME NEW a \in Code(This), a \in DOMAIN f PROVE FALSE
    <3>1. a \in Nat /\ RSPCompilePC \in Nat /\ a < RSPCompilePC /\ RSPCompilePC <= a
      BY <1>1, <1>3, <2>1, <2>2
    <3> QED
      BY <3>1
  <2> QED
    BY <2>1, <2>2
<1>6. /\ IMEM \in [Words -> Words]
      /\ \A a \in Words : Branch(a) \/ Branch(IMEM[a]) => IMEM[a] = a
      /\ \A a, b \in Words : a < b /\ IMEM[a] > IMEM[b] =>
             CompareInstructions(program[IMEM[b]], program[IMEM[a]])
      /\ \A a, k \in Words : Between(k, a, IMEM[a]) => Joined(program, k)
  BY <1>1 DEF InOrder, Ordered, Stretched, Branch
<1>7. \A a \in D : new[a].at = IMEM[a]
  BY <1>1, <1>2, <1>5 DEF Was
<1>8. ASSUME ~Truncated, NEW a \in Words, NEW k \in Words, Between(k, a, IMEM[a]),
             k > 0, Branch(k - 1)
      PROVE  k - 1 < RSPCompilePC /\ k - 1 \notin D
  <2>1. k - 1 < RSPCompilePC /\ k - 1 \notin Code(This)
    BY <1>1, <1>8 DEF InOrder, SlotsStay
  <2>2. k - 1 \notin DOMAIN f
    BY <1>3, <2>1
  <2> QED
    BY <2>1, <2>2
<1>9. ASSUME NEW a \in D, Branch(a) \/ Branch(IMEM[a])
      PROVE  IMEM[a] = a /\ a + 1 \in D /\ SlotHarmless(new[a], new[a + 1])
  <2>1. IMEM[a] = a /\ Branch(a)
    BY <1>5, <1>6, <1>9
  <2>2. CASE a \in DOMAIN f
    BY <1>2, <2>1, <2>2
  <2>3. CASE a \in Code(This)
    <3>1. a + 1 \in Code(This) /\ SlotHarmless(blocks[This][a], blocks[This][a + 1])
      BY <1>1, <1>4, <2>1, <2>3 DEF BlockInv
    <3> QED
      BY <1>2, <1>5, <2>1, <2>3, <3>1
  <2> QED
    BY <2>2, <2>3
<1>10. ASSUME NEW a \in D PROVE SlotHarmless(new[a], new[a + 1])
  <2>1. CASE Branch(IMEM[a])
    BY <1>9, <2>1
  <2>2. CASE ~Branch(IMEM[a])
    <3>1. program[new[a].at].op \notin Branches
      BY <1>7, <2>2 DEF Branch, IsOpcodeBranch
    <3> QED
      BY <3>1 DEF SlotHarmless, Branches
  <2> QED
    BY <2>1, <2>2
<1>11. /\ \A a \in D : a \in Words /\ IMEM[a] \in Words
       /\ \A a \in D : Branch(a) \/ Branch(IMEM[a]) => IMEM[a] = a /\ a + 1 \in D
       /\ \A above, below \in D : above < below /\ IMEM[above] > IMEM[below] =>
              CompareInstructions(program[IMEM[below]], program[IMEM[above]])
       /\ \A a \in D, k \in Words : Between(k, a, IMEM[a]) =>
              /\ Joined(program, k)
              /\ ~Truncated /\ k > 0 /\ Branch(k - 1) => k - 1 \notin D
  BY <1>5, <1>6, <1>8, <1>9
<1>12. /\ \A a \in D : Was(This, a)' = IMEM[a]
       /\ Truncated' = Truncated /\ \A a \in Words : Branch(a)' = Branch(a)
  BY <1>3, <1>7 DEF Was, Truncated, Branch
<1>13. BlockInv(This)'
  <2>1. \A a \in D : SlotHarmless(blocks[This][a], blocks[This][a + 1])'
    BY <1>3, <1>10 DEF SlotHarmless
  <2>2. Code(This)' = D
    BY <1>2
  <2> HIDE DEF D, new
  <2>3. \A a \in Code(This)' : (a \in Words /\ Was(This, a) \in Words)'
    BY <1>11, <1>12, <2>2
  <2> QED
    BY <1>3, <1>11, <1>12, <2>1, <2>2 DEF BlockInv, Was, Truncated, Branch
<1>14. ASSUME NEW b \in Compilation, b # This PROVE BlockInv(b)'
  BY <1>2, <1>14, SameBlock
<1>15. ASSUME NEW PC \in Words, PC >= RSPCompilePC PROVE InOrder(IMEM, PC, D)
  <2>1. ~Truncated => SlotsStay(IMEM, PC, D)
    BY <1>3, <1>8, <1>15 DEF SlotsStay
  <2> QED
    BY <1>1, <2>1 DEF InOrder
<1> QED
  BY <1>2, <1>3, <1>12, <1>13, <1>14, <1>15

-----------------------------------------------------------------------------
(* The steps of the compiler.                                              *)

LEMMA ProgramKept ==
    ASSUME ProgramInv, program' = program
    PROVE  /\ ProgramInv'
           /\ WriterInv /\ regs' = regs => WriterInv'
<1>1. ProgramInv'
  BY DEF ProgramInv, Branch
<1>2. WriterInv /\ regs' = regs => WriterInv'
  BY DEF WriterInv, Writers, NamedGPRs
<1> QED
  BY <1>1, <1>2

(* A target that has code, or is waited for, keeps it or is waited for.    *)
TargetsStay ==
    \A a \in Words : RSPJumpTable[a] # 0 \/ Pending(a) =>
        RSPJumpTable'[a] # 0 \/ Awaited(BranchesToResolve', a)

LEMMA StillResolved ==
    ASSUME ProgramInv, program' = program, TargetsStay,
           NEW b, blocks'[b] = blocks[b], BlockInv(b), Resolved(b)
    PROVE  Resolved(b)'
<1>1. \A a \in Code(b) : program[blocks[b][a].at].to \in Words
  BY DEF BlockInv, ProgramInv, Was
<1>2. Code(b)' = Code(b)
  BY DEF Code
<1>3. ASSUME NEW a \in Code(b), Labelled(program, blocks[b][a].at),
             ~Never(program[blocks[b][a].at]), ~blocks[b][a].lost
      PROVE  LET to == program[blocks[b][a].at].to
             IN  RSPJumpTable'[to] # 0 \/ Awaited(BranchesToResolve', to)
  <2> DEFINE to == program[blocks[b][a].at].to
  <2>1. RSPJumpTable[to] # 0 \/ Pending(to)
    BY <1>3 DEF Resolved, Instr
  <2>2. to \in Words
    BY <1>1
  <2> QED
    BY <2>1, <2>2 DEF TargetsStay
<1> QED
  BY <1>2, <1>3 DEF Resolved, Instr, Pending

LEMMA StartKeeps ==
    ASSUME IInv, phase \in {"stopped", "link"}, NEW PC \in Words, RSPJumpTable[PC] = 0,
           StartBlock(PC), UNCHANGED <<program, mmx, PrgCount, block, regs>>
    PROVE  IInv'
<1>1. /\ TypeOK /\ BlocksInv /\ ProgramInv /\ LinkInv /\ TableInv /\ WriterInv
      /\ \A b \in Compilation : BlockInv(b)
  BY DEF IInv
<1>2. /\ phase' = "compile" /\ RSPCompilePC' = PC /\ blocks' = Append(blocks, <<>>)
      /\ RSPJumpTable' = [RSPJumpTable EXCEPT ![PC] = Len(blocks) + 1]
      /\ IMEM' = ReOrderSubBlock(program, Here, PC)
      /\ BranchesToResolve' = <<<<>>>> \o BranchesToResolve
  BY DEF StartBlock, Saved
<1>3. /\ Len(blocks) \in Nat /\ Len(blocks') = Len(blocks) + 1
      /\ DOMAIN (blocks'[Len(blocks) + 1]) = {}
      /\ \A b \in Compilation : blocks'[b] = blocks[b]
      /\ BlocksInv'
  BY <1>1, <1>2, Begun
<1>4. InOrder(IMEM', PC, {})
  BY <1>1, <1>2, HereInOrder, SectionKeeps
<1>5. /\ BranchesToResolve' \in Seq(Seq(Words)) /\ BranchesToResolve' # <<>>
      /\ Len(BranchesToResolve') = Len(BranchesToResolve) + 1
      /\ \A n \in 1 .. Len(BranchesToResolve) : BranchesToResolve'[n + 1] = BranchesToResolve[n]
      /\ Len(BranchesToResolve) \in Nat
  <2>1. BranchesToResolve \in Seq(Seq(Words)) /\ <<>> \in Seq(Words)
    BY <1>1 DEF TypeOK
  <2> QED
    BY <1>2, <2>1, Pushed
<1>6. /\ RSPJumpTable' \in [Words -> 0..Len(blocks')] /\ RSPJumpTable'[PC] = Len(blocks')
      /\ \A a \in Words : a # PC => RSPJumpTable'[a] = RSPJumpTable[a]
  BY <1>1, <1>2, <1>3 DEF TypeOK
<1>7. /\ This' = Len(blocks) + 1 /\ Code(This)' = {}
      /\ Compilation' = Compilation \cup {This'}
      /\ \A b \in Compilation : Code(b)' = Code(b)
  BY <1>3 DEF This, Code, Compilation
<1>8. \A b \in Compilation' : \A a \in Code(b)' : b \in Compilation /\ a \in Code(b)
  BY <1>7
<1>9. TypeOK'
  <2>1. IMEM' \in [Words -> Words]
    BY <1>4 DEF InOrder, Ordered
  <2>2. block \in 0 .. Len(blocks')
    BY <1>1, <1>3 DEF TypeOK
  <2>3. \A b \in 1 .. Len(blocks') : \A a \in DOMAIN blocks'[b] :
            a \in Words /\ blocks'[b][a].at \in Words
    BY <1>1, <1>3, <1>8 DEF TypeOK, Compilation, Code
  <2> QED
    BY <1>1, <1>2, <1>5, <1>6, <2>1, <2>2, <2>3 DEF TypeOK
<1>10. ProgramInv' /\ WriterInv'
  BY <1>1, ProgramKept
<1>11. CompileInv'
  <2>1. InOrder(IMEM, RSPCompilePC, Code(This))'
    BY <1>2, <1>4, <1>7 DEF InOrder, Truncated, SlotsStay, Branch
  <2> QED
    BY <1>3, <1>7, <2>1 DEF CompileInv
<1>12. TargetsStay
  <2>1. ASSUME NEW a, Pending(a) PROVE Awaited(BranchesToResolve', a)
    <3>1. PICK n \in 1 .. Len(BranchesToResolve) : \E k \in 1 .. Len(BranchesToResolve[n]) :
              BranchesToResolve[n][k] = a
      BY <2>1 DEF Pending, Awaited
    <3>2. n + 1 \in 1 .. Len(BranchesToResolve') /\ BranchesToResolve'[n + 1] = BranchesToResolve[n]
      BY <1>5
    <3> QED
      BY <3>1, <3>2 DEF Awaited
  <2>2. \A a \in Words : RSPJumpTable[a] # 0 => RSPJumpTable'[a] # 0
    BY <1>3, <1>6
  <2> QED
    BY <2>1, <2>2 DEF TargetsStay
<1>13. LinkInv'
  <2>1. ASSUME NEW b \in Compilation PROVE Resolved(b)'
    BY <1>1, <1>3, <1>12, <2>1, StillResolved DEF LinkInv
  <2>2. Resolved(This)'
    BY <1>7 DEF Resolved
  <2>3. \A b \in Compilation' : Resolved(b)'
    BY <1>3, <1>7, <2>1, <2>2 DEF Resolved, This, Code
  <2> QED
    BY <1>2, <1>5, <2>3 DEF LinkInv
<1>14. TableInv'
  <2> SUFFICES ASSUME NEW a \in Words, RSPJumpTable'[a] # 0
               PROVE  a \in DOMAIN blocks'[RSPJumpTable'[a]]
                      \/ (RSPJumpTable'[a] = Len(blocks') /\ a = RSPCompilePC')
    BY <1>2 DEF TableInv, Code
  <2>1. CASE a = PC
    BY <1>2, <1>6, <2>1
  <2>2. CASE a # PC
    <3>1. RSPJumpTable'[a] = RSPJumpTable[a] /\ RSPJumpTable[a] \in Compilation
      BY <1>1, <1>3, <1>6, <2>2 DEF TypeOK, Compilation
    <3>2. a \in Code(RSPJumpTable[a])
      BY <1>1, <3>1 DEF TableInv
    <3> QED
      BY <1>3, <3>1, <3>2 DEF Code
  <2> QED
    BY <2>1, <2>2
<1>15. RunInv'
  BY <1>2 DEF RunInv
<1>16. \A b \in Compilation' : BlockInv(b)'
  <2>1. ASSUME NEW b \in Compilation PROVE BlockInv(b)'
    BY <1>1, <1>3, SameBlock
  <2>2. ASSUME NEW b, b = Len(blocks) + 1 PROVE BlockInv(b)'
    BY <1>3, <2>2 DEF BlockInv, Code
  <2> QED
    BY <1>7, <2>1, <2>2
<1> QED
  BY <1>3, <1>9, <1>10, <1>11, <1>13, <1>14, <1>15, <1>16 DEF IInv

LEMMA CodeKept ==
    ASSUME IInv, UNCHANGED <<program, mmx, code>>,
           phase \in {"stopped", "run", "halted", "astray"},
           phase' \in {"stopped", "run", "halted", "astray"},
           PrgCount' \in Words, block' \in 0 .. Len(blocks),
           phase' = "run" => block' \in Compilation /\ PrgCount' \in Code(block'),
           WriterInv'
    PROVE  IInv'
<1>1. /\ TypeOK /\ BlocksInv /\ ProgramInv /\ LinkInv /\ TableInv
      /\ \A b \in Compilation : BlockInv(b)
  BY DEF IInv
<1>2. UNCHANGED <<program, mmx, IMEM, RSPCompilePC, RSPJumpTable, blocks, BranchesToResolve>>
  BY DEF code
<1>3. TypeOK'
  BY <1>1, <1>2 DEF TypeOK
<1>4. BlocksInv' /\ ProgramInv'
  BY <1>1, <1>2, ProgramKept DEF BlocksInv, Compilation
<1>5. CompileInv'
  BY DEF CompileInv
<1>6. LinkInv'
  <2>1. ASSUME NEW b \in Compilation PROVE Resolved(b)'
    BY <1>1, <1>2, StillResolved DEF LinkInv, TargetsStay, Pending
  <2> QED
    BY <1>1, <1>2, <2>1 DEF LinkInv, Compilation
<1>7. TableInv'
  BY <1>1, <1>2 DEF TableInv, Code
<1>8. RunInv'
  BY <1>2 DEF RunInv, Compilation, Code
<1>9. \A b \in Compilation' : BlockInv(b)'
  BY <1>1, <1>2, SameBlock DEF Compilation
<1> QED
  BY <1>3, <1>4, <1>5, <1>6, <1>7, <1>8, <1>9 DEF IInv

LEMMA RunRecompilerCPUKeeps ==
    ASSUME IInv, RunRecompilerCPU
    PROVE  IInv'
<1>1. /\ phase = "stopped" /\ UNCHANGED <<program, mmx, PrgCount, regs>>
      /\ TypeOK /\ ProgramInv /\ TableInv /\ WriterInv
  BY DEF IInv, RunRecompilerCPU
<1>2. PrgCount \in Words
  BY <1>1 DEF TypeOK
<1>3. CASE RSPJumpTable[PrgCount] = 0
  BY <1>1, <1>2, <1>3, StartKeeps DEF RunRecompilerCPU
<1>4. CASE RSPJumpTable[PrgCount] # 0
  <2>1. phase' = "run" /\ block' = RSPJumpTable[PrgCount] /\ UNCHANGED code
    BY <1>4 DEF RunRecompilerCPU
  <2>2. block' \in 0 .. Len(blocks) /\ block' # 0
    BY <1>1, <1>2, <1>4, <2>1 DEF TypeOK
  <2>3. PrgCount \in Code(block')
    BY <1>1, <1>2, <1>4, <2>1 DEF TableInv, Code
  <2>4. WriterInv'
    BY <1>1, ProgramKept
  <2> QED
    BY <1>1, <1>2, <2>1, <2>2, <2>3, <2>4, CodeKept DEF Compilation
<1> QED
  BY <1>3, <1>4

(* A step of the linker that makes no code.                                *)
LEMMA LinkedOn ==
    ASSUME IInv, phase = "link", phase' \in {"stopped", "link"},
           phase' = "link" => BranchesToResolve' # <<>>,
           phase' = "stopped" => BranchesToResolve' = <<>>,
           BranchesToResolve' \in Seq(Seq(Words)), TargetsStay,
           UNCHANGED <<program, mmx, IMEM, RSPCompilePC, RSPJumpTable, blocks, PrgCount, block, regs>>
    PROVE  IInv'
<1>1. /\ TypeOK /\ BlocksInv /\ ProgramInv /\ LinkInv /\ TableInv /\ WriterInv
      /\ \A b \in Compilation : BlockInv(b)
  BY DEF IInv
<1>2. TypeOK'
  BY <1>1 DEF TypeOK
<1>3. BlocksInv' /\ ProgramInv' /\ WriterInv'
  BY <1>1, ProgramKept DEF BlocksInv, Compilation
<1>4. CompileInv' /\ RunInv'
  BY DEF CompileInv, RunInv
<1>5. LinkInv'
  <2>1. ASSUME NEW b \in Compilation PROVE Resolved(b)'
    BY <1>1, StillResolved DEF LinkInv
  <2> QED
    BY <1>1, <2>1 DEF LinkInv, Compilation
<1>6. TableInv'
  BY <1>1 DEF TableInv, Code
<1>7. \A b \in Compilation' : BlockInv(b)'
  BY <1>1, SameBlock DEF Compilation
<1> QED
  BY <1>2, <1>3, <1>4, <1>5, <1>6, <1>7 DEF IInv

LEMMA LinkBranchesKeeps ==
    ASSUME IInv, LinkBranches
    PROVE  IInv'
<1> DEFINE pending == Head(BranchesToResolve)
           outer == Tail(BranchesToResolve)
<1>1. /\ phase = "link" /\ UNCHANGED <<program, mmx, PrgCount, block, regs>>
      /\ TypeOK /\ LinkInv
  BY DEF IInv, LinkBranches
<1>2. BranchesToResolve \in Seq(Seq(Words)) /\ BranchesToResolve # <<>>
  BY <1>1 DEF TypeOK, LinkInv
<1>3. /\ Len(BranchesToResolve) \in Nat /\ Len(BranchesToResolve) > 0
      /\ pending = BranchesToResolve[1] /\ pending \in Seq(Words)
      /\ outer \in Seq(Seq(Words)) /\ Len(outer) = Len(BranchesToResolve) - 1
      /\ \A n \in 1 .. Len(BranchesToResolve) - 1 : outer[n] = BranchesToResolve[n + 1]
  BY <1>2, Popped
<1>4. ASSUME NEW n \in 1 .. Len(BranchesToResolve), n # 1
      PROVE  n - 1 \in 1 .. Len(outer) /\ outer[n - 1] = BranchesToResolve[n]
  <2>1. n - 1 \in 1 .. Len(BranchesToResolve) - 1 /\ (n - 1) + 1 = n
    BY <1>3, <1>4
  <2> QED
    BY <1>3, <2>1
<1> HIDE DEF outer, pending
<1>5. CASE pending = <<>>
  <2>1. /\ BranchesToResolve' = outer
        /\ phase' = IF outer = <<>> THEN "stopped" ELSE "link"
        /\ UNCHANGED <<IMEM, RSPCompilePC, RSPJumpTable, blocks>>
    BY <1>5 DEF LinkBranches, pending, outer
  <2>2. ASSUME NEW a, Pending(a) PROVE Awaited(outer, a)
    <3>1. PICK n \in 1 .. Len(BranchesToResolve) :
              \E k \in 1 .. Len(BranchesToResolve[n]) : BranchesToResolve[n][k] = a
      BY <2>2 DEF Pending, Awaited
    <3>2. n # 1
      <4>1. Len(pending) = 0
        BY <1>5
      <4> QED
        BY <1>3, <3>1, <4>1
    <3>3. n - 1 \in 1 .. Len(outer) /\ outer[n - 1] = BranchesToResolve[n]
      BY <1>4, <3>2
    <3> QED
      BY <3>1, <3>3 DEF Awaited
  <2>3. TargetsStay
    BY <2>1, <2>2 DEF TargetsStay
  <2> QED
    BY <1>1, <1>3, <2>1, <2>3, LinkedOn
<1>6. CASE pending # <<>>
  <2> DEFINE to == Head(pending)
  <2>1. to = pending[1] /\ to \in Words
    BY <1>3, <1>6, Popped
  <2> HIDE DEF to
  <2>2. CASE RSPJumpTable[to] = 0
    <3>1. StartBlock(to)
      BY <1>6, <2>2 DEF LinkBranches, pending, to
    <3> QED
      BY <1>1, <2>1, <2>2, <3>1, StartKeeps
  <2>3. CASE RSPJumpTable[to] # 0
    <3> DEFINE rest == Tail(pending)
               s == <<rest>> \o outer
    <3>1. /\ BranchesToResolve' = s
          /\ UNCHANGED <<phase, IMEM, RSPCompilePC, RSPJumpTable, blocks>>
      BY <1>6, <2>3 DEF LinkBranches, pending, to, outer
    <3>2. /\ Len(pending) \in Nat /\ Len(pending) > 0
          /\ rest \in Seq(Words) /\ Len(rest) = Len(pending) - 1
          /\ \A k \in 1 .. Len(pending) - 1 : rest[k] = pending[k + 1]
      BY <1>3, <1>6, Popped
    <3> HIDE DEF rest
    <3>3. /\ s \in Seq(Seq(Words)) /\ s # <<>> /\ Len(s) = Len(outer) + 1 /\ s[1] = rest
          /\ \A n \in 1 .. Len(outer) : s[n + 1] = outer[n]
      BY <1>3, <3>2, Pushed
    <3> HIDE DEF s
    <3>4. ASSUME NEW a, Pending(a), a # to PROVE Awaited(s, a)
      <4>0. PICK n \in 1 .. Len(BranchesToResolve) :
                \E k \in 1 .. Len(BranchesToResolve[n]) : BranchesToResolve[n][k] = a
        BY <3>4 DEF Pending, Awaited
      <4>1. PICK k \in 1 .. Len(BranchesToResolve[n]) : BranchesToResolve[n][k] = a
        BY <4>0
      <4>2. CASE n = 1
        <5>1. k \in 1 .. Len(pending) /\ pending[k] = a /\ k # 1
          BY <1>3, <2>1, <3>4, <4>1, <4>2
        <5>2. k - 1 \in 1 .. Len(rest) /\ rest[k - 1] = a
          <6>1. k - 1 \in 1 .. Len(pending) - 1 /\ (k - 1) + 1 = k
            BY <3>2, <5>1
          <6> QED
            BY <3>2, <5>1, <6>1
        <5>3. 1 \in 1 .. Len(s)
          BY <1>3, <3>3
        <5> QED
          BY <3>3, <5>2, <5>3 DEF Awaited
      <4>3. CASE n # 1
        <5>1. n - 1 \in 1 .. Len(outer) /\ outer[n - 1] = BranchesToResolve[n]
          BY <1>4, <4>3
        <5>2. n \in 1 .. Len(s) /\ s[n] = BranchesToResolve[n]
          <6>1. (n - 1) + 1 = n
            BY <1>3
          <6> QED
            BY <1>3, <3>3, <5>1, <6>1
        <5> QED
          BY <4>1, <5>2 DEF Awaited
      <4> QED
        BY <4>2, <4>3
    <3>5. TargetsStay
      BY <2>3, <3>1, <3>4 DEF TargetsStay
    <3> QED
      BY <1>1, <3>1, <3>3, <3>5, LinkedOn
  <2> QED
    BY <2>2, <2>3
<1> QED
  BY <1>5, <1>6

(* Where only the order and the table of addresses may change.             *)
LEMMA CompileLabelKeeps ==
    ASSUME IInv, CompileLabel
    PROVE  IInv'
<1> DEFINE PC == RSPCompilePC
<1>1. /\ TypeOK /\ BlocksInv /\ ProgramInv /\ CompileInv /\ LinkInv /\ TableInv /\ WriterInv
      /\ \A b \in Compilation : BlockInv(b)
  BY DEF IInv
<1>2. /\ phase = "compile"
      /\ RSPJumpTable' = [RSPJumpTable EXCEPT ![PC] = This]
      /\ IMEM' = ReOrderSubBlock(program, IMEM, PC)
      /\ UNCHANGED <<program, mmx, phase, RSPCompilePC, blocks, BranchesToResolve, PrgCount,
                     block, regs>>
  BY DEF CompileLabel, Section
<1>3. /\ Len(blocks) > 0 /\ InOrder(IMEM, PC, Code(This)) /\ PC \in Words
      /\ \A a \in Code(This) : a < PC /\ Was(This, a) = IMEM[a]
      /\ PC - 1 \in Code(This) => ~Branch(PC - 1)
  BY <1>1, <1>2 DEF CompileInv, TypeOK
<1>4. /\ InOrder(IMEM', PC, Code(This))
      /\ \A x \in Words : x < PC => IMEM'[x] = IMEM[x]
  BY <1>1, <1>2, <1>3, SectionKeeps
<1>5. This \in Compilation /\ This \in Nat /\ This' = This /\ Len(blocks') = Len(blocks)
  <2>1. Len(blocks) \in Nat
    BY <1>1 DEF BlocksInv
  <2> QED
    BY <1>2, <1>3, <2>1 DEF This, Compilation
<1>6. /\ RSPJumpTable' \in [Words -> 0..Len(blocks)] /\ RSPJumpTable'[PC] = This
      /\ \A a \in Words : a # PC => RSPJumpTable'[a] = RSPJumpTable[a]
  BY <1>1, <1>2, <1>3, <1>5 DEF TypeOK, This
<1>7. TypeOK'
  <2>1. IMEM' \in [Words -> Words]
    BY <1>4 DEF InOrder, Ordered
  <2> QED
    BY <1>1, <1>2, <1>6, <2>1 DEF TypeOK
<1>8. BlocksInv' /\ ProgramInv' /\ WriterInv'
  BY <1>1, <1>2, ProgramKept DEF BlocksInv, Compilation
<1>9. CompileInv'
  <2>1. InOrder(IMEM, RSPCompilePC, Code(This))'
    BY <1>2, <1>4 DEF InOrder, Truncated, SlotsStay, Branch, Code, This
  <2>2. Code(This) \subseteq Words
    BY <1>1, <1>5 DEF BlockInv
  <2>3. \A a \in Code(This) : a < PC /\ Was(This, a) = IMEM'[a]
    BY <1>3, <1>4, <2>2
  <2> QED
    BY <1>2, <1>3, <2>1, <2>3 DEF CompileInv, Code, This, Was, Branch
<1>10. LinkInv'
  <2>1. TargetsStay
    BY <1>2, <1>3, <1>5, <1>6 DEF TargetsStay, Pending, Compilation
  <2>2. ASSUME NEW b \in Compilation PROVE Resolved(b)'
    BY <1>1, <1>2, <2>1, StillResolved DEF LinkInv
  <2> QED
    BY <1>1, <1>2, <2>2 DEF LinkInv, Compilation
<1>11. TableInv'
  BY <1>1, <1>2, <1>6 DEF TableInv, Code, This
<1>12. RunInv'
  BY <1>2 DEF RunInv
<1>13. \A b \in Compilation' : BlockInv(b)'
  BY <1>1, <1>2, SameBlock DEF Compilation
<1> QED
  BY <1>7, <1>8, <1>9, <1>10, <1>11, <1>12, <1>13 DEF IInv

LEMMA HangKeeps ==
    ASSUME IInv, Hang
    PROVE  IInv'
<1>1. /\ TypeOK /\ BlocksInv /\ ProgramInv /\ LinkInv /\ TableInv /\ WriterInv
      /\ \A b \in Compilation : BlockInv(b)
  BY DEF IInv
<1>2. /\ phase = "compile" /\ phase' = "hung"
      /\ UNCHANGED <<program, mmx, IMEM, RSPCompilePC, RSPJumpTable, blocks, BranchesToResolve,
                     PrgCount, block, regs>>
  BY DEF Hang, code
<1>3. TypeOK'
  BY <1>1, <1>2 DEF TypeOK
<1>4. BlocksInv' /\ ProgramInv' /\ WriterInv'
  BY <1>1, <1>2, ProgramKept DEF BlocksInv, Compilation
<1>5. CompileInv' /\ RunInv'
  BY <1>2 DEF CompileInv, RunInv
<1>6. LinkInv'
  <2>1. ASSUME NEW b \in Compilation PROVE Resolved(b)'
    BY <1>1, <1>2, StillResolved DEF LinkInv, TargetsStay, Pending
  <2> QED
    BY <1>2, <2>1 DEF LinkInv, Compilation
<1>7. TableInv'
  BY <1>1, <1>2 DEF TableInv, Code
<1>8. \A b \in Compilation' : BlockInv(b)'
  BY <1>1, <1>2, SameBlock DEF Compilation
<1> QED
  BY <1>3, <1>4, <1>5, <1>6, <1>7, <1>8 DEF IInv

(* Code is made of the words of f, and the compiler goes on behind them or *)
(* ends the block.                                                         *)
GoesOnBehind(f) ==
    /\ phase' = phase /\ RSPCompilePC' \in Words /\ RSPCompilePC' > RSPCompilePC
    /\ \A a \in DOMAIN f : a < RSPCompilePC'
    /\ RSPCompilePC' - 1 \in DOMAIN f /\ ~Branch(RSPCompilePC' - 1)
    /\ UNCHANGED <<IMEM, RSPJumpTable>> \/ Section(RSPCompilePC')

LEMMA MadeKeeps ==
    ASSUME IInv, phase = "compile", UNCHANGED <<program, mmx, PrgCount, block, regs>>,
           NEW f, Made(f), DOMAIN f \subseteq Words, RSPCompilePC \in DOMAIN f,
           \A a \in DOMAIN f : RSPCompilePC <= a /\ f[a].at = IMEM[a],
           \A a \in DOMAIN f : Branch(a) => a + 1 \in DOMAIN f /\ SlotHarmless(f[a], f[a + 1]),
           BranchesToResolve' \in Seq(Seq(Words)), BranchesToResolve' # <<>>,
           \A a \in Words : Pending(a) => Awaited(BranchesToResolve', a),
           \A a \in DOMAIN f :
               Labelled(program, f[a].at) /\ ~Never(Instr(f[a])) /\ ~f[a].lost =>
                   RSPJumpTable[Instr(f[a]).to] # 0 \/ Awaited(BranchesToResolve', Instr(f[a]).to),
           EndBlock \/ GoesOnBehind(f)
    PROVE  IInv'
<1> DEFINE PC == RSPCompilePC
<1>1. /\ TypeOK /\ BlocksInv /\ ProgramInv /\ CompileInv /\ LinkInv /\ TableInv /\ WriterInv
      /\ \A b \in Compilation : BlockInv(b)
  BY DEF IInv
<1>2. /\ Len(blocks) > 0 /\ InOrder(IMEM, PC, Code(This)) /\ PC \in Words
      /\ \A a \in Code(This) : a < PC /\ Was(This, a) = IMEM[a]
  BY <1>1 DEF CompileInv, TypeOK
<1>3. /\ Len(blocks) \in Nat /\ Len(blocks') = Len(blocks)
      /\ \A b \in Compilation : b # This => blocks'[b] = blocks[b]
      /\ Code(This)' = Code(This) \cup DOMAIN f
      /\ \A a \in DOMAIN f : blocks'[This][a] = f[a]
      /\ \A a \in Code(This) : a \notin DOMAIN f => blocks'[This][a] = blocks[This][a]
      /\ BlocksInv'
  BY <1>1, <1>2, Grown
<1>4. /\ \A b \in Compilation : BlockInv(b)'
      /\ \A a \in Code(This)' : Was(This, a)' = IMEM[a]
      /\ \A k \in Words : k >= PC => InOrder(IMEM, k, Code(This)')
  BY <1>1, BlockGrows
<1>5. This' = This /\ Compilation' = Compilation /\ This \in Compilation /\ Words \subseteq Nat
  BY <1>2, <1>3, RspAssumption DEF This, Compilation, Words
<1>6. Code(This) \subseteq Words /\ IMEM \in [Words -> Words]
  BY <1>1, <1>5 DEF BlockInv, TypeOK
<1>7. EndBlock => /\ phase' = "link" /\ IMEM' = Here
                  /\ RSPCompilePC' = PC /\ RSPJumpTable' = RSPJumpTable
  BY DEF EndBlock
<1>8. GoesOnBehind(f) =>
          /\ IMEM' = IMEM \/ IMEM' = ReOrderSubBlock(program, IMEM, RSPCompilePC')
          /\ RSPJumpTable' = RSPJumpTable
             \/ RSPJumpTable' = [RSPJumpTable EXCEPT ![RSPCompilePC'] = This]
  BY DEF GoesOnBehind, Section
<1>9. GoesOnBehind(f) =>
          /\ InOrder(IMEM', RSPCompilePC', Code(This)')
          /\ \A x \in Words : x < RSPCompilePC' => IMEM'[x] = IMEM[x]
  <2> SUFFICES ASSUME GoesOnBehind(f)
               PROVE  /\ InOrder(IMEM', RSPCompilePC', Code(This)')
                      /\ \A x \in Words : x < RSPCompilePC' => IMEM'[x] = IMEM[x]
    OBVIOUS
  <2> DEFINE k == RSPCompilePC'
             made == Code(This)'
  <2>1. k \in Words /\ k >= PC /\ ~Branch(k - 1)
    BY <1>2, <1>5 DEF GoesOnBehind
  <2>2. InOrder(IMEM, k, made)
    BY <1>4, <2>1
  <2>3. CASE IMEM' = IMEM
    BY <2>2, <2>3
  <2>4. CASE IMEM' = ReOrderSubBlock(program, IMEM, k)
    <3> HIDE DEF k, made
    <3> QED
      BY <1>1, <2>1, <2>2, <2>4, SectionKeeps DEF k, made
  <2> QED
    BY <1>8, <2>3, <2>4
<1>10. RSPJumpTable' \in [Words -> 0..Len(blocks)]
  <2>1. RSPJumpTable \in [Words -> 0..Len(blocks)] /\ This \in 0..Len(blocks)
    BY <1>1, <1>3, <1>5 DEF TypeOK, This
  <2> QED
    BY <1>7, <1>8, <2>1
<1>11. \A a \in Words : RSPJumpTable'[a] = RSPJumpTable[a]
                        \/ (GoesOnBehind(f) /\ a = RSPCompilePC' /\ RSPJumpTable'[a] = This)
  BY <1>1, <1>7, <1>8 DEF TypeOK
<1>12. TypeOK'
  <2>1. IMEM' \in [Words -> Words] /\ RSPCompilePC' \in Words
    <3>1. CASE EndBlock
      BY <1>2, <1>7, <3>1 DEF Here
    <3>2. CASE GoesOnBehind(f)
      BY <1>9, <3>2 DEF GoesOnBehind, InOrder, Ordered
    <3> QED
      BY <3>1, <3>2
  <2>2. \A b \in Compilation : \A a \in Code(b)' : a \in Words /\ Was(b, a)' \in Words
    BY <1>4 DEF BlockInv
  <2>3. phase' \in {"compile", "link"}
    BY <1>7 DEF GoesOnBehind
  <2> QED
    BY <1>1, <1>3, <1>5, <1>10, <2>1, <2>2, <2>3 DEF TypeOK, Compilation, Code, Was
<1>13. ProgramInv' /\ WriterInv'
  BY <1>1, ProgramKept
<1>14. CompileInv'
  <2>1. CASE EndBlock
    BY <1>7, <2>1 DEF CompileInv
  <2>2. CASE GoesOnBehind(f)
    <3>1. InOrder(IMEM, RSPCompilePC, Code(This))'
      BY <1>5, <1>9, <2>2 DEF InOrder, Truncated, SlotsStay, Branch, Code
    <3>2. ASSUME NEW a \in Code(This)' PROVE a < RSPCompilePC' /\ Was(This, a)' = IMEM'[a]
      <4>1. a \in Words /\ PC \in Nat /\ a \in Nat /\ RSPCompilePC' \in Nat
        BY <1>2, <1>3, <1>5, <1>6, <2>2 DEF GoesOnBehind
      <4>2. a < RSPCompilePC'
        BY <1>2, <1>3, <2>2, <4>1 DEF GoesOnBehind
      <4> QED
        BY <1>4, <1>9, <2>2, <4>1, <4>2
    <3>3. ~Branch(RSPCompilePC - 1)'
      BY <2>2 DEF GoesOnBehind, Branch
    <3> QED
      BY <1>2, <1>3, <1>5, <3>1, <3>2, <3>3 DEF CompileInv, Was, Code
  <2> QED
    BY <2>1, <2>2
<1>15. LinkInv'
  <2>1. \A a \in Words : RSPJumpTable[a] # 0 => RSPJumpTable'[a] # 0
    BY <1>2, <1>3, <1>11 DEF This
  <2>2. TargetsStay
    BY <2>1 DEF TargetsStay
  <2>3. ASSUME NEW b \in Compilation, b # This PROVE Resolved(b)'
    BY <1>1, <1>3, <2>2, <2>3, StillResolved DEF LinkInv
  <2>4. ASSUME NEW a \in Code(This)', NEW c, c = blocks'[This][a],
               Labelled(program, c.at), ~Never(program[c.at]), ~c.lost
        PROVE  RSPJumpTable'[program[c.at].to] # 0
               \/ Awaited(BranchesToResolve', program[c.at].to)
    <3>1. program[c.at].to \in Words
      <4>1. Was(This, a)' \in Words /\ Was(This, a)' = c.at
        BY <1>4, <1>5, <2>4 DEF BlockInv, Was
      <4> QED
        BY <1>1, <4>1 DEF ProgramInv
    <3>2. CASE a \in DOMAIN f
      <4>1. c = f[a]
        BY <1>3, <2>4, <3>2
      <4> QED
        BY <2>1, <2>4, <3>1, <3>2, <4>1 DEF Instr
    <3>3. CASE a \notin DOMAIN f
      <4>1. a \in Code(This) /\ c = blocks[This][a]
        BY <1>3, <2>4, <3>3
      <4>2. RSPJumpTable[program[c.at].to] # 0 \/ Pending(program[c.at].to)
        BY <1>1, <1>5, <2>4, <4>1 DEF LinkInv, Resolved, Instr
      <4> QED
        BY <2>1, <3>1, <4>2
    <3> QED
      BY <3>2, <3>3
  <2>5. Resolved(This)'
    BY <1>5, <2>4 DEF Resolved, Instr, Pending
  <2>6. \A b \in Compilation' : Resolved(b)'
    BY <1>5, <2>3, <2>5 DEF Resolved, This, Code
  <2>7. phase' \in {"compile", "link"}
    BY <1>7 DEF GoesOnBehind
  <2> QED
    BY <2>6, <2>7 DEF LinkInv
<1>16. TableInv'
  <2> SUFFICES ASSUME NEW a \in Words, RSPJumpTable'[a] # 0
               PROVE  a \in DOMAIN blocks'[RSPJumpTable'[a]]
                      \/ (phase' = "compile" /\ RSPJumpTable'[a] = Len(blocks')
                          /\ a = RSPCompilePC')
    BY DEF TableInv, Code
  <2>1. CASE GoesOnBehind(f) /\ a = RSPCompilePC' /\ RSPJumpTable'[a] = This
    BY <1>3, <2>1 DEF GoesOnBehind, This
  <2>2. CASE RSPJumpTable'[a] = RSPJumpTable[a]
    <3>1. RSPJumpTable[a] \in Compilation
      BY <1>1, <1>3, <2>2 DEF TypeOK, Compilation
    <3>2. a \in Code(RSPJumpTable[a]) \/ (RSPJumpTable[a] = This /\ a = PC)
      BY <1>1, <2>2 DEF TableInv, This
    <3>3. \A b \in Compilation : \A x \in Code(b) : x \in DOMAIN blocks'[b]
      BY <1>3, <1>5 DEF Code
    <3>4. PC \in DOMAIN blocks'[This]
      BY <1>3, <1>5 DEF Code
    <3> QED
      BY <2>2, <3>1, <3>2, <3>3, <3>4
  <2> QED
    BY <1>11, <2>1, <2>2
<1>17. RunInv'
  BY <1>7 DEF RunInv, GoesOnBehind
<1> QED
  BY <1>3, <1>4, <1>5, <1>12, <1>13, <1>14, <1>15, <1>16, <1>17 DEF IInv

LEMMA CompileOpcodeKeeps ==
    ASSUME IInv, CompileOpcode
    PROVE  IInv'
<1> DEFINE PC == RSPCompilePC
           f == [a \in {RSPCompilePC} |-> Compiled(a, "NORMAL")]
<1>1. /\ phase = "compile" /\ UNCHANGED <<program, mmx, BranchesToResolve, PrgCount, block, regs>>
      /\ ~IsOpcodeBranch(M[PC]) /\ Made(f)
      /\ EndBlock \/ (PC # Top /\ RSPCompilePC' = PC + 1 /\ UNCHANGED <<phase, IMEM, RSPJumpTable>>)
  BY DEF CompileOpcode
<1>2. /\ TypeOK /\ CompileInv /\ LinkInv
      /\ BranchesToResolve \in Seq(Seq(Words)) /\ BranchesToResolve # <<>>
      /\ PC \in Words /\ Words \subseteq Nat /\ Top \in Nat
  BY <1>1, RspAssumption DEF IInv, TypeOK, LinkInv, Words
<1>3. DOMAIN f = {PC} /\ f[PC].at = IMEM[PC]
  BY DEF Compiled
<1> HIDE DEF f
<1>4. M[PC] = program[IMEM[PC]]
  BY <1>2 DEF M
<1>5. ~Branch(PC)
  BY <1>1, <1>2, <1>4 DEF CompileInv, InOrder, Ordered, Branch
<1>6. ~Labelled(program, f[PC].at)
  BY <1>1, <1>3, <1>4 DEF Labelled, IsOpcodeBranch
<1>7. EndBlock \/ GoesOnBehind(f)
  <2>1. ASSUME PC # Top, RSPCompilePC' = PC + 1, UNCHANGED <<phase, IMEM, RSPJumpTable>>
        PROVE  GoesOnBehind(f)
    <3>1. PC + 1 \in Words /\ PC + 1 > PC /\ (PC + 1) - 1 = PC
      BY <1>2, <2>1 DEF Words
    <3>2. RSPCompilePC' - 1 = PC
      BY <2>1, <3>1
    <3> HIDE DEF PC
    <3> QED
      BY <1>3, <1>5, <2>1, <3>1, <3>2 DEF GoesOnBehind, PC
  <2> QED
    BY <1>1, <2>1
<1>8. \A a \in Words : Pending(a) => Awaited(BranchesToResolve', a)
  BY <1>1 DEF Pending
<1>9. /\ DOMAIN f \subseteq Words /\ PC \in DOMAIN f
      /\ \A a \in DOMAIN f : PC <= a /\ f[a].at = IMEM[a]
      /\ \A a \in DOMAIN f : Branch(a) => a + 1 \in DOMAIN f /\ SlotHarmless(f[a], f[a + 1])
      /\ \A a \in DOMAIN f : ~Labelled(program, f[a].at)
  BY <1>2, <1>3, <1>5, <1>6
<1> QED
  BY <1>1, <1>2, <1>7, <1>8, <1>9, MadeKeeps

(* A branch that may compare after its slot was told that it can.          *)
LEMMA NotSaved ==
    ASSUME NEW i, i.op \in Equals \cup Signs \cup RegImm, NEW affected,
           ~JumpOf(i, affected).saves
    PROVE  ~affected
<1> USE DEF JumpOf, Jump, Equals, Signs, RegImm
<1>1. CASE i.op \in {"BEQ", "BNE"}
  BY <1>1 DEF BEQ, BNE
<1>2. CASE i.op \in {"BLEZ", "BGTZ"}
  BY <1>2 DEF BLEZ, BGTZ
<1>3. CASE i.op \in {"BLTZ", "BGEZ", "BLTZAL", "BGEZAL"}
  BY <1>3 DEF BLTZ, BGEZ, BLTZAL, BGEZAL
<1> QED
  BY <1>1, <1>2, <1>3

LEMMA CompileBranchKeeps ==
    ASSUME IInv, CompileBranch
    PROVE  IInv'
<1> DEFINE PC == RSPCompilePC
           first == [Compiled(PC, "NORMAL") EXCEPT !.lost = Refers(M[PC]) /\ Full]
           slot == Compiled(PC + 1, "DELAY_SLOT")
           f == [a \in {PC, PC + 1} |-> IF a = PC THEN first ELSE Compiled(a, "DELAY_SLOT")]
           i == M[PC]
<1>1. /\ phase = "compile" /\ UNCHANGED <<program, mmx, PrgCount, block, regs>>
      /\ IsOpcodeBranch(i) /\ PC < Top /\ Made(f) /\ AddRef(i)
      /\ EndBlock \/ (~Ends(PC + 2) /\ RSPCompilePC' = PC + 2 /\ Section(PC + 2) /\ UNCHANGED phase)
  BY DEF CompileBranch
<1>2. /\ TypeOK /\ ProgramInv /\ CompileInv /\ LinkInv
      /\ BranchesToResolve \in Seq(Seq(Words)) /\ BranchesToResolve # <<>>
      /\ PC \in Words /\ PC + 1 \in Words /\ PC # PC + 1 /\ Words \subseteq Nat /\ Top \in Nat
  BY <1>1, RspAssumption DEF IInv, TypeOK, LinkInv, Words
<1>3. /\ DOMAIN f = {PC, PC + 1} /\ f[PC] = first /\ f[PC + 1] = slot
      /\ first.at = IMEM[PC] /\ slot.at = IMEM[PC + 1]
      /\ first.saves = Saves(PC) /\ first.lost = (Refers(i) /\ Full)
  BY <1>2 DEF Compiled
<1>4. /\ i = program[IMEM[PC]] /\ M[PC + 1] = program[IMEM[PC + 1]]
      /\ IMEM \in [Words -> Words]
      /\ \A a \in Words : IsInstruction(program[a]) /\ program[a].to \in Words
  BY <1>2 DEF M, TypeOK, ProgramInv
<1> HIDE DEF f, first, slot, i
<1>5. Branch(PC) /\ IMEM[PC] = PC /\ ~Branch(PC + 1) /\ ~Branch(IMEM[PC + 1])
  <2>1. \A a \in Words : Branch(a) \/ Branch(IMEM[a]) => IMEM[a] = a
    BY <1>1, <1>2 DEF CompileInv, InOrder, Ordered, Branch
  <2>2. Branch(IMEM[PC])
    BY <1>1, <1>4 DEF Branch
  <2>3. Branch(PC) /\ IMEM[PC] = PC
    BY <1>2, <2>1, <2>2
  <2>4. ~Branch(PC + 1)
    BY <1>2, <2>3 DEF ProgramInv
  <2> QED
    BY <1>2, <2>1, <2>3, <2>4
<1>6. SlotHarmless(first, slot)
  <2> SUFFICES ASSUME i.op \in Equals \cup Signs \cup RegImm, ~Saves(PC)
               PROVE  Reads(i) \cap Writes(M[PC + 1]) = {}
    BY <1>3, <1>4 DEF SlotHarmless
  <2>1. ~DelaySlotAffectBranch(M, PC)
    BY <1>1, NotSaved DEF Saves, i
  <2>2. M[PC + 1].op \notin Branches
    BY <1>4, <1>5 DEF Branch, IsOpcodeBranch
  <2>3. IsInstruction(M[PC]) /\ IsInstruction(M[PC + 1])
    BY <1>2, <1>4 DEF i
  <2>4. M[PC].op \in Equals \cup Signs \cup RegImm
    BY DEF i
  <2> HIDE DEF PC
  <2> QED
    BY <2>1, <2>2, <2>3, <2>4, SlotIndependent DEF i
<1>7. \A a \in DOMAIN f : Branch(a) => a + 1 \in DOMAIN f /\ SlotHarmless(f[a], f[a + 1])
  BY <1>3, <1>5, <1>6
<1>8. /\ Len(BranchesToResolve) \in Nat /\ Len(BranchesToResolve) > 0
      /\ Head(BranchesToResolve) = BranchesToResolve[1]
      /\ Head(BranchesToResolve) \in Seq(Words)
      /\ Tail(BranchesToResolve) \in Seq(Seq(Words))
      /\ Len(Tail(BranchesToResolve)) = Len(BranchesToResolve) - 1
      /\ \A n \in 1 .. Len(BranchesToResolve) - 1 :
             Tail(BranchesToResolve)[n] = BranchesToResolve[n + 1]
  BY <1>2, Popped
<1>9. i.to \in Words
  BY <1>2, <1>4
<1>10. /\ BranchesToResolve' \in Seq(Seq(Words)) /\ BranchesToResolve' # <<>>
       /\ \A a \in Words : Pending(a) => Awaited(BranchesToResolve', a)
       /\ Noted(i) /\ ~Full => Awaited(BranchesToResolve', i.to)
  <2>1. CASE Noted(i) /\ ~Full
    <3> DEFINE h == Head(BranchesToResolve)
               t == Tail(BranchesToResolve)
               new == Append(h, i.to)
    <3>1. BranchesToResolve' = <<new>> \o t
      BY <1>1, <2>1 DEF AddRef
    <3>2. /\ new \in Seq(Words) /\ Len(new) = Len(h) + 1 /\ Len(h) \in Nat
          /\ new[Len(h) + 1] = i.to
          /\ \A k \in 1 .. Len(h) : new[k] = h[k]
      BY <1>8, <1>9
    <3> HIDE DEF new
    <3>3. /\ BranchesToResolve' \in Seq(Seq(Words)) /\ BranchesToResolve' # <<>>
          /\ Len(BranchesToResolve') = Len(t) + 1
          /\ BranchesToResolve'[1] = new
          /\ \A n \in 1 .. Len(t) : BranchesToResolve'[n + 1] = t[n]
      BY <1>8, <3>1, <3>2, Pushed
    <3>4. Awaited(BranchesToResolve', i.to)
      <4>1. 1 \in 1 .. Len(BranchesToResolve') /\ Len(h) + 1 \in 1 .. Len(new)
        BY <1>8, <3>2, <3>3
      <4> QED
        BY <3>2, <3>3, <4>1 DEF Awaited
    <3>5. ASSUME NEW a, Pending(a) PROVE Awaited(BranchesToResolve', a)
      <4>1. PICK n \in 1 .. Len(BranchesToResolve) :
                \E k \in 1 .. Len(BranchesToResolve[n]) : BranchesToResolve[n][k] = a
        BY <3>5 DEF Pending, Awaited
      <4>2. PICK k \in 1 .. Len(BranchesToResolve[n]) : BranchesToResolve[n][k] = a
        BY <4>1
      <4>3. CASE n = 1
        <5>1. k \in 1 .. Len(h) /\ h[k] = a
          BY <1>8, <4>2, <4>3
        <5>2. k \in 1 .. Len(new) /\ new[k] = a /\ 1 \in 1 .. Len(BranchesToResolve')
          BY <1>8, <3>2, <3>3, <5>1
        <5> QED
          BY <3>3, <5>2 DEF Awaited
      <4>4. CASE n # 1
        <5>1. n - 1 \in 1 .. Len(t) /\ (n - 1) + 1 = n
          BY <1>8, <4>4
        <5>2. Len(BranchesToResolve') = Len(BranchesToResolve)
          BY <1>8, <3>3
        <5>3. BranchesToResolve'[n] = BranchesToResolve[n]
          <6>1. n - 1 \in 1 .. Len(BranchesToResolve) - 1
            BY <1>8, <5>1
          <6>2. t[n - 1] = BranchesToResolve[(n - 1) + 1]
            BY <1>8, <6>1
          <6>3. BranchesToResolve'[(n - 1) + 1] = t[n - 1]
            BY <3>3, <5>1
          <6> QED
            BY <5>1, <6>2, <6>3
        <5> QED
          BY <4>2, <5>2, <5>3 DEF Awaited
      <4> QED
        BY <4>3, <4>4
    <3> QED
      BY <3>3, <3>4, <3>5
  <2>2. CASE ~(Noted(i) /\ ~Full)
    <3>1. BranchesToResolve' = BranchesToResolve
      BY <1>1, <2>2 DEF AddRef
    <3> QED
      BY <1>2, <2>2, <3>1 DEF Pending
  <2> QED
    BY <2>1, <2>2
<1>11. ASSUME NEW a \in DOMAIN f, Labelled(program, f[a].at), ~Never(Instr(f[a])), ~f[a].lost
       PROVE  RSPJumpTable[Instr(f[a]).to] # 0 \/ Awaited(BranchesToResolve', Instr(f[a]).to)
  <2>1. CASE a = PC
    <3>1. Instr(f[a]) = i /\ ~(Refers(i) /\ Full)
      BY <1>3, <1>4, <1>11, <2>1 DEF Instr
    <3>2. i.op \notin RegisterJumps /\ ~Never(i)
      BY <1>3, <1>4, <1>11, <2>1, <3>1 DEF Labelled, Instr
    <3> QED
      BY <1>10, <3>1, <3>2 DEF Noted, Refers
  <2>2. CASE a = PC + 1
    BY <1>3, <1>5, <1>11, <2>2 DEF Labelled, Branch, IsOpcodeBranch
  <2> QED
    BY <1>3, <2>1, <2>2
<1>12. EndBlock \/ GoesOnBehind(f)
  <2>1. ASSUME ~Ends(PC + 2), RSPCompilePC' = PC + 2, Section(PC + 2), UNCHANGED phase
        PROVE  GoesOnBehind(f)
    <3>1. PC + 2 \in Words /\ PC + 2 > PC /\ (PC + 2) - 1 = PC + 1 /\ PC + 2 > PC + 1
      BY <1>2, <2>1 DEF Words, Ends
    <3>2. RSPCompilePC' - 1 = PC + 1
      BY <2>1, <3>1
    <3> HIDE DEF PC
    <3> QED
      BY <1>3, <1>5, <2>1, <3>1, <3>2 DEF GoesOnBehind, PC
  <2> QED
    BY <1>1, <2>1
<1>13. /\ DOMAIN f \subseteq Words /\ PC \in DOMAIN f
       /\ \A a \in DOMAIN f : PC <= a /\ f[a].at = IMEM[a]
  BY <1>2, <1>3
<1> QED
  BY <1>1, <1>7, <1>10, <1>11, <1>12, <1>13, MadeKeeps

-----------------------------------------------------------------------------
(* The steps of the code.                                                  *)

LEMMA WritersAfter ==
    ASSUME NEW r, NEW c, c.at \in Words, Writers(r.writer)
    PROVE  Writers(After(r, c).writer)
<1> DEFINE w == [g \in DOMAIN r.writer |->
                    IF GPR(g) \in Covers(Instr(c)) THEN c.at ELSE r.writer[g]]
<1>1. After(r, c).writer = w
  BY DEF After
<1>2. DOMAIN r.writer = NamedGPRs
  BY DEF Writers
<1>3. w \in [NamedGPRs -> Words \cup {None}]
  BY <1>2 DEF Writers
<1>4. ASSUME NEW g \in NamedGPRs, w[g] # None PROVE GPR(g) \in Covers(program[w[g]])
  BY <1>2, <1>4 DEF Writers, Instr
<1> QED
  BY <1>1, <1>3, <1>4 DEF Writers

LEMMA LandingKeeps ==
    ASSUME IInv, phase = "run", UNCHANGED <<program, mmx, code>>, WriterInv',
           NEW PC \in Nat, NEW inBlock, Landing(PC, inBlock)
    PROVE  IInv'
<1>1. TypeOK /\ TableInv /\ RunInv
  BY DEF IInv
<1>2. block \in Compilation /\ PrgCount \in Words
  BY <1>1 DEF RunInv, TypeOK
<1>3. CASE PC > Top
  <2>1. PrgCount' = PrgCount /\ phase' = "astray" /\ block' = block
    BY <1>3 DEF Landing
  <2> QED
    BY <1>1, <1>2, <2>1, CodeKept DEF TypeOK
<1>4. CASE ~(PC > Top)
  <2>1. PC \in Words /\ PrgCount' = PC
    BY <1>4, RspAssumption DEF Landing, Words
  <2>2. CASE inBlock /\ PC \in DOMAIN blocks[block]
    <3>1. phase' = "run" /\ block' = block
      BY <1>4, <2>2 DEF Landing
    <3> QED
      BY <1>1, <1>2, <2>1, <2>2, <3>1, CodeKept DEF TypeOK, Code
  <2>3. CASE ~(inBlock /\ PC \in DOMAIN blocks[block]) /\ RSPJumpTable[PC] = 0
    <3>1. phase' = "stopped" /\ block' = block
      BY <1>4, <2>3 DEF Landing
    <3> QED
      BY <1>1, <2>1, <3>1, CodeKept DEF TypeOK
  <2>4. CASE ~(inBlock /\ PC \in DOMAIN blocks[block]) /\ RSPJumpTable[PC] # 0
    <3>1. phase' = "run" /\ block' = RSPJumpTable[PC]
      BY <1>4, <2>4 DEF Landing
    <3>2. block' \in 0 .. Len(blocks) /\ block' # 0
      BY <1>1, <2>1, <2>4, <3>1 DEF TypeOK
    <3>3. PC \in Code(block')
      BY <1>1, <2>1, <2>4, <3>1 DEF TableInv, Code
    <3> QED
      BY <2>1, <3>1, <3>2, <3>3, CodeKept DEF Compilation
  <2> QED
    BY <2>2, <2>3, <2>4
<1> QED
  BY <1>3, <1>4

(* The code that runs is there, with the slot of a branch behind it.       *)
LEMMA Running ==
    ASSUME IInv, phase = "run"
    PROVE  /\ block \in Compilation /\ PrgCount \in Code(block) /\ PrgCount \in Words
           /\ About.at = Was(block, PrgCount) /\ About.at \in Words
           /\ SlotHarmless(About, blocks[block][PrgCount + 1])
           /\ Instr(About).op \in Branches =>
                  /\ PrgCount + 1 \in Code(block)
                  /\ blocks[block][PrgCount + 1].at \in Words
<1>1. /\ block \in Compilation /\ PrgCount \in Code(block) /\ PrgCount \in Words
      /\ BlockInv(block)
  BY DEF IInv, RunInv, TypeOK
<1>2. About.at = Was(block, PrgCount) /\ About.at \in Words
  BY <1>1 DEF About, Was, BlockInv
<1>3. SlotHarmless(About, blocks[block][PrgCount + 1])
  BY <1>1 DEF About, BlockInv
<1>4. ASSUME Instr(About).op \in Branches PROVE PrgCount + 1 \in Code(block)
  BY <1>1, <1>2, <1>4 DEF BlockInv, Branch, Instr, IsOpcodeBranch
<1>5. PrgCount + 1 \in Code(block) => blocks[block][PrgCount + 1].at \in Words
  BY <1>1 DEF BlockInv, Was
<1> QED
  BY <1>1, <1>2, <1>3, <1>4, <1>5

LEMMA RunOpcodeKeeps ==
    ASSUME IInv, RunOpcode
    PROVE  IInv'
<1>1. /\ phase = "run" /\ UNCHANGED <<program, mmx, code>>
      /\ regs' = After(regs, About) /\ Landing(PrgCount + 1, TRUE)
  BY DEF RunOpcode
<1>2. About.at \in Words /\ PrgCount + 1 \in Nat
  BY <1>1, Running, RspAssumption DEF Words
<1>3. Writers(After(regs, About).writer)
  BY <1>2, WritersAfter DEF IInv, WriterInv
<1>4. WriterInv'
  BY <1>1, <1>3 DEF WriterInv, Writers, NamedGPRs
<1> QED
  BY <1>1, <1>2, <1>4, LandingKeeps

LEMMA RunBranchKeeps ==
    ASSUME IInv, RunBranch
    PROVE  IInv'
<1> DEFINE i == Instr(About)
           slot == blocks[block][PrgCount + 1]
           linked == After(regs, About)
           after == After(linked, slot)
<1>1. /\ phase = "run" /\ i.op \in Branches /\ UNCHANGED <<program, mmx, code>>
      /\ \/ /\ regs' = [after EXCEPT !.entered = TRUE]
            /\ \E PC \in Targets(i, linked.writer) : Landing(PC, FALSE)
         \/ /\ regs' = after
            /\ Landing(PrgCount + 2, TRUE)
  BY DEF RunBranch
<1>2. /\ About.at \in Words /\ slot.at \in Words /\ PrgCount + 2 \in Nat
      /\ Words \subseteq Nat /\ Top \in Nat
  BY <1>1, Running, RspAssumption DEF Words
<1>3. Writers(linked.writer)
  BY <1>2, WritersAfter DEF IInv, WriterInv
<1> HIDE DEF linked
<1>4. Writers(after.writer)
  BY <1>2, <1>3, WritersAfter
<1>5. [after EXCEPT !.entered = TRUE].writer = after.writer
  BY DEF After
<1>6. WriterInv'
  <2>1. regs'.writer = after.writer
    BY <1>1, <1>5 DEF linked
  <2> QED
    BY <1>1, <1>4, <2>1 DEF WriterInv, Writers, NamedGPRs
<1>7. \A PC \in Targets(i, linked.writer) : PC \in Nat
  <2>1. \A a \in Words : program[a].to \in Words
    BY DEF IInv, ProgramInv
  <2>2. i.to \in Words
    BY <1>2, <2>1 DEF Instr
  <2>3. i.rs \in NamedGPRs
    BY <1>2 DEF NamedGPRs, Instr
  <2>4. linked.writer[i.rs] # None => linked.writer[i.rs] \in Nat
    BY <1>2, <1>3, <2>3 DEF Writers
  <2>5. \A a \in Nat : (a + 2) % (Top + 1) \in Nat
    BY <1>2
  <2> HIDE DEF i
  <2> QED
    BY <1>2, <2>2, <2>4, <2>5 DEF Targets
<1>8. \E PC \in Nat : \E inBlock \in BOOLEAN : Landing(PC, inBlock)
  BY <1>1, <1>2, <1>7 DEF linked
<1> QED
  BY <1>1, <1>6, <1>8, LandingKeeps

LEMMA RunBREAKKeeps ==
    ASSUME IInv, RunBREAK
    PROVE  IInv'
<1>1. /\ phase = "run" /\ phase' = "halted"
      /\ UNCHANGED <<program, mmx, code, PrgCount, block, regs>>
  BY DEF RunBREAK
<1>2. WriterInv' /\ PrgCount \in Words /\ block \in 0 .. Len(blocks)
  BY <1>1, ProgramKept DEF IInv, TypeOK
<1> QED
  BY <1>1, <1>2, CodeKept

LEMMA StutterKeeps ==
    ASSUME IInv, UNCHANGED vars
    PROVE  IInv'
<1>1. UNCHANGED <<program, mmx, phase, IMEM, RSPCompilePC, RSPJumpTable, blocks,
                  BranchesToResolve, PrgCount, block, regs>>
  BY DEF vars, code
<1>2. /\ TypeOK /\ BlocksInv /\ ProgramInv /\ CompileInv /\ LinkInv /\ TableInv /\ RunInv
      /\ WriterInv /\ \A b \in Compilation : BlockInv(b)
  BY DEF IInv
<1>3. TypeOK' /\ BlocksInv' /\ ProgramInv' /\ WriterInv'
  BY <1>1, <1>2, ProgramKept DEF TypeOK, BlocksInv, Compilation
<1>4. CompileInv'
  BY <1>1, <1>2 DEF CompileInv, InOrder, SlotsStay, Truncated, Branch, Code, This, Was
<1>5. LinkInv'
  <2>1. ASSUME NEW b \in Compilation PROVE Resolved(b)'
    BY <1>1, <1>2, StillResolved DEF LinkInv, TargetsStay, Pending
  <2> QED
    BY <1>1, <1>2, <2>1 DEF LinkInv, Compilation
<1>6. TableInv' /\ RunInv'
  BY <1>1, <1>2 DEF TableInv, RunInv, Code, Compilation
<1>7. \A b \in Compilation' : BlockInv(b)'
  BY <1>1, <1>2, SameBlock DEF Compilation
<1> QED
  BY <1>3, <1>4, <1>5, <1>6, <1>7 DEF IInv

-----------------------------------------------------------------------------
LEMMA InitKeeps ==
    ASSUME Init
    PROVE  IInv
<1>1. PICK p \in Programs : program = [a \in Words |-> p[a + 1]]
  BY DEF Init
<1>2. /\ Len(p) = Top + 1 /\ p \in Seq({p[k] : k \in DOMAIN p})
      /\ \A k \in 1..Top + 1 : IsInstruction(p[k]) /\ p[k].to \in Words
      /\ \A k \in 1..Top + 1 : IsOpcodeBranch(p[k]) => k <= Top /\ ~IsOpcodeBranch(p[k + 1])
  BY RspRecompilerAssumption DEF IsProgram
<1>3. Top \in Nat /\ \A a \in Words : a \in Nat /\ a + 1 \in 1..Top + 1
  BY RspAssumption DEF Words
<1>4. ProgramInv
  <2>1. program \in [Words -> {program[a] : a \in Words}]
    BY <1>1
  <2>2. \A a \in Words : IsInstruction(program[a]) /\ program[a].to \in Words
    BY <1>1, <1>2, <1>3
  <2>3. ASSUME NEW a \in Words, IsOpcodeBranch(program[a])
        PROVE  a < Top /\ ~IsOpcodeBranch(program[a + 1])
    <3>1. a + 1 <= Top /\ ~IsOpcodeBranch(p[(a + 1) + 1])
      BY <1>1, <1>2, <1>3, <2>3
    <3>2. a + 1 \in Words
      BY <1>3, <3>1 DEF Words
    <3> QED
      BY <1>1, <1>3, <3>1, <3>2
  <2> QED
    BY <2>1, <2>2, <2>3 DEF ProgramInv, Branch
<1>5. /\ phase = "stopped" /\ blocks = <<>> /\ BranchesToResolve = <<>>
      /\ RSPJumpTable = [a \in Words |-> 0] /\ IMEM = Here /\ RSPCompilePC = 0
      /\ PrgCount = 0 /\ block = 0 /\ mmx \in BOOLEAN
      /\ regs.writer = [r \in NamedGPRs |-> None]
  BY DEF Init
<1>6. Len(blocks) = 0 /\ Compilation = {}
  BY <1>5 DEF Compilation
<1>7. TypeOK
  <2>1. 0 \in Words
    BY <1>3 DEF Words
  <2>2. BranchesToResolve \in Seq(Seq(Words))
    BY <1>5
  <2> QED
    BY <1>5, <1>6, <2>1, <2>2 DEF TypeOK, Here, Compilation
<1>8. BlocksInv
  BY <1>5 DEF BlocksInv
<1>9. CompileInv /\ RunInv /\ TableInv
  BY <1>5 DEF CompileInv, RunInv, TableInv
<1>10. LinkInv
  BY <1>5, <1>6 DEF LinkInv
<1>11. WriterInv
  BY <1>5 DEF WriterInv, Writers
<1> QED
  BY <1>4, <1>6, <1>7, <1>8, <1>9, <1>10, <1>11 DEF IInv

LEMMA NextKeeps ==
    ASSUME IInv, [Next]_vars
    PROVE  IInv'
<1>1. CASE RunRecompilerCPU
  BY <1>1, RunRecompilerCPUKeeps
<1>2. CASE LinkBranches
  BY <1>2, LinkBranchesKeeps
<1>3. CASE CompileLabel
  BY <1>3, CompileLabelKeeps
<1>4. CASE CompileOpcode
  BY <1>4, CompileOpcodeKeeps
<1>5. CASE CompileBranch
  BY <1>5, CompileBranchKeeps
<1>6. CASE Hang
  BY <1>6, HangKeeps
<1>7. CASE RunOpcode
  BY <1>7, RunOpcodeKeeps
<1>8. CASE RunBranch
  BY <1>8, RunBranchKeeps
<1>9. CASE RunBREAK
  BY <1>9, RunBREAKKeeps
<1>10. CASE Ended \/ UNCHANGED vars
  BY <1>10, StutterKeeps DEF Ended
<1> QED
  BY <1>1, <1>2, <1>3, <1>4, <1>5, <1>6, <1>7, <1>8, <1>9, <1>10 DEF Next

(* The state of the recompiler, whatever the memory holds: the orders that *)
(* the sort leads to, what each block has been made of and what is still to *)
(* be resolved.                                                            *)
THEOREM RecompilerInvariant == Spec => []IInv
<1>1. Init => IInv
  BY InitKeeps
<1>2. IInv /\ [Next]_vars => IInv'
  BY NextKeeps
<1> QED
  BY <1>1, <1>2, PTL DEF Spec

-----------------------------------------------------------------------------
(* Whatever the program, what runs has been compiled, and each jump in it  *)
(* leads to code for its target unless RSPBranch_AddRef had no room for it: *)
(* a target that has none yet waits in BranchesToResolve, which is empty   *)
(* before anything runs.                                                   *)
THEOREM EveryJumpIsLinked == Spec => []LinkedEverywhere
<1>1. IInv => LinkedEverywhere
  <2> SUFFICES ASSUME IInv, phase = "run", NEW b \in Compilation, NEW a \in Code(b),
                      Labelled(program, Was(b, a)), ~Never(Instr(blocks[b][a])),
                      ~blocks[b][a].lost
               PROVE  LET to == Instr(blocks[b][a]).to
                      IN  RSPJumpTable[to] # 0 /\ to \in DOMAIN blocks[RSPJumpTable[to]]
    BY DEF IInv, LinkedEverywhere, Code, Was
  <2> DEFINE to == Instr(blocks[b][a]).to
  <2>1. /\ BranchesToResolve = <<>> /\ Resolved(b) /\ BlockInv(b) /\ TableInv
        /\ \A x \in Words : program[x].to \in Words
    BY DEF IInv, LinkInv, ProgramInv
  <2>2. ~Pending(to)
    BY <2>1 DEF Pending, Awaited
  <2>3. RSPJumpTable[to] # 0
    BY <2>1, <2>2 DEF Resolved, Was
  <2>4. to \in Words
    BY <2>1 DEF BlockInv, Was, Instr
  <2> QED
    BY <2>1, <2>3, <2>4 DEF TableInv, Code
<1> QED
  BY <1>1, RecompilerInvariant, PTL

(* A branch that compares after its slot compares what the slot left alone, *)
(* for all registers and in every program.                                 *)
THEOREM EverySlotIsNoticed == Spec => []SlotNoticed
<1>1. IInv => SlotNoticed
  BY Running DEF SlotNoticed, SlotHarmless, Instr
<1> QED
  BY <1>1, RecompilerInvariant, PTL

(* Who writes a general register is an instruction that IsRegisterConstant *)
(* looks for, or a call.                                                   *)
LEMMA WriterAssigns ==
    ASSUME NEW i, IsInstruction(i), NEW r, GPR(r) \in Covers(i)
    PROVE  r # 0 /\ (Assigns(i, r) \/ i.op \in Links)
<1> USE Distinct DEF Reads, Covers, Effect
<1>1. CASE i.op \in Branches
  <2>1. EffectOf(i) = OfBranch(i)
    BY <1>1, GroupEffect
  <2>2. OfBranch(i).covers \subseteq {GPR(i.rd), GPR(Link)} \ {GPR(0)}
    BY DEF OfBranch
  <2>3. i.op \notin Links => OfBranch(i).covers = {}
    BY DEF OfBranch, Links
  <2> QED
    BY <2>1, <2>2, <2>3
<1>2. CASE i.op \notin Branches
  <2> USE DEF Shifts, Arithmetic, Immediates, Loads, Stores
  <2>1. i.op \in Scalar /\ EffectOf(i) = ScalarEffect(i)
    BY <1>2, WrittenIsNoted, GroupEffect DEF Writes
  <2>2. CASE i.op \in Shifts \cup Arithmetic
    <3>1. ScalarEffect(i) \in {OfShift(i), OfArithmetic(i)}
      BY <2>2 DEF ScalarEffect
    <3>2. r = i.rd /\ r # 0
      BY <2>1, <3>1 DEF OfShift, OfArithmetic
    <3> QED
      BY <2>2, <3>2 DEF Assigns
  <2>3. CASE i.op \in Immediates \cup Loads \cup {"LUI", "MFC0", "CF", "MF"}
    <3>1. ScalarEffect(i) \in {OfImmediate(i), OfLoad(i), OfLUI(i), OfMFC0(i), OfCF(i), OfMF(i)}
      BY <2>3 DEF ScalarEffect
    <3>2. r = i.rt /\ r # 0
      BY <2>1, <3>1 DEF OfImmediate, OfLoad, OfLUI, OfMFC0, OfCF, OfMF
    <3> QED
      BY <2>3, <3>2 DEF Assigns
  <2>4. CASE i.op \in Stores \cup {"MTC0", "BREAK", "MT", "CT"}
    <3>1. ScalarEffect(i) \in {OfStore(i), OfMTC0(i), OfBREAK, OfMT(i), OfCT(i)}
      BY <2>4 DEF ScalarEffect
    <3>2. \A x : GPR(x) \notin {FlagOf(i.rd)}
      BY DEF FlagOf, Flags, GPR
    <3> QED
      BY <2>1, <3>1, <3>2 DEF OfStore, OfMTC0, OfBREAK, OfMT, OfCT
  <2> QED
    BY <2>1, <2>2, <2>3, <2>4 DEF Scalar
<1> QED
  BY <1>1, <1>2

(* A register that the code takes for a constant holds that constant in     *)
(* every program once the instruction that defines it has run, but for the *)
(* links: no other instruction writes it.                                  *)
THEOREM ConstantsAreHeld == Spec => []ConstantsHold
<1>1. IInv => ConstantsHold
  <2> SUFFICES ASSUME IInv, phase = "run", NEW c \in Executing,
                      Instr(c).rs \in DetectGPRConstants(program, {Instr(c).rs}),
                      regs.writer[Instr(c).rs] # None
               PROVE  LET base == Instr(c).rs
                          a == regs.writer[base]
                      IN  Defines(program[a], base) \/ program[a].op \in Links
    BY DEF ConstantsHold
  <2> DEFINE base == Instr(c).rs
             a == regs.writer[base]
  <2>1. c.at \in Words
    BY Running DEF Executing
  <2>2. base \in NamedGPRs
    BY <2>1 DEF NamedGPRs, Instr
  <2>3. a \in Words /\ GPR(base) \in Covers(program[a])
    BY <2>2 DEF IInv, WriterInv, Writers
  <2>4. IsInstruction(program[a])
    BY <2>3 DEF IInv, ProgramInv
  <2>5. base = 0 \/ IsRegisterConstant(base, program)
    BY DEF DetectGPRConstants
  <2> HIDE DEF base, a
  <2>6. base # 0 /\ (Assigns(program[a], base) \/ program[a].op \in Links)
    BY <2>3, <2>4, WriterAssigns
  <2>7. Assigns(program[a], base) => Defines(program[a], base)
    BY <2>3, <2>5, <2>6 DEF IsRegisterConstant
  <2> QED
    BY <2>6, <2>7 DEF base, a
<1> QED
  BY <1>1, RecompilerInvariant, PTL

(* However long a section is and however often the sort goes over it, two  *)
(* instructions whose order shows stand in the code in the order of the    *)
(* program, but for those that CompareInstructions overlooks: what has     *)
(* changed places has been compared with each that it passed.              *)
THEOREM OrderIsKept == Spec => []OrderKept
<1>1. IInv => OrderKept
  <2> SUFFICES ASSUME IInv, NEW b \in Compilation, NEW above \in Code(b), NEW below \in Code(b),
                      above < below, Was(b, above) > Was(b, below),
                      ~Overlooked(program[Was(b, below)], program[Was(b, above)])
               PROVE  ~Conflict(program[Was(b, below)], program[Was(b, above)])
    BY DEF OrderKept, Code
  <2> DEFINE first == program[Was(b, below)]
             second == program[Was(b, above)]
  <2>1. BlockInv(b) /\ ProgramInv
    BY DEF IInv
  <2>2. IsInstruction(first) /\ IsInstruction(second)
    BY <2>1 DEF BlockInv, ProgramInv
  <2>3. CompareInstructions(first, second)
    BY <2>1 DEF BlockInv
  <2> QED
    BY <2>2, <2>3, ExchangedIndependent
<1> QED
  BY <1>1, RecompilerInvariant, PTL

LEMMA LowAndHigh ==
    ASSUME NEW a \in Nat, NEW b \in Nat
    PROVE  /\ Min({a, b}) = IF a <= b THEN a ELSE b
           /\ Max({a, b}) = IF a <= b THEN b ELSE a
BY DEF Min, Max

(* No instruction leaves its stretch between two recorded labels or two    *)
(* branches, and a slot stays behind its branch where all labels were      *)
(* recorded, in a memory of any length.                                    *)
THEOREM SectionsAreKept == Spec => []SectionsKept
<1>1. IInv => SectionsKept
  <2> SUFFICES ASSUME IInv, NEW b \in Compilation, NEW a \in Code(b),
                      NEW k \in Min({a, Was(b, a)}) .. Max({a, Was(b, a)}) - 1
               PROVE  /\ k + 1 \notin BranchLabels(program)
                      /\ ~IsOpcodeBranch(program[k])
                      /\ ~IsOpcodeBranch(program[k + 1])
                      /\ ~Truncated /\ k > 0 /\ k - 1 \in Code(b) =>
                             ~IsOpcodeBranch(program[k - 1])
    BY DEF SectionsKept, Code
  <2>1. BlockInv(b) /\ Words \subseteq Nat /\ Top \in Nat
    BY RspAssumption DEF IInv, Words
  <2>2. a \in Words /\ Was(b, a) \in Words
    BY <2>1 DEF BlockInv
  <2>3. k \in Words /\ Between(k, a, Was(b, a))
    <3> DEFINE w == Was(b, a)
    <3>1. a \in Nat /\ w \in Nat /\ a <= Top /\ w <= Top
      BY <2>1, <2>2 DEF Words
    <3>2. /\ Min({a, w}) = IF a <= w THEN a ELSE w
          /\ Max({a, w}) = IF a <= w THEN w ELSE a
      BY <3>1, LowAndHigh
    <3>3. k \in (IF a <= w THEN a .. w - 1 ELSE w .. a - 1)
      BY <3>2
    <3> HIDE DEF w
    <3> QED
      BY <2>1, <3>1, <3>3 DEF Between, Words, w
  <2>4. /\ Joined(program, k)
        /\ ~Truncated /\ k > 0 /\ Branch(k - 1) => k - 1 \notin Code(b)
    BY <2>1, <2>3 DEF BlockInv
  <2> QED
    BY <2>4 DEF Joined, Branch
<1> QED
  BY <1>1, RecompilerInvariant, PTL

-----------------------------------------------------------------------------
(* The scans.  A walk is bounded by the words that are left to it: those to    *)
(* the top, those after the jump that it has not followed yet, and those on    *)
(* either side of the branch that it has not come to yet.                     *)

Sensible(w) == w \in Walks /\ (w.JumpUncond => w.JumpTarget # 0)
MayJump(w) == w.JumpTarget = 0 \/ w.JumpUncond
Ahead(w) ==
    (Top - w.pc) + (IF MayJump(w) THEN Top + 1 ELSE 0)
    + (IF w.nested THEN 0 ELSE 2 * (Top + 1))

(* A memory whose jumps all go to another word than 0. *)
NoJumpToStart(P) ==
    \A a \in Words : P[a].to \in Words /\ (P[a].op \in Jumps => P[a].to # 0)

At(P, w) == Met([w EXCEPT !.pc = w.pc + 1], P[w.pc + 1])

LEMMA MetKeeps ==
    ASSUME NEW P, \A a \in Words : P[a].to \in Words,
           NEW w \in Walks, w.pc < Top
    PROVE  /\ At(P, w) \in Walks
           /\ At(P, w).pc = w.pc + 1 /\ At(P, w).nested = w.nested
           /\ NoJumpToStart(P) /\ Sensible(w) =>
                  Sensible(At(P, w)) /\ (MayJump(At(P, w)) => MayJump(w))
<1> DEFINE i == P[w.pc + 1]
           u == [w EXCEPT !.pc = w.pc + 1]
<1>1. /\ w.pc \in -1 .. Top /\ w.JumpTarget \in Words /\ w.BranchTarget \in Words
      /\ w.JumpUncond \in BOOLEAN /\ w.nested \in BOOLEAN /\ w.backward \in BOOLEAN
      /\ w.state \in {"NORMAL", "DO_DELAY_SLOT", "DELAY_SLOT", "FINISH_BLOCK"}
  BY DEF Walks
<1>2. w.pc + 1 \in Words /\ w.pc + 1 \in -1 .. Top
  BY <1>1, RspAssumption DEF Words
<1>3. /\ u \in Walks /\ u.pc = w.pc + 1 /\ u.nested = w.nested
      /\ u.JumpTarget = w.JumpTarget /\ u.JumpUncond = w.JumpUncond
  BY <1>2 DEF Walks
<1>4. i.to \in Words /\ (NoJumpToStart(P) => (i.op \in Jumps => i.to # 0))
  BY <1>2 DEF NoJumpToStart
<1> HIDE DEF i, u
<1>5. At(P, w) = Met(u, i)
  BY DEF At, i, u
<1>6. CASE i.op \in Jumps /\ FollowsJump(u)
  <2> DEFINE m == [u EXCEPT !.state = "DO_DELAY_SLOT", !.JumpUncond = TRUE, !.JumpTarget = i.to]
  <2>0. i.op \notin Equals \cup Signs /\ i.op \notin RegImm \cup RegisterJumps
    BY <1>6 DEF Jumps, Equals, Signs, RegImm, RegisterJumps
  <2>1. Met(u, i) = m
    BY <1>6, <2>0, Zenon DEF Met
  <2>2. m \in Walks /\ m.pc = u.pc /\ m.nested = u.nested /\ m.JumpTarget = i.to
    BY <1>3, <1>4 DEF Walks
  <2>3. MayJump(w)
    BY <1>3, <1>6 DEF FollowsJump, MayJump
  <2> HIDE DEF m
  <2> QED
    BY <1>3, <1>4, <1>5, <1>6, <2>1, <2>2, <2>3 DEF Sensible
<1>7. CASE ~(i.op \in Jumps /\ FollowsJump(u))
  <2>1. \/ Met(u, i) = [u EXCEPT !.state = "DO_DELAY_SLOT"]
        \/ Met(u, i) = [u EXCEPT !.state = "DO_DELAY_SLOT", !.BranchTarget = i.to,
                                 !.backward = i.to <= u.pc]
        \/ Met(u, i) = u
    BY <1>7 DEF Met
  <2>2. PICK back \in BOOLEAN : back = (i.to <= u.pc)
    <3>1. (i.to <= u.pc) \in BOOLEAN
      OBVIOUS
    <3> QED
      BY <3>1, Zenon
  <2> DEFINE a == [u EXCEPT !.state = "DO_DELAY_SLOT"]
             b == [u EXCEPT !.state = "DO_DELAY_SLOT", !.BranchTarget = i.to,
                            !.backward = back]
             Same(m) == /\ m \in Walks /\ m.pc = u.pc /\ m.nested = u.nested
                        /\ m.JumpTarget = u.JumpTarget /\ m.JumpUncond = u.JumpUncond
  <2>3. Same(a)
    BY <1>3 DEF Walks
  <2>4. Same(b)
    BY <1>3, <1>4 DEF Walks
  <2>5. Same(Met(u, i))
    <3> HIDE DEF Same
    <3>1. Same(u)
      BY <1>3 DEF Same
    <3>2. Met(u, i) \in {a, b, u}
      BY <2>1, <2>2, Zenon
    <3> HIDE DEF a, b
    <3> QED
      BY <2>3, <2>4, <3>1, <3>2
  <2> QED
    BY <1>3, <1>5, <2>5 DEF Sensible, MayJump
<1> QED
  BY <1>6, <1>7

(* A walk goes on with less ahead of it. *)
LEMMA AdvancedOn ==
    ASSUME NEW P, \A a \in Words : P[a].to \in Words,
           NEW w \in Walks, w.pc < Top
    PROVE  LET next == Advanced(At(P, w))
           IN  /\ next \in Walks
               /\ next.state = "FINISH_BLOCK" => next.pc = w.pc + 1 /\ next.nested = w.nested
               /\ NoJumpToStart(P) /\ Sensible(w) /\ next.state # "FINISH_BLOCK" =>
                      Sensible(next) /\ Ahead(next) < Ahead(w)
<1> DEFINE m == At(P, w)
<1>1. /\ m \in Walks /\ m.pc = w.pc + 1 /\ m.nested = w.nested
      /\ NoJumpToStart(P) /\ Sensible(w) =>
             Sensible(m) /\ (MayJump(m) => MayJump(w))
  BY MetKeeps
<1> HIDE DEF m
<1>2. /\ m.pc \in -1 .. Top /\ m.JumpTarget \in Words /\ m.BranchTarget \in Words
      /\ m.JumpUncond \in BOOLEAN /\ m.nested \in BOOLEAN /\ m.backward \in BOOLEAN
      /\ m.state \in {"NORMAL", "DO_DELAY_SLOT", "DELAY_SLOT", "FINISH_BLOCK"}
  BY <1>1 DEF Walks
<1>3. Top \in Nat /\ w.pc \in Int
  BY RspAssumption DEF Walks
<1>4. CASE m.state = "NORMAL"
  <2>1. Advanced(m) = m
    BY <1>4 DEF Advanced
  <2>2. (MayJump(m) => MayJump(w)) => Ahead(m) < Ahead(w)
    BY <1>1, <1>2, <1>3 DEF Ahead
  <2> QED
    BY <1>1, <1>4, <2>1, <2>2 DEF m
<1>5. CASE m.state = "DO_DELAY_SLOT"
  <2> DEFINE n == [m EXCEPT !.state = "DELAY_SLOT"]
  <2>1. Advanced(m) = n
    BY <1>5 DEF Advanced
  <2>2. /\ n \in Walks /\ n.pc = m.pc /\ n.nested = m.nested /\ n.state = "DELAY_SLOT"
        /\ n.JumpTarget = m.JumpTarget /\ n.JumpUncond = m.JumpUncond
    BY <1>1 DEF Walks
  <2> HIDE DEF n
  <2>3. (MayJump(m) => MayJump(w)) => Ahead(n) < Ahead(w)
    BY <1>1, <1>2, <1>3, <2>2 DEF Ahead, MayJump
  <2>4. Sensible(m) => Sensible(n)
    BY <2>2 DEF Sensible
  <2> QED
    BY <1>1, <2>1, <2>2, <2>3, <2>4 DEF m
<1>6. CASE m.state = "DELAY_SLOT" /\ m.JumpUncond
  <2> DEFINE n == [m EXCEPT !.pc = m.JumpTarget - 1, !.state = "NORMAL", !.JumpUncond = FALSE]
  <2>1. Advanced(m) = n
    BY <1>6 DEF Advanced
  <2>2. m.JumpTarget - 1 \in -1 .. Top
    BY <1>2, <1>3 DEF Words
  <2>3. /\ n \in Walks /\ n.pc = m.JumpTarget - 1 /\ n.nested = m.nested /\ n.state = "NORMAL"
        /\ n.JumpTarget = m.JumpTarget /\ n.JumpUncond = FALSE
    BY <1>1, <2>2 DEF Walks
  <2> HIDE DEF n
  <2>4. Sensible(m) => Sensible(n) /\ ~MayJump(n) /\ n.pc >= 0 /\ n.pc \in Int
    BY <1>2, <1>3, <1>6, <2>2, <2>3 DEF Sensible, MayJump, Words
  <2>5. MayJump(m)
    BY <1>6 DEF MayJump
  <2>6. Sensible(m) /\ MayJump(w) => Ahead(n) < Ahead(w)
    BY <1>1, <1>2, <1>3, <2>3, <2>4 DEF Ahead
  <2> QED
    BY <1>1, <2>1, <2>3, <2>4, <2>5, <2>6 DEF m
<1>7. CASE m.state = "FINISH_BLOCK" \/ (m.state = "DELAY_SLOT" /\ ~m.JumpUncond)
  <2> DEFINE n == [m EXCEPT !.state = "FINISH_BLOCK"]
  <2>1. Advanced(m) = n
    BY <1>7 DEF Advanced
  <2>2. n \in Walks /\ n.pc = m.pc /\ n.nested = m.nested /\ n.state = "FINISH_BLOCK"
    BY <1>1 DEF Walks
  <2> HIDE DEF n
  <2> QED
    BY <1>1, <2>1, <2>2 DEF m
<1> QED
  BY <1>2, <1>4, <1>5, <1>6, <1>7

(* What a scan of n steps answers, where f has the answers of one of n - 1.  *)
Verdicts == {Unused, Used, GoesOn}
Answers == {Unused, Used, HitBranch, GoesOn, Endless}
Step(V, P, n, f, w) ==
    LET next == Advanced(At(P, w))
    IN  IF w.pc + 1 > Top THEN Used
        ELSE IF V[w.pc + 1] # GoesOn THEN V[w.pc + 1]
        ELSE IF n = 0 THEN Endless
        ELSE IF next.state # "FINISH_BLOCK" THEN f[next]
        ELSE IF next.BranchTarget = 0 \/ next.nested THEN HitBranch
        ELSE Weighed(next, f[Walk(next.BranchTarget - 1, TRUE)], f[Walk(next.pc, TRUE)])
Scanned(V, P, g) ==
    [n \in 0 .. MaxSteps |-> [w \in Walks |-> Step(V, P, n, g[n - 1], w)]]

LEMMA NewWalk ==
    ASSUME NEW pc \in -1 .. Top, NEW nested \in BOOLEAN
    PROVE  /\ Walk(pc, nested) \in Walks /\ Sensible(Walk(pc, nested))
           /\ Walk(pc, nested).pc = pc /\ Walk(pc, nested).nested = nested
           /\ MayJump(Walk(pc, nested))
<1>1. 0 \in Words
  BY RspAssumption DEF Words
<1>2. /\ Walk(pc, nested) \in Walks
      /\ Walk(pc, nested).pc = pc /\ Walk(pc, nested).nested = nested
      /\ Walk(pc, nested).JumpTarget = 0 /\ Walk(pc, nested).JumpUncond = FALSE
  BY <1>1 DEF Walk, Walks
<1> QED
  BY <1>2 DEF Sensible, MayJump

LEMMA WeighedIs ==
    ASSUME NEW w, NEW taken \in Answers, NEW fall \in Answers
    PROVE  /\ Weighed(w, taken, fall) \in Answers
           /\ taken # Endless /\ fall # Endless => Weighed(w, taken, fall) # Endless
<1> USE DEF Answers, Unused, Used, HitBranch, GoesOn, Endless
<1>1. CASE w.backward
  BY <1>1 DEF Weighed
<1>2. CASE ~w.backward
  BY <1>2 DEF Weighed
<1> QED
  BY <1>1, <1>2

(* Where a walk that has met the end of a block goes on. *)
LEMMA BothWays ==
    ASSUME NEW P, \A a \in Words : P[a].to \in Words, NEW w \in Walks, w.pc < Top,
           Advanced(At(P, w)).state = "FINISH_BLOCK",
           Advanced(At(P, w)).BranchTarget # 0, ~Advanced(At(P, w)).nested
    PROVE  LET next == Advanced(At(P, w))
           IN  \A pc \in {next.BranchTarget - 1, next.pc} :
                   /\ Walk(pc, TRUE) \in Walks /\ Sensible(Walk(pc, TRUE))
                   /\ Ahead(Walk(pc, TRUE)) < Ahead(w)
<1> DEFINE next == Advanced(At(P, w))
<1>1. next \in Walks /\ next.pc = w.pc + 1 /\ next.nested = w.nested
  BY AdvancedOn
<1>2. next.BranchTarget # 0 /\ ~next.nested
  OBVIOUS
<1> HIDE DEF next
<1>3. Top \in Nat /\ w.pc \in -1 .. Top /\ next.BranchTarget \in Words
  BY <1>1, RspAssumption DEF Walks
<1>4. ASSUME NEW pc \in {next.BranchTarget - 1, next.pc}
      PROVE  /\ Walk(pc, TRUE) \in Walks /\ Sensible(Walk(pc, TRUE))
             /\ Ahead(Walk(pc, TRUE)) < Ahead(w)
  <2>1. pc \in 0 .. Top /\ pc \in -1 .. Top
    BY <1>1, <1>2, <1>3 DEF Words
  <2>2. /\ Walk(pc, TRUE) \in Walks /\ Sensible(Walk(pc, TRUE))
        /\ Walk(pc, TRUE).pc = pc /\ Walk(pc, TRUE).nested = TRUE /\ MayJump(Walk(pc, TRUE))
    BY <2>1, NewWalk
  <2>3. Ahead(Walk(pc, TRUE)) = (Top - pc) + (Top + 1)
    <3> DEFINE u == Walk(pc, TRUE)
    <3>1. u.pc = pc /\ u.nested /\ MayJump(u)
      BY <2>2, Zenon
    <3> HIDE DEF u
    <3>2. Ahead(u) = (Top - u.pc) + (Top + 1) + 0
      BY <3>1 DEF Ahead
    <3>3. Ahead(u) = (Top - pc) + (Top + 1)
      BY <1>3, <2>1, <3>1, <3>2
    <3> QED
      BY <3>3, Zenon DEF u
  <2>4. Ahead(w) >= (Top - w.pc) + 2 * (Top + 1) /\ w.pc + 1 <= Top
    <3>1. ~w.nested
      BY <1>1, <1>2
    <3> QED
      BY <1>3, <3>1 DEF Ahead
  <2>5. (Top - pc) + (Top + 1) < (Top - w.pc) + 2 * (Top + 1)
    BY <1>3, <2>1, <2>4
  <2>6. Ahead(w) \in Int
    BY <1>3 DEF Ahead
  <2>7. Ahead(Walk(pc, TRUE)) < Ahead(w)
    <3> DEFINE u == Ahead(Walk(pc, TRUE))
    <3>1. u = (Top - pc) + (Top + 1)
      BY <2>3, Zenon
    <3> HIDE DEF u
    <3>2. u < Ahead(w)
      BY <1>3, <2>1, <2>4, <2>5, <2>6, <3>1
    <3> QED
      BY <3>2, Zenon DEF u
  <2> QED
    BY <2>2, <2>7
<1> QED
  BY <1>4 DEF next

LEMMA StepIs ==
    ASSUME NEW V \in [Words -> Verdicts], NEW P, \A a \in Words : P[a].to \in Words,
           NEW n, NEW f \in [Walks -> Answers], NEW w \in Walks
    PROVE  Step(V, P, n, f, w) \in Answers
<1> DEFINE next == Advanced(At(P, w))
<1>1. Top \in Nat /\ w.pc \in -1 .. Top
  BY RspAssumption DEF Walks
<1>2. CASE w.pc + 1 > Top
  BY <1>2 DEF Step, Answers
<1>3. CASE ~(w.pc + 1 > Top)
  <2>1. w.pc + 1 \in Words /\ w.pc < Top
    BY <1>1, <1>3 DEF Words
  <2>2. V[w.pc + 1] \in Answers
    BY <2>1 DEF Verdicts, Answers
  <2>3. next \in Walks
    BY <2>1, AdvancedOn
  <2>4. f[next] \in Answers
    BY <2>3
  <2>5. Endless \in Answers /\ HitBranch \in Answers
    BY DEF Answers
  <2>6. ASSUME next.state = "FINISH_BLOCK", next.BranchTarget # 0, ~next.nested
        PROVE  Weighed(next, f[Walk(next.BranchTarget - 1, TRUE)], f[Walk(next.pc, TRUE)]) \in Answers
    <3>1. Walk(next.BranchTarget - 1, TRUE) \in Walks /\ Walk(next.pc, TRUE) \in Walks
      BY <2>1, <2>6, BothWays
    <3> HIDE DEF next
    <3> QED
      BY <3>1, WeighedIs
  <2>7. Step(V, P, n, f, w) =
            IF V[w.pc + 1] # GoesOn THEN V[w.pc + 1]
            ELSE IF n = 0 THEN Endless
            ELSE IF next.state # "FINISH_BLOCK" THEN f[next]
            ELSE IF next.BranchTarget = 0 \/ next.nested THEN HitBranch
            ELSE Weighed(next, f[Walk(next.BranchTarget - 1, TRUE)], f[Walk(next.pc, TRUE)])
    BY <1>3, Zenon DEF Step
  <2> HIDE DEF next
  <2> QED
    BY <2>2, <2>4, <2>5, <2>6, <2>7
<1> QED
  BY <1>2, <1>3

(* The scan is a function that is what its definition says.               *)
LEMMA ScanIs ==
    ASSUME NEW V \in [Words -> Verdicts], NEW P, \A a \in Words : P[a].to \in Words
    PROVE  /\ Scan(V, P) \in [0 .. MaxSteps -> [Walks -> Answers]]
           /\ \A n \in 0 .. MaxSteps, w \in Walks :
                  Scan(V, P)[n][w] = Step(V, P, n, Scan(V, P)[n - 1], w)
<1> DEFINE Fs == [Walks -> Answers]
           none == [w \in Walks |-> Endless]
           base == [w \in Walks |-> Step(V, P, 0, none, w)]
           F == [n \in Nat |-> [f \in Fs |-> [w \in Walks |-> Step(V, P, n, f, w)]]]
           c == CHOOSE g : g = Scanned(V, P, g)
<1>1. Top \in Nat /\ MaxSteps \in Nat /\ 0 \in Nat
  BY RspAssumption DEF MaxSteps
<1>2. none \in Fs
  BY DEF Answers
<1>3. base \in Fs
  <2> HIDE DEF none
  <2> QED
    BY <1>2, StepIs
<1>4. F \in [Nat -> [Fs -> Fs]]
  <2>1. \A n \in Nat, f \in Fs : [w \in Walks |-> Step(V, P, n, f, w)] \in Fs
    BY StepIs
  <2> HIDE DEF Fs
  <2> QED
    BY <2>1
<1>5. \A n \in Nat, f \in Fs : F[n][f] = [w \in Walks |-> Step(V, P, n, f, w)]
  OBVIOUS
<1> HIDE DEF Fs, base, F
<1>6. Iterates(base, F, Fs, 0, MaxSteps)
  BY <1>1, <1>3, <1>4, Iteration
<1>7. PICK g \in [0 .. MaxSteps -> Fs] :
          \A n \in 0 .. MaxSteps : g[n] = IF n = 0 THEN base ELSE F[n][g[n - 1]]
  BY <1>6 DEF Iterates
<1>8. \A n \in 0 .. MaxSteps : g[n] = [w \in Walks |-> Step(V, P, n, g[n - 1], w)]
  <2> TAKE n \in 0 .. MaxSteps
  <2>1. CASE n = 0
    <3>1. \A w \in Walks : Step(V, P, 0, none, w) = Step(V, P, n, g[n - 1], w)
      <4> HIDE DEF none
      <4> TAKE w \in Walks
      <4> QED
        BY <2>1, Zenon DEF Step
    <3>2. g[n] = base
      BY <1>7, <2>1
    <3> QED
      BY <3>1, <3>2 DEF base
  <2>2. CASE n # 0
    <3>1. n - 1 \in 0 .. MaxSteps /\ n \in Nat
      BY <1>1, <2>2
    <3>2. g[n - 1] \in Fs
      BY <1>7, <3>1
    <3> QED
      BY <1>5, <1>7, <2>2, <3>1, <3>2
  <2> QED
    BY <2>1, <2>2
<1>9. g = Scanned(V, P, g)
  BY <1>7, <1>8 DEF Scanned
<1>10. c = Scanned(V, P, c)
  BY <1>9
<1>11. Scan(V, P) = c
  BY DEF Scan, Scanned, Step, At
<1> HIDE DEF c
<1>12. \A n \in 0 .. MaxSteps : c[n] = [w \in Walks |-> Step(V, P, n, c[n - 1], w)]
  BY <1>10 DEF Scanned
<1>13. c[0] \in Fs
  <2>1. \A w \in Walks : Step(V, P, 0, none, w) = Step(V, P, 0, c[0 - 1], w)
    <3> HIDE DEF none
    <3> TAKE w \in Walks
    <3> QED
      BY Zenon DEF Step
  <2>2. c[0] = base
    BY <1>1, <1>12, <2>1 DEF base
  <2> QED
    BY <1>3, <2>2
<1>14. \A n \in 0 + 1 .. MaxSteps : c[n - 1] \in Fs => c[n] \in Fs
  <2> TAKE n \in 0 + 1 .. MaxSteps
  <2>1. HAVE c[n - 1] \in Fs
  <2>2. n \in Nat /\ n \in 0 .. MaxSteps
    BY <1>1
  <2>3. c[n] = F[n][c[n - 1]]
    BY <1>5, <1>12, <2>1, <2>2
  <2> QED
    BY <1>4, <2>1, <2>2, <2>3
<1>15. \A n \in 0 .. MaxSteps : c[n] \in Fs
  BY <1>1, <1>13, <1>14, AllValues
<1>16. c \in [0 .. MaxSteps -> Fs]
  <2>1. c = [n \in 0 .. MaxSteps |-> c[n]]
    BY <1>10 DEF Scanned
  <2> QED
    BY <1>15, <2>1
<1> QED
  BY <1>11, <1>12, <1>16 DEF Fs

(* A scan that may take as many steps as there are words ahead of it ends.  *)
LEMMA ScanEnds ==
    ASSUME NEW V \in [Words -> Verdicts], NEW P, NoJumpToStart(P)
    PROVE  \A n \in 0 .. MaxSteps, w \in Walks :
               Sensible(w) /\ Ahead(w) <= n => Scan(V, P)[n][w] # Endless
<1> DEFINE Finish(n) == \A w \in Walks : Sensible(w) /\ Ahead(w) <= n => Scan(V, P)[n][w] # Endless
           S == {n \in Nat : n \in 0 .. MaxSteps => Finish(n)}
<1>1. Top \in Nat /\ MaxSteps \in Nat
  BY RspAssumption DEF MaxSteps
<1>2. \A a \in Words : P[a].to \in Words
  BY DEF NoJumpToStart
<1>3. \A n \in 0 .. MaxSteps, w \in Walks :
          Scan(V, P)[n][w] = Step(V, P, n, Scan(V, P)[n - 1], w)
  BY <1>2, ScanIs
<1>4. \A n \in 0 .. MaxSteps, w \in Walks : Scan(V, P)[n][w] \in Answers
  <2> DEFINE scan == Scan(V, P)
  <2>1. scan \in [0 .. MaxSteps -> [Walks -> Answers]]
    BY <1>2, ScanIs
  <2> HIDE DEF scan
  <2>2. \A n \in 0 .. MaxSteps, w \in Walks : scan[n][w] \in Answers
    BY <2>1
  <2> QED
    BY <2>2 DEF scan
<1>5. ASSUME NEW n \in 0 .. MaxSteps, n # 0 => Finish(n - 1) PROVE Finish(n)
  <2> SUFFICES ASSUME NEW w \in Walks, Sensible(w), Ahead(w) <= n
               PROVE  Scan(V, P)[n][w] # Endless
    OBVIOUS
  <2> DEFINE f == Scan(V, P)[n - 1]
             next == Advanced(At(P, w))
  <2>1. w.pc \in -1 .. Top /\ Ahead(w) \in Int /\ Ahead(w) >= Top - w.pc
    BY <1>1 DEF Ahead, Walks
  <2>2. Scan(V, P)[n][w] = Step(V, P, n, f, w)
    BY <1>3
  <2>3. Used # Endless /\ HitBranch # Endless /\ \A v \in Verdicts : v # Endless
    BY DEF Used, Unused, GoesOn, HitBranch, Endless, Verdicts
  <2>4. CASE w.pc + 1 > Top
    BY <2>2, <2>3, <2>4 DEF Step
  <2>5. CASE ~(w.pc + 1 > Top)
    <3>1. w.pc + 1 \in Words /\ w.pc < Top /\ n # 0
      BY <1>1, <2>1, <2>5 DEF Words
    <3>2. V[w.pc + 1] # Endless
      BY <2>3, <3>1
    <3>3. /\ next \in Walks
          /\ next.state # "FINISH_BLOCK" => Sensible(next) /\ Ahead(next) < Ahead(w)
      BY <1>2, <3>1, AdvancedOn
    <3>4. \A u \in Walks : Sensible(u) /\ Ahead(u) < Ahead(w) => f[u] # Endless /\ f[u] \in Answers
      <4> TAKE u \in Walks
      <4> HAVE Sensible(u) /\ Ahead(u) < Ahead(w)
      <4>1. n - 1 \in 0 .. MaxSteps /\ Ahead(u) \in Int
        BY <1>1, <3>1 DEF Ahead, Walks
      <4>2. Ahead(u) <= n - 1
        BY <1>1, <2>1, <4>1
      <4> QED
        BY <1>4, <1>5, <3>1, <4>1, <4>2
    <3>5. CASE next.state # "FINISH_BLOCK"
      <4>1. f[next] # Endless
        BY <3>3, <3>4, <3>5
      <4>2. Step(V, P, n, f, w) \in {V[w.pc + 1], f[next]}
        <5> HIDE DEF f
        <5> QED
          BY <2>5, <3>1, <3>5, Zenon DEF Step
      <4> QED
        BY <2>2, <3>2, <4>1, <4>2
    <3>6. CASE next.state = "FINISH_BLOCK" /\ (next.BranchTarget = 0 \/ next.nested)
      <4>1. Step(V, P, n, f, w) \in {V[w.pc + 1], HitBranch}
        <5> HIDE DEF f
        <5> QED
          BY <2>5, <3>1, <3>6, Zenon DEF Step
      <4> QED
        BY <2>2, <2>3, <3>2, <4>1
    <3>7. CASE next.state = "FINISH_BLOCK" /\ ~(next.BranchTarget = 0 \/ next.nested)
      <4> DEFINE taken == Walk(next.BranchTarget - 1, TRUE)
                 fall == Walk(next.pc, TRUE)
      <4>1. /\ taken \in Walks /\ Sensible(taken) /\ Ahead(taken) < Ahead(w)
            /\ fall \in Walks /\ Sensible(fall) /\ Ahead(fall) < Ahead(w)
        BY <1>2, <3>1, <3>7, BothWays
      <4>2. f[taken] # Endless /\ f[taken] \in Answers /\ f[fall] # Endless /\ f[fall] \in Answers
        <5> HIDE DEF taken, fall, f
        <5> QED
          BY <3>4, <4>1
      <4>3. Step(V, P, n, f, w) \in {V[w.pc + 1], Weighed(next, f[taken], f[fall])}
        <5> HIDE DEF f
        <5> QED
          BY <2>5, <3>1, <3>7, Zenon DEF Step
      <4> HIDE DEF next, taken, fall, f
      <4>4. Weighed(next, f[taken], f[fall]) # Endless
        BY <4>2, WeighedIs
      <4> QED
        BY <2>2, <3>2, <4>3, <4>4
    <3> QED
      BY <3>5, <3>6, <3>7
  <2> QED
    BY <2>4, <2>5
<1> HIDE DEF Finish
<1>6. S \in SUBSET Nat /\ 0 \in S
  BY <1>1, <1>5
<1>7. \A n \in S : n + 1 \in S
  <2> TAKE n \in S
  <2>1. CASE n + 1 \in 0 .. MaxSteps
    <3>1. n \in 0 .. MaxSteps /\ (n + 1) - 1 = n
      BY <1>1, <2>1
    <3>2. Finish(n)
      BY <3>1
    <3> QED
      BY <1>5, <2>1, <3>1, <3>2
  <2>2. CASE n + 1 \notin 0 .. MaxSteps
    BY <2>2
  <2> QED
    BY <2>1, <2>2
<1> HIDE DEF S
<1>8. \A n \in Nat : n \in S
  BY <1>6, <1>7, Induction
<1>9. \A n \in 0 .. MaxSteps : Finish(n)
  BY <1>8 DEF S
<1> QED
  BY <1>9 DEF Finish

LEMMA AnswerEnds ==
    ASSUME NEW V \in [Words -> Verdicts], NEW P, NoJumpToStart(P), NEW PC \in Words
    PROVE  Answer(V, P, PC) # Endless
<1> DEFINE w == Walk(PC, FALSE)
<1>1. Top \in Nat /\ PC \in 0 .. Top /\ PC \in -1 .. Top
  BY RspAssumption DEF Words
<1>2. MaxSteps \in 0 .. MaxSteps /\ MaxSteps = 6 * (Top + 1)
  BY <1>1 DEF MaxSteps
<1>3. w \in Walks /\ Sensible(w) /\ w.pc = PC
  BY <1>1, NewWalk
<1> HIDE DEF w
<1>4. Ahead(w) <= MaxSteps
  BY <1>1, <1>2, <1>3 DEF Ahead
<1>5. Scan(V, P)[MaxSteps][w] # Endless
  BY <1>2, <1>3, <1>4, ScanEnds
<1>6. Answer(V, P, PC) \in {Used, Scan(V, P)[MaxSteps][w]}
  BY Zenon DEF Answer, w
<1>7. Used # Endless
  BY DEF Used, Endless
<1> QED
  BY <1>5, <1>6, <1>7

LEMMA VerdictsOf ==
    ASSUME NEW Location, NEW DestReg, NEW i
    PROVE  AccumVerdict(Location, i) \in Verdicts /\ DestVerdict(DestReg, i) \in Verdicts
<1>1. AccumVerdict(Location, i) \in Verdicts
  BY DEF AccumVerdict, Verdicts
<1>2. DestVerdict(DestReg, i) \in Verdicts
  BY DEF DestVerdict, Verdicts
<1> QED
  BY <1>1, <1>2

(* What the compiler asks of a program that never jumps to word 0 is answered. *)
LEMMA NoHang ==
    ASSUME NEW PC \in Words, NEW state, NoJumpToStart(M)
    PROVE  ~Hangs(PC, state)
<1>1. Used # Endless
  BY DEF Used, Endless
<1>2. \A Location : WriteToAccum(Location, M, PC, state) # Endless
  <2> TAKE Location
  <2> DEFINE V == [a \in Words |-> AccumVerdict(Location, M[a])]
  <2>1. V \in [Words -> Verdicts]
    BY VerdictsOf
  <2>2. Answer(V, M, PC) # Endless
    BY <2>1, AnswerEnds
  <2> QED
    BY <1>1, <2>2 DEF WriteToAccum
<1>3. \A DestReg : WriteToVectorDest(DestReg, M, PC, state) # Endless
  <2> TAKE DestReg
  <2> DEFINE V == [a \in Words |-> DestVerdict(DestReg, M[a])]
  <2>1. V \in [Words -> Verdicts]
    BY VerdictsOf
  <2>2. Answer(V, M, PC) # Endless
    BY <2>1, AnswerEnds
  <2> QED
    BY <1>1, <2>2 DEF WriteToVectorDest
<1>4. WritesAccum(PC, state) # Endless
  BY <1>1, <1>2 DEF WritesAccum
<1>5. WritesDest(PC, state) # Endless
  BY <1>1, <1>3 DEF WritesDest
<1> QED
  BY <1>4, <1>5 DEF Hangs

JumpsToStart == \E a \in Words : program[a].op \in Jumps /\ program[a].to = 0

LEMMA HangsInACircle ==
    ASSUME TypeOK, ProgramInv, Hang
    PROVE  JumpsToStart
<1>1. /\ IMEM \in [Words -> Words] /\ RSPCompilePC \in Words
      /\ \A a \in Words : program[a].to \in Words
      /\ Hangs(RSPCompilePC, "NORMAL")
  BY DEF TypeOK, ProgramInv, Hang
<1>2. \A a \in Words : M[a] = program[IMEM[a]] /\ IMEM[a] \in Words
  BY <1>1 DEF M
<1>3. ~NoJumpToStart(M)
  BY <1>1, NoHang
<1>4. PICK a \in Words : M[a].to \in Words => M[a].op \in Jumps /\ M[a].to = 0
  BY <1>3 DEF NoJumpToStart
<1> QED
  BY <1>1, <1>2, <1>4 DEF JumpsToStart

(* An analysis follows at most one jump and at most one branch, so that it  *)
(* comes to an end within MaxSteps: the compiler hangs on no program but    *)
(* one with a jump to word 0, which the scans take for no jump met yet.     *)
THEOREM AnalysesEnd == Spec => []AnalysisEnds
<1>1. Init => AnalysisEnds
  BY DEF Init, AnalysisEnds
<1>2. IInv /\ AnalysisEnds /\ [Next]_vars => AnalysisEnds'
  <2> SUFFICES ASSUME IInv, AnalysisEnds, [Next]_vars
               PROVE  AnalysisEnds'
    OBVIOUS
  <2>1. TypeOK /\ ProgramInv
    BY DEF IInv
  <2>2. program' = program
    BY DEF Next, vars, RunRecompilerCPU, LinkBranches, CompileLabel, CompileOpcode,
           CompileBranch, Hang, RunOpcode, RunBranch, RunBREAK, Ended
  <2>3. CASE Hang
    BY <2>1, <2>2, <2>3, HangsInACircle DEF AnalysisEnds, JumpsToStart
  <2>4. CASE phase' = phase
    BY <2>2, <2>4 DEF AnalysisEnds
  <2>5. CASE phase' # "hung"
    BY <2>5 DEF AnalysisEnds
  <2>6. Hang \/ phase' = phase \/ phase' # "hung"
    <3>1. CASE RunRecompilerCPU \/ LinkBranches
      BY <3>1 DEF RunRecompilerCPU, LinkBranches, StartBlock
    <3>2. CASE CompileLabel \/ CompileOpcode \/ CompileBranch
      BY <3>2 DEF CompileLabel, CompileOpcode, CompileBranch, EndBlock
    <3>3. CASE RunOpcode \/ RunBranch \/ RunBREAK
      BY <3>3 DEF RunOpcode, RunBranch, RunBREAK, Landing
    <3>4. CASE Ended \/ UNCHANGED vars
      BY <3>4 DEF Ended, vars
    <3> QED
      BY <3>1, <3>2, <3>3, <3>4 DEF Next
  <2> QED
    BY <2>3, <2>4, <2>5, <2>6
<1> QED
  BY <1>1, <1>2, RecompilerInvariant, PTL DEF Spec
=============================================================================
