----------------------------- MODULE RspOpcodes -----------------------------
(***************************************************************************)
(* What an instruction of the signal processor reads and writes, as        *)
(* rsp_interpreter_cpu.c executes it: the measure of what the recompiler    *)
(* may move and leave out.  Values are left out; a resource is a register, *)
(* a part of the accumulators, a flag register, the data memory.           *)
(***************************************************************************)
EXTENDS Naturals

\* The fields are those of RSPOPCODE; "to" is the word a branch goes to.
Instruction(op, rs, rt, rd, sa) ==
    [op |-> op, rs |-> rs, rt |-> rt, rd |-> rd, sa |-> sa, to |-> 0]
Going(op, rs, rt, rd, to) ==
    [op |-> op, rs |-> rs, rt |-> rt, rd |-> rd, sa |-> 0, to |-> to]
Nop == Instruction("SLL", 0, 0, 0, 0)

GPR(r) == <<"GPR", r>>
Vect(v) == <<"Vect", v>>
Flags(f) == <<"Flags", f>>
\* Bits 15..0 of the accumulators' elements, HW[1], and the rest of them.
Low == <<"ACCUM", 1>>
High == <<"ACCUM", 2>>
Accum == {Low, High}
Recp == <<"Recp", 0>>
SQroot == <<"SQroot", 0>>
DMEM == <<"DMEM", 0>>
SP == <<"SP", 0>>
Link == 31

\* "covers" is written as a whole, "touches" only in part.
Effect(reads, covers, touches) ==
    [reads |-> reads \ {GPR(0)}, covers |-> covers \ {GPR(0)}, touches |-> touches]

---------------------------------------------------------------------------
\* The opcodes, by what they have in common.

Shifts == {"SLL", "SRL", "SRA"}
Arithmetic == {"SLLV", "SRLV", "SRAV", "ADD", "ADDU", "SUB", "SUBU", "AND", "OR", "XOR",
               "NOR", "SLT", "SLTU"}
Immediates == {"ADDI", "ADDIU", "SLTI", "SLTIU", "ANDI", "ORI", "XORI"}
Loads == {"LB", "LH", "LW", "LBU", "LHU"}
Stores == {"SB", "SH", "SW"}
Equals == {"BEQ", "BNE"}
Signs == {"BLEZ", "BGTZ"}
RegImm == {"BLTZ", "BGEZ", "BLTZAL", "BGEZAL"}
Jumps == {"J", "JAL"}
RegisterJumps == {"JR", "JALR"}
Branches == Equals \cup Signs \cup RegImm \cup Jumps \cup RegisterJumps
Links == {"JAL", "JALR", "BLTZAL", "BGEZAL"}

Products == {"VMULF", "VMUDL", "VMUDM", "VMUDN", "VMUDH"}
Sums == {"VMACF", "VMADL", "VMADM", "VMADN", "VMADH"}
Carrying == {"VADD", "VSUB"}
CarryOut == {"VADDC", "VSUBC"}
Logic == {"VAND", "VOR", "VXOR", "VNXOR"}
Compares == {"VLT", "VEQ", "VGE"}
Clips == {"VCL", "VCH", "VCR"}
VectorLoads == {"LSV", "LDV", "LRV", "LQV", "LLV", "LUV", "LPV"}
VectorStores ==
    {"SBV", "SSV", "SLV", "SDV", "SQV", "SRV", "SPV", "SUV", "SHV", "SFV", "SWV"}

\* As the analyses of the recompiler tell them apart.
Scalar == Shifts \cup Arithmetic \cup Immediates \cup Loads \cup Stores
          \cup {"LUI", "BREAK", "MFC0", "MTC0", "MF", "MT", "CF", "CT"}
Memory == VectorLoads \cup VectorStores \cup {"LTV", "STV"}
Followed == Branches \ {"JALR"}
Reciprocals == {"VRCP", "VRCPL", "VRCPH", "VRSQL", "VRSQH"}
LowWriters == Carrying \cup CarryOut \cup Logic \cup Compares \cup Clips \cup Reciprocals
              \cup {"VABS"}

\* All of them.  What the tables of rsp_recompiler_ops.c call unknown, and what
\* only reserves an opcode, is left out.
Compute == {"VNOOP", "VSAW"} \cup Sums \cup Products \cup LowWriters
Opcodes == Scalar \cup Branches \cup Compute \cup {"VMOV", "VMRG"} \cup Memory
Registers == 0..31
IsInstruction(i) ==
    /\ i.op \in Opcodes
    /\ i.rs \in Registers /\ i.rt \in Registers /\ i.rd \in Registers
    /\ i.sa \in Registers

IsOpcodeNop(i) == i.op = "SLL" /\ i.rd = 0
IsOpcodeBranch(i) == i.op \in Branches

---------------------------------------------------------------------------
\* General registers.

OfShift(i) == Effect({GPR(i.rt)}, {GPR(i.rd)}, {})
OfArithmetic(i) == Effect({GPR(i.rs), GPR(i.rt)}, {GPR(i.rd)}, {})
OfImmediate(i) == Effect({GPR(i.rs)}, {GPR(i.rt)}, {})
OfLUI(i) == Effect({}, {GPR(i.rt)}, {})
OfLoad(i) == Effect({GPR(i.rs), DMEM}, {GPR(i.rt)}, {})
OfStore(i) == Effect({GPR(i.rs), GPR(i.rt)}, {}, {DMEM})
OfBranch(i) ==
    Effect(CASE i.op \in Equals -> {GPR(i.rs), GPR(i.rt)}
             [] i.op \in Jumps -> {}
             [] OTHER -> {GPR(i.rs)},
           CASE i.op = "JALR" -> {GPR(i.rd)}
             [] i.op \in Links -> {GPR(Link)}
             [] OTHER -> {}, {})

\* Reading the registers of the processor, and writing them: a length starts a
\* transfer from or to the data memory.
OfMFC0(i) == Effect({SP}, {GPR(i.rt)}, {})
OfMTC0(i) == Effect({GPR(i.rt), DMEM}, {}, {SP, DMEM})
\* The end of the task, which shows everything to the host.
OfBREAK == Effect({SP, DMEM}, {}, {SP})

---------------------------------------------------------------------------
\* Between general and vector registers and flags.

FlagOf(rd) == Flags(IF rd % 4 = 3 THEN 2 ELSE rd % 4)
OfMF(i) == Effect({Vect(i.rd)}, {GPR(i.rt)}, {})
OfMT(i) == Effect({GPR(i.rt)}, {}, {Vect(i.rd)})
OfCF(i) == Effect({FlagOf(i.rd)}, {GPR(i.rt)}, {})
OfCT(i) == Effect({GPR(i.rt)}, {FlagOf(i.rd)}, {})

---------------------------------------------------------------------------
\* Vectors.  The sources are rd and rt, the destination is sa.

Sources(i) == {Vect(i.rd), Vect(i.rt)}
OfProduct(i) == Effect(Sources(i), {Vect(i.sa)} \cup Accum, {})
OfSum(i) == Effect(Sources(i) \cup Accum, {Vect(i.sa)} \cup Accum, {})
OfCarrying(i) == Effect(Sources(i) \cup {Flags(0)}, {Vect(i.sa), Low, Flags(0)}, {})
OfVABS(i) == Effect(Sources(i), {Vect(i.sa), Low}, {})
OfCarryOut(i) == Effect(Sources(i), {Vect(i.sa), Low, Flags(0)}, {})
OfVSAW(i) == Effect(Accum, {Vect(i.sa)}, {})
OfCompare(i) ==
    Effect(Sources(i) \cup {Flags(0)}, {Vect(i.sa), Low, Flags(0), Flags(1)}, {})
OfVCL(i) == Effect(Sources(i) \cup {Flags(0), Flags(1), Flags(2)},
                   {Vect(i.sa), Low, Flags(0), Flags(2)}, {Flags(1)})
OfClip(i) == Effect(Sources(i), {Vect(i.sa), Low, Flags(0), Flags(1), Flags(2)}, {})
OfVMRG(i) == Effect(Sources(i) \cup {Flags(1)}, {Vect(i.sa)}, {})
OfLogic(i) == Effect(Sources(i), {Vect(i.sa), Low}, {})
\* One element of the destination, from the last long argument or for it.
OfReciprocal(i) ==
    CASE i.op = "VRCP" -> Effect({Vect(i.rt)}, {Low}, {Vect(i.sa), Recp})
      [] i.op = "VRCPL" -> Effect({Vect(i.rt), Recp}, {Low}, {Vect(i.sa), Recp})
      [] i.op = "VRCPH" -> Effect({Vect(i.rt), Recp}, {Low}, {Vect(i.sa), Recp})
OfRoot(i) == Effect({Vect(i.rt), SQroot}, {Low}, {Vect(i.sa), SQroot})
OfVMOV(i) == Effect({Vect(i.rt)}, {}, {Vect(i.sa)})

\* A transposed store takes an element of each of eight registers.
Transposed(i) == {Vect(v) : v \in i.rt..i.rt + 7}
OfVectorLoad(i) == Effect({GPR(i.rs), DMEM}, {}, {Vect(i.rt)})
OfVectorStore(i) == Effect({GPR(i.rs), Vect(i.rt)}, {}, {DMEM})
OfLTV(i) == Effect({GPR(i.rs), DMEM}, {}, Transposed(i))
OfSTV(i) == Effect({GPR(i.rs)} \cup Transposed(i), {}, {DMEM})

---------------------------------------------------------------------------
ScalarEffect(i) ==
    CASE i.op \in Shifts -> OfShift(i)
      [] i.op \in Arithmetic -> OfArithmetic(i)
      [] i.op \in Immediates -> OfImmediate(i)
      [] i.op = "LUI" -> OfLUI(i)
      [] i.op \in Loads -> OfLoad(i)
      [] i.op \in Stores -> OfStore(i)
      [] i.op = "MFC0" -> OfMFC0(i)
      [] i.op = "MTC0" -> OfMTC0(i)
      [] i.op = "BREAK" -> OfBREAK
      [] i.op = "MF" -> OfMF(i)
      [] i.op = "MT" -> OfMT(i)
      [] i.op = "CF" -> OfCF(i)
      [] i.op = "CT" -> OfCT(i)

VectorEffect(i) ==
    CASE i.op \in Products -> OfProduct(i)
      [] i.op \in Sums -> OfSum(i)
      [] i.op \in Carrying -> OfCarrying(i)
      [] i.op = "VABS" -> OfVABS(i)
      [] i.op \in CarryOut -> OfCarryOut(i)
      [] i.op = "VSAW" -> OfVSAW(i)
      [] i.op \in Compares -> OfCompare(i)
      [] i.op = "VCL" -> OfVCL(i)
      [] i.op \in Clips \ {"VCL"} -> OfClip(i)
      [] i.op = "VMRG" -> OfVMRG(i)
      [] i.op \in Logic -> OfLogic(i)
      [] i.op \in {"VRCP", "VRCPL", "VRCPH"} -> OfReciprocal(i)
      [] i.op \in {"VRSQL", "VRSQH"} -> OfRoot(i)
      [] i.op = "VMOV" -> OfVMOV(i)
      [] i.op = "VNOOP" -> Effect({}, {}, {})

MemoryEffect(i) ==
    CASE i.op \in VectorLoads -> OfVectorLoad(i)
      [] i.op \in VectorStores -> OfVectorStore(i)
      [] i.op = "LTV" -> OfLTV(i)
      [] i.op = "STV" -> OfSTV(i)

EffectOf(i) ==
    CASE i.op \in Scalar -> ScalarEffect(i)
      [] i.op \in Branches -> OfBranch(i)
      [] i.op \in Memory -> MemoryEffect(i)
      [] OTHER -> VectorEffect(i)
Reads(i) == EffectOf(i).reads
Covers(i) == EffectOf(i).covers
Writes(i) == Covers(i) \cup EffectOf(i).touches

\* Two instructions whose order shows.  After the end of the task nothing runs.
Conflict(i, j) ==
    \/ (Writes(i) \cap (Reads(j) \cup Writes(j))) \cup (Reads(i) \cap Writes(j)) # {}
    \/ i.op = "BREAK" /\ Writes(j) # {}
    \/ j.op = "BREAK" /\ Writes(i) # {}
=============================================================================
