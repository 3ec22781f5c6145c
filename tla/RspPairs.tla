------------------------------ MODULE RspPairs ------------------------------
(***************************************************************************)
(* What rsp_recompiler_analysis.c asks of two instructions: whether they    *)
(* may be exchanged, and whether a delay slot changes what its branch      *)
(* compares.                                                               *)
(***************************************************************************)
EXTENDS RspOpcodes

Nothing == 99

Info(flags, DestReg, SourceReg0, SourceReg1) ==
    [flags |-> flags, DestReg |-> DestReg, SourceReg0 |-> SourceReg0,
     SourceReg1 |-> SourceReg1]
Invalid(SourceReg0, SourceReg1) == Info({"Invalid"}, 0, SourceReg0, SourceReg1)

\* A stored register is a DestReg, the base of an address a SourceReg0.
ScalarInfo(i) ==
    CASE i.op \in Shifts -> Info({"GPR"}, i.rd, i.rt, Nothing)
      [] i.op \in Arithmetic -> Info({"GPR"}, i.rd, i.rs, i.rt)
      [] i.op \in Immediates -> Info({"GPR"}, i.rt, i.rs, Nothing)
      [] i.op = "LUI" -> Info({"GPR"}, i.rt, Nothing, Nothing)
      [] i.op = "BREAK" -> Info({"GPR"}, Nothing, Nothing, Nothing)
      [] i.op \in {"MFC0", "CF"} -> Info({"GPR", "Load"}, i.rt, Nothing, Nothing)
      [] i.op \in {"MTC0", "CT"} -> Info({"GPR", "Store"}, i.rt, Nothing, Nothing)
      [] i.op = "MT" -> Info({"VEC", "GPR", "Load"}, i.rd, i.rt, Nothing)
      [] i.op = "MF" -> Info({"VEC", "GPR", "Store"}, i.rt, i.rd, Nothing)
      [] i.op \in Loads -> Info({"GPR", "Load"}, i.rt, i.rs, Nothing)
      [] i.op \in Stores -> Info({"GPR", "Store"}, i.rt, i.rs, Nothing)

VectorInfo(i) ==
    CASE i.op = "VNOOP" -> Info({"VEC"}, Nothing, Nothing, Nothing)
      [] i.op = "VSAW" -> Info({"VEC", "Accum", "Accumulate"}, i.sa, Nothing, Nothing)
      [] i.op \in Sums -> Info({"VEC", "Accum", "Accumulate"}, i.sa, i.rd, i.rt)
      [] i.op \in Products \cup LowWriters ->
           Info({"VEC", "Accum"}, i.sa, i.rd, i.rt)
      [] i.op \in VectorLoads -> Info({"VEC", "Load"}, i.rt, i.rs, Nothing)
      [] i.op \in VectorStores -> Info({"VEC", "Store"}, i.rt, i.rs, Nothing)
      [] OTHER -> Invalid(0, 0)

GetInstructionInfo(i) ==
    CASE i.op \in RegImm \cup Signs -> Invalid(i.rs, Nothing)
      [] i.op \in Equals -> Invalid(i.rt, i.rs)
      [] i.op \in Jumps \cup {"JR"} -> Invalid(Nothing, Nothing)
      [] i.op = "JALR" -> Invalid(0, 0)
      [] i.op \in Scalar -> ScalarInfo(i)
      [] OTHER -> VectorInfo(i)

Kind(x) == x.flags \cap {"GPR", "VEC"}
InMemory(x) == x.flags \cap {"Load", "Store"} # {}
Resets(x) == "Accum" \in x.flags /\ "Accumulate" \notin x.flags

---------------------------------------------------------------------------
\* The branch is decided before its slot runs when the slot writes a register
\* that it compares.

(* Mutant: one of the two registers is forgotten. *)
DelaySlotAffectsFirst(M, PC) ==
    LET delay == GetInstructionInfo(M[PC + 1])
    IN  ~IsOpcodeNop(M[PC + 1]) /\ Kind(delay) # {"VEC"}
        /\ delay.DestReg = GetInstructionInfo(M[PC]).SourceReg1
DelaySlotAffectBranch(M, PC) ==
    LET branch == GetInstructionInfo(M[PC])
        delay == GetInstructionInfo(M[PC + 1])
    IN  /\ ~IsOpcodeNop(M[PC + 1])
        /\ Kind(delay) # {"VEC"}
        /\ delay.DestReg \in {branch.SourceReg0, branch.SourceReg1}

---------------------------------------------------------------------------
\* Whether the lower of two neighbours may go up.

GPRThenVector(x, y) ==
    /\ ~(InMemory(x) /\ InMemory(y))
    /\ InMemory(y) => y.SourceReg0 # x.DestReg

(* Mutant: a load may overtake what reads the register it loads. *)
VectorThenLoad(x, y) ==
    /\ InMemory(x) => ~InMemory(y) /\ ~Resets(y)
    /\ InMemory(x) \/ InMemory(y)
    /\ x.DestReg # y.DestReg
    /\ "Load" \in x.flags => x.DestReg \notin {y.SourceReg0, y.SourceReg1}
VectorThenVector(x, y) ==
    /\ InMemory(x) => ~InMemory(y) /\ ~Resets(y)
    /\ InMemory(x) \/ InMemory(y)
    /\ x.DestReg # y.DestReg
    /\ "Load" \in y.flags => y.DestReg \notin {x.SourceReg0, x.SourceReg1}
    /\ "Load" \in x.flags => x.DestReg \notin {y.SourceReg0, y.SourceReg1}

Cop2ThenVector(x, y) ==
    LET own == IF "Load" \in x.flags THEN x.DestReg ELSE x.SourceReg0
    IN  own \notin {y.DestReg, y.SourceReg0, y.SourceReg1}

CompareInstructions(Upper, Lower) ==
    LET x == GetInstructionInfo(Upper)
        y == GetInstructionInfo(Lower)
    IN  /\ "Invalid" \notin x.flags \cup y.flags
        /\ Kind(y) = {"VEC"}
        /\ CASE Kind(x) = {"GPR"} -> GPRThenVector(x, y)
             [] Kind(x) = {"VEC"} -> VectorThenVector(x, y)
             [] OTHER -> Cop2ThenVector(x, y)

\* What CompareInstructions does not see: flags, the end of the task, and the
\* general register that MF writes.
Overlooked(first, second) ==
    \/ first.op \in {"CF", "CT", "BREAK"}
    \/ first.op = "MF" /\ GPR(first.rt) \in Reads(second)
=============================================================================
