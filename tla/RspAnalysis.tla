---------------------------- MODULE RspAnalysis ----------------------------
(***************************************************************************)
(* rsp_recompiler_analysis.c: which results the recompiled program of the   *)
(* signal processor does not need, and which registers it takes for        *)
(* constants.  An address counts words; M is the instruction memory.       *)
(***************************************************************************)
EXTENDS RspOpcodes, Integers, FiniteSetsExt

CONSTANTS
    Top,        \* the last word of the instruction memory (0xFFC)
    MaxLabels,  \* as many labels are recorded (175)
    MaxWindow   \* as many instructions are reordered at once (0xA00 bytes)

ASSUME RspAssumption == Top \in Nat /\ MaxLabels \in Nat /\ MaxWindow \in Nat

Words == 0..Top
Low16BitAccum == 4
EntireAccum == 7

\* What a scan answers; GoesOn is no answer yet, Endless never one.
Unused == 0
Used == 1
HitBranch == 2
GoesOn == 3
Endless == 4

---------------------------------------------------------------------------
\* What an instruction tells a scan about the accumulators and a register.

AccumVerdict(Location, i) ==
    CASE i.op \in Products -> Unused
      [] i.op \in Sums \cup {"VSAW"} -> Used
      [] i.op \in LowWriters -> IF Location = Low16BitAccum THEN Unused ELSE GoesOn
      [] i.op \in Scalar \cup Memory \cup Followed \cup {"VMOV", "VMRG"} -> GoesOn
      [] OTHER -> Used

DestVerdict(DestReg, i) ==
    CASE i.op \in Products \cup Sums \cup Carrying \cup CarryOut \cup Logic \cup Compares
                  \cup {"VABS", "VMRG"} ->
           IF DestReg \in {i.rd, i.rt} THEN Used
           ELSE IF DestReg = i.sa THEN Unused ELSE GoesOn
      [] i.op = "VSAW" -> IF DestReg = i.sa THEN Unused ELSE GoesOn
      [] i.op \in VectorStores \cup {"STV", "VMOV"} ->
           IF DestReg = i.rt THEN Used ELSE GoesOn
      [] i.op = "MF" -> IF DestReg = i.rd THEN Used ELSE GoesOn
      [] i.op \in (Scalar \ {"MF"}) \cup VectorLoads \cup Followed \cup {"LTV"} -> GoesOn
      [] OTHER -> Used

---------------------------------------------------------------------------
\* The way of both scans.  V has the verdict on every word; a walk is at pc, in
\* the states of Instruction_State, with the targets it has met (0 is none).

Walks ==
    [pc : -1..Top, state : {"NORMAL", "DO_DELAY_SLOT", "DELAY_SLOT", "FINISH_BLOCK"},
     JumpTarget : Words, JumpUncond : BOOLEAN, BranchTarget : Words,
     backward : BOOLEAN, nested : BOOLEAN]
Walk(pc, nested) ==
    [pc |-> pc, state |-> "NORMAL", JumpTarget |-> 0, JumpUncond |-> FALSE,
     BranchTarget |-> 0, backward |-> FALSE, nested |-> nested]

(* Mutant: every jump is followed. *)
FollowsEveryJump(w) == TRUE
\* The first jump to another word than 0 is followed.
FollowsJump(w) == w.JumpTarget = 0
Met(w, i) ==
    CASE i.op \in Jumps ->
           IF FollowsJump(w)
           THEN [w EXCEPT !.state = "DO_DELAY_SLOT", !.JumpUncond = TRUE, !.JumpTarget = i.to]
           ELSE [w EXCEPT !.state = "DO_DELAY_SLOT"]
      [] i.op \in Equals \cup Signs ->
           [w EXCEPT !.state = "DO_DELAY_SLOT", !.BranchTarget = i.to,
                     !.backward = i.to <= w.pc]
      [] i.op \in RegImm \cup RegisterJumps -> [w EXCEPT !.state = "DO_DELAY_SLOT"]
      [] OTHER -> w

Advanced(w) ==
    CASE w.state = "NORMAL" -> w
      [] w.state = "DO_DELAY_SLOT" -> [w EXCEPT !.state = "DELAY_SLOT"]
      [] w.state = "DELAY_SLOT" /\ w.JumpUncond ->
           [w EXCEPT !.pc = w.JumpTarget - 1, !.state = "NORMAL", !.JumpUncond = FALSE]
      [] OTHER -> [w EXCEPT !.state = "FINISH_BLOCK"]

(* Mutant: one way is enough. *)
WeighedOneWay(w, taken, fall) ==
    IF Endless \in {taken, fall} THEN Endless
    ELSE IF Unused \in {taken, fall} THEN Unused ELSE Used
\* Both ways of a branch must make the result needless, and neither may end at
\* another branch (RSP_SAFE_ANALYSIS).
Weighed(w, taken, fall) ==
    LET first == IF w.backward THEN taken ELSE fall
        second == IF w.backward THEN fall ELSE taken
    IN  IF Endless \in {taken, fall} THEN Endless
        ELSE IF first # Unused \/ second = HitBranch THEN Used ELSE second

\* A scan of n steps at most.  One that goes on for longer goes on for ever: it has
\* been everywhere before a jump, after it and beyond a branch.
MaxSteps == 6 * (Top + 1)
Scan(V, M) ==
    LET scan[n \in 0..MaxSteps] == [w \in Walks |->
            LET pc == w.pc + 1
                next == Advanced(Met([w EXCEPT !.pc = pc], M[pc]))
            IN  IF pc > Top THEN Used
                ELSE IF V[pc] # GoesOn THEN V[pc]
                ELSE IF n = 0 THEN Endless
                ELSE IF next.state # "FINISH_BLOCK" THEN scan[n - 1][next]
                ELSE IF next.BranchTarget = 0 \/ next.nested THEN HitBranch
                ELSE Weighed(next, scan[n - 1][Walk(next.BranchTarget - 1, TRUE)],
                             scan[n - 1][Walk(next.pc, TRUE)])]
    IN  scan

Answer(V, M, PC) ==
    LET value == Scan(V, M)[MaxSteps][Walk(PC, FALSE)]
    IN  IF value = HitBranch THEN Used ELSE value

\* In a delay slot every result counts.
WriteToAccum(Location, M, PC, state) ==
    IF state = "DELAY_SLOT" THEN Used
    ELSE Answer([a \in Words |-> AccumVerdict(Location, M[a])], M, PC)
WriteToVectorDest(DestReg, M, PC, state) ==
    IF state = "DELAY_SLOT" THEN Used
    ELSE Answer([a \in Words |-> DestVerdict(DestReg, M[a])], M, PC)

---------------------------------------------------------------------------
\* Whether the carry may be set before PC: backwards to the last instruction
\* that says, or past one branch.

(* Mutant: VADDC and VSUBC are taken for VADD and VSUB. *)
AllSums == Carrying \cup CarryOut
ClearsCarry == Carrying
FlagsVerdict(i) ==
    CASE i.op \in ClearsCarry -> Unused
      [] i.op \in CarryOut \cup Compares \cup Clips \cup {"VMRG", "CT"} -> Used
      [] i.op \in Branches \ {"BLTZAL", "BGEZAL", "JALR"} -> GoesOn
      [] i.op \in (Scalar \ {"CT"}) \cup Memory \cup Products \cup Sums \cup Reciprocals
                  \cup {"VABS", "VAND", "VOR", "VXOR", "VSAW", "VMOV"} -> GoesOn
      [] OTHER -> Used

Says(M, a) == FlagsVerdict(M[a]) # GoesOn
GivesUp(M, PC, a) == a + 1 < PC /\ IsOpcodeBranch(M[a + 1]) /\ ~IsOpcodeBranch(M[a])
Backward(M, PC) ==
    LET stops == {a \in 0..PC - 1 : Says(M, a) \/ GivesUp(M, PC, a)}
    IN  IF stops # {} /\ Says(M, Max(stops)) THEN FlagsVerdict(M[Max(stops)]) ELSE Used

UseRspFlags(M, PC, state) == IF state = "DELAY_SLOT" THEN Used ELSE Backward(M, PC)

---------------------------------------------------------------------------
\* A register is constant when one instruction writes it, from nothing.

Defines(i, Reg) ==
    /\ i.rt = Reg
    /\ \/ i.op \in {"ADDI", "ADDIU", "ORI"} /\ i.rs = 0
       \/ i.op = "LUI"
(* Mutant: loads are left out. *)
AssignsByNoLoad(i, Reg) ==
    \/ i.op \in Shifts \cup Arithmetic /\ i.rd = Reg
    \/ i.op \in Immediates \cup {"LUI", "MFC0", "CF", "MF"} /\ i.rt = Reg
Assigns(i, Reg) ==
    \/ i.op \in Shifts \cup Arithmetic /\ i.rd = Reg
    \/ i.op \in Immediates \cup Loads \cup {"LUI", "MFC0", "CF", "MF"} /\ i.rt = Reg
IsRegisterConstant(Reg, M) ==
    /\ \A a \in Words : Assigns(M[a], Reg) => Defines(M[a], Reg)
    /\ Cardinality({a \in Words : Defines(M[a], Reg)}) = 1
DetectGPRConstants(M, regs) == {r \in regs : r = 0 \/ IsRegisterConstant(r, M)}
=============================================================================
