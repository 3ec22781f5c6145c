---------------------------- MODULE RspRecompiler ----------------------------
(***************************************************************************)
(* The recompiler of the signal processor (rsp_recompiler_cpu.c and the    *)
(* instructions of rsp_recompiler_ops.c that ask for an analysis): a       *)
(* program is reordered section by section, compiled with what is not       *)
(* needed left out, its branches linked, and run.                          *)
(*                                                                         *)
(* Of the run only this is kept: which registers hold something else than   *)
(* the interpreter would have left in them, whether the carry may be set,    *)
(* and which instruction wrote a general register last.                    *)
(***************************************************************************)
EXTENDS RspReorder, Sequences

CONSTANTS
    Programs,   \* what the instruction memory may hold
    MaxRefs     \* as many unknown targets are noted in a block (150)

\* What the processor does with a branch in the slot of another is not defined, and
\* the slot of a branch at the top would be outside of the memory.
IsProgram(p) ==
    /\ p \in Seq({p[k] : k \in DOMAIN p}) /\ Len(p) = Top + 1
    /\ \A k \in 1..Top + 1 : IsInstruction(p[k]) /\ p[k].to \in Words
    /\ \A k \in 1..Top + 1 :
           IsOpcodeBranch(p[k]) => k <= Top /\ ~IsOpcodeBranch(p[k + 1])
ASSUME RspRecompilerAssumption == MaxRefs \in Nat /\ \A p \in Programs : IsProgram(p)

VARIABLES
    program,            \* IMEM as the processor sees it
    mmx,                \* what CpuFeatures says
    phase,
    IMEM,               \* the word of the program at each address, while it compiles
    RSPCompilePC,
    RSPJumpTable,       \* the block that an address enters, or none
    blocks,             \* the code: per block, what was made of which address
    BranchesToResolve,  \* targets, of the block that compiles and of those it waits in
    PrgCount,
    block,              \* the block that runs
    regs

code == <<IMEM, RSPCompilePC, RSPJumpTable, blocks, BranchesToResolve>>
vars == <<program, mmx, phase, code, PrgCount, block, regs>>

None == Top + 1
Here == [a \in Words |-> a]
M == [a \in Words |-> program[IMEM[a]]]
NamedGPRs == {Link} \cup UNION {{program[a].rs, program[a].rt, program[a].rd} : a \in Words}

Init ==
    /\ \E p \in Programs : program = [a \in Words |-> p[a + 1]]
    /\ mmx \in BOOLEAN
    /\ phase = "stopped"
    /\ IMEM = Here
    /\ RSPCompilePC = 0
    /\ RSPJumpTable = [a \in Words |-> 0]
    /\ blocks = <<>>
    /\ BranchesToResolve = <<>>
    /\ PrgCount = 0
    /\ block = 0
    /\ regs = [stale |-> {},          \* what was not written where it should
               carry |-> TRUE,        \* Flags[0] may be set
               entered |-> TRUE,      \* by a branch, since the carry was cleared
               lost |-> FALSE,        \* a jump that AddRef forgot has been passed
               writer |-> [r \in NamedGPRs |-> None]]

---------------------------------------------------------------------------
\* What the instructions leave out.  Each asks how far the accumulators that it
\* sets are needed and whether its destination is; some have a form in MMX for
\* when the accumulators are not, which always writes the destination.

Asks(Location, dest, byMMX) == [Location |-> Location, dest |-> dest, byMMX |-> byMMX]
Nowhere == 0
VMULF == Asks(EntireAccum, TRUE, TRUE)
VMUDL == Asks(EntireAccum, TRUE, TRUE)
VMUDM == Asks(EntireAccum, TRUE, TRUE)
VMUDN == Asks(EntireAccum, TRUE, TRUE)
VMUDH == Asks(EntireAccum, TRUE, TRUE)
VMACF == Asks(Nowhere, TRUE, FALSE)
VMADL == Asks(Nowhere, TRUE, FALSE)
VMADM == Asks(Nowhere, TRUE, FALSE)
VMADN == Asks(Nowhere, TRUE, FALSE)
VMADH == Asks(Nowhere, TRUE, FALSE)
VADD == Asks(Low16BitAccum, TRUE, TRUE)
VSUB == Asks(Low16BitAccum, TRUE, FALSE)
VABS == Asks(Low16BitAccum, TRUE, FALSE)
VADDC == Asks(Low16BitAccum, TRUE, FALSE)
VSUBC == Asks(Low16BitAccum, TRUE, FALSE)
VAND == Asks(Low16BitAccum, FALSE, TRUE)
VOR == Asks(Low16BitAccum, FALSE, TRUE)
\* Its form in MMX is for processors that have it and for those that do not.
VXOR == Asks(Low16BitAccum, FALSE, TRUE)
VRCPH == Asks(Low16BitAccum, FALSE, FALSE)
RSP_Vector ==
    [VMULF |-> VMULF, VMUDL |-> VMUDL, VMUDM |-> VMUDM, VMUDN |-> VMUDN, VMUDH |-> VMUDH,
     VMACF |-> VMACF, VMADL |-> VMADL, VMADM |-> VMADM, VMADN |-> VMADN, VMADH |-> VMADH,
     VADD |-> VADD, VSUB |-> VSUB, VABS |-> VABS, VADDC |-> VADDC, VSUBC |-> VSUBC,
     VAND |-> VAND, VOR |-> VOR, VXOR |-> VXOR, VRCPH |-> VRCPH]
Asking(i) ==
    IF i.op \in DOMAIN RSP_Vector THEN RSP_Vector[i.op] ELSE Asks(Nowhere, FALSE, FALSE)

WritesAccum(PC, state) ==
    LET Location == Asking(M[PC]).Location
    IN  IF Location = Nowhere THEN Used ELSE WriteToAccum(Location, M, PC, state)
WritesDest(PC, state) ==
    IF Asking(M[PC]).dest THEN WriteToVectorDest(M[PC].sa, M, PC, state) ELSE Used

\* VADD by MMX knows no carry.
CarryInTheWay(PC, state) == M[PC].op = "VADD" /\ UseRspFlags(M, PC, state) = Used
ByMMX(PC, state) ==
    /\ mmx /\ Asking(M[PC]).byMMX
    /\ WritesAccum(PC, state) = Unused
    /\ ~CarryInTheWay(PC, state)

\* A branch: when it makes no jump, when it makes nothing but a jump, and when it
\* saves its condition before the slot, which may change what it compares.
Jump(never, always, saves) == [never |-> never, always |-> always, saves |-> saves]
J == Jump(FALSE, TRUE, FALSE)
JAL == Jump(FALSE, TRUE, FALSE)
JR == Jump(FALSE, TRUE, FALSE)
JALR == Jump(FALSE, TRUE, FALSE)
BEQ(i, affected) == Jump(FALSE, {i.rs, i.rt} = {0}, affected)
BNE(i, affected) == Jump({i.rs, i.rt} = {0}, FALSE, affected)
BLEZ(i, affected) == Jump(FALSE, i.rs = 0, affected)
BGTZ(i, affected) == Jump(i.rs = 0, FALSE, affected)
BLTZ(i, affected) == Jump(i.rs = 0, FALSE, affected)
BGEZ(i, affected) == Jump(FALSE, i.rs = 0, affected)
BLTZAL(i) == Jump(i.rs = 0, FALSE, TRUE)
BGEZAL(i, affected) == Jump(FALSE, i.rs = 0, affected)
JumpOf(i, affected) ==
    CASE i.op = "J" -> J
      [] i.op = "JAL" -> JAL
      [] i.op = "JR" -> JR
      [] i.op = "JALR" -> JALR
      [] i.op = "BEQ" -> BEQ(i, affected)
      [] i.op = "BNE" -> BNE(i, affected)
      [] i.op = "BLEZ" -> BLEZ(i, affected)
      [] i.op = "BGTZ" -> BGTZ(i, affected)
      [] i.op = "BLTZ" -> BLTZ(i, affected)
      [] i.op = "BGEZ" -> BGEZ(i, affected)
      [] i.op = "BLTZAL" -> BLTZAL(i)
      [] i.op = "BGEZAL" -> BGEZAL(i, affected)
Never(i) == JumpOf(i, FALSE).never
Always(i) == JumpOf(i, FALSE).always
Saves(PC) == IsOpcodeBranch(M[PC]) /\ JumpOf(M[PC], DelaySlotAffectBranch(M, PC)).saves

LeftOut(PC, state) ==
    (IF WritesAccum(PC, state) = Unused THEN Covers(M[PC]) \cap Accum ELSE {})
    \cup (IF WritesDest(PC, state) = Unused /\ ~ByMMX(PC, state)
          THEN {Vect(M[PC].sa)} ELSE {})

Compiled(PC, state) ==
    [at |-> IMEM[PC], leftOut |-> LeftOut(PC, state),
     withoutCarry |-> M[PC].op = "VADD" /\ ByMMX(PC, state), saves |-> Saves(PC), lost |-> FALSE]

Hangs(PC, state) == Endless \in {WritesAccum(PC, state), WritesDest(PC, state)}

---------------------------------------------------------------------------
\* CompilerRSPBlock up to its loop, where RunRecompilerCPU and LinkBranches call it.

(* Mutant: RSPCurrentBlock is not saved. *)
Unsaved == <<<<>>>>
\* The targets of the new block come before those of the one it is compiled for.
Saved == <<<<>>>> \o BranchesToResolve
StartBlock(PC) ==
    /\ phase' = "compile"
    /\ RSPCompilePC' = PC
    /\ blocks' = Append(blocks, <<>>)
    /\ RSPJumpTable' = [RSPJumpTable EXCEPT ![PC] = Len(blocks) + 1]
    /\ IMEM' = ReOrderSubBlock(program, Here, PC)
    /\ BranchesToResolve' = Saved

RunRecompilerCPU ==
    /\ phase = "stopped"
    /\ IF RSPJumpTable[PrgCount] = 0
       THEN StartBlock(PrgCount) /\ UNCHANGED block
       ELSE phase' = "run" /\ block' = RSPJumpTable[PrgCount] /\ UNCHANGED code
    /\ UNCHANGED <<program, mmx, PrgCount, regs>>

\* The targets of a block are compiled in turn, and their targets before the next.
LinkBranches ==
    /\ phase = "link"
    /\ LET pending == Head(BranchesToResolve)
           outer == Tail(BranchesToResolve)
       IN  CASE pending = <<>> ->
                  /\ BranchesToResolve' = outer
                  /\ phase' = IF outer = <<>> THEN "stopped" ELSE "link"
                  /\ UNCHANGED <<IMEM, RSPCompilePC, RSPJumpTable, blocks>>
             [] pending # <<>> /\ RSPJumpTable[Head(pending)] = 0 -> StartBlock(Head(pending))
             [] OTHER ->
                  /\ BranchesToResolve' = <<Tail(pending)>> \o outer
                  /\ UNCHANGED <<phase, IMEM, RSPCompilePC, RSPJumpTable, blocks>>
    /\ UNCHANGED <<program, mmx, PrgCount, block, regs>>

---------------------------------------------------------------------------
\* The loop of CompilerRSPBlock.

This == Len(blocks)
With(old, f) ==
    [a \in DOMAIN old \cup DOMAIN f |-> IF a \in DOMAIN f THEN f[a] ELSE old[a]]
Made(f) == blocks' = [blocks EXCEPT ![This] = With(@, f)]
EndBlock == phase' = "link" /\ IMEM' = Here /\ UNCHANGED <<RSPCompilePC, RSPJumpTable>>
Section(PC) ==
    /\ RSPJumpTable' = [RSPJumpTable EXCEPT ![PC] = This]
    /\ IMEM' = ReOrderSubBlock(program, IMEM, PC)

\* A label that no block has compiled yet begins a section.
AtLabel == RSPCompilePC \in BranchLabels(program) /\ RSPJumpTable[RSPCompilePC] = 0

CompileLabel ==
    /\ phase = "compile" /\ AtLabel
    /\ Section(RSPCompilePC)
    /\ UNCHANGED <<program, mmx, phase, RSPCompilePC, blocks, BranchesToResolve, PrgCount,
                   block, regs>>

\* An analysis that follows a circle of jumps does not come back.
Hang ==
    /\ phase = "compile" /\ ~AtLabel
    /\ Hangs(RSPCompilePC, "NORMAL")
    /\ phase' = "hung"
    /\ UNCHANGED <<program, mmx, code, PrgCount, block, regs>>

CompileOpcode ==
    /\ phase = "compile" /\ ~AtLabel
    /\ ~IsOpcodeBranch(M[RSPCompilePC])
    /\ ~Hangs(RSPCompilePC, "NORMAL")
    /\ Made([a \in {RSPCompilePC} |-> Compiled(a, "NORMAL")])
    /\ IF M[RSPCompilePC].op = "BREAK" \/ RSPCompilePC = Top
       THEN EndBlock
       ELSE RSPCompilePC' = RSPCompilePC + 1 /\ UNCHANGED <<phase, IMEM, RSPJumpTable>>
    /\ UNCHANGED <<program, mmx, BranchesToResolve, PrgCount, block, regs>>

\* RSPBranch_AddRef notes a target that has no code yet.  With no room for one more
\* it forgets the jump, whatever its target.
Refers(i) == i.op \notin RegisterJumps /\ ~Never(i)
Noted(i) == Refers(i) /\ RSPJumpTable[i.to] = 0
Full == Len(Head(BranchesToResolve)) >= MaxRefs
AddRef(i) ==
    BranchesToResolve' =
        IF Noted(i) /\ ~Full
        THEN <<Append(Head(BranchesToResolve), i.to)>> \o Tail(BranchesToResolve)
        ELSE BranchesToResolve

Ends(PC) == PC > Top \/ RSPJumpTable[PC] # 0
\* A branch with its slot, and what follows: the end, a section, or old code.
CompileBranch ==
    LET PC == RSPCompilePC IN
    /\ phase = "compile" /\ ~AtLabel
    /\ IsOpcodeBranch(M[PC])
    /\ PC < Top
    /\ Made([a \in {PC, PC + 1} |->
                IF a = PC
                THEN [Compiled(PC, "NORMAL") EXCEPT !.lost = Refers(M[PC]) /\ Full]
                ELSE Compiled(a, "DELAY_SLOT")])
    /\ AddRef(M[PC])
    /\ IF Ends(PC + 2)
       THEN EndBlock
       ELSE RSPCompilePC' = PC + 2 /\ Section(PC + 2) /\ UNCHANGED phase
    /\ UNCHANGED <<program, mmx, PrgCount, block, regs>>

---------------------------------------------------------------------------
\* The code runs.

About == blocks[block][PrgCount]
Instr(c) == program[c.at]

CarryAfter(c, carry) ==
    IF c.withoutCarry THEN carry
    ELSE CASE Instr(c).op \in CarryOut \cup {"VCH"} -> TRUE
           [] Instr(c).op = "CT" -> carry \/ FlagOf(Instr(c).rd) = Flags(0)
           [] Instr(c).op \in Carrying \cup Compares \cup {"VCL", "VCR"} -> FALSE
           [] OTHER -> carry

\* One instruction of the code, whose branch (if it is one) is still open.
After(r, c) ==
    [stale |-> (r.stale \ Covers(Instr(c))) \cup c.leftOut,
     carry |-> CarryAfter(c, r.carry),
     entered |-> r.entered /\ (Instr(c).op \notin Carrying \/ c.withoutCarry),
     lost |-> r.lost \/ c.lost,
     writer |-> [g \in DOMAIN r.writer |->
                   IF GPR(g) \in Covers(Instr(c)) THEN c.at ELSE r.writer[g]]]

\* Code goes on in its block, or where the old code of an address is.  What follows
\* the code of the top word is whatever has been made next.
Landing(PC, inBlock) ==
    /\ PrgCount' = IF PC > Top THEN PrgCount ELSE PC
    /\ IF PC > Top
       THEN phase' = "astray" /\ UNCHANGED block
       ELSE IF inBlock /\ PC \in DOMAIN blocks[block]
       THEN UNCHANGED <<phase, block>>
       ELSE IF RSPJumpTable[PC] = 0
       THEN phase' = "stopped" /\ UNCHANGED block
       ELSE block' = RSPJumpTable[PC] /\ UNCHANGED phase

RunOpcode ==
    /\ phase = "run"
    /\ Instr(About).op \notin Branches \cup {"BREAK"}
    /\ regs' = After(regs, About)
    /\ Landing(PrgCount + 1, TRUE)
    /\ UNCHANGED <<program, mmx, code>>

\* A register holds the address after the call that wrote it last, or any.
Targets(i, writer) ==
    IF i.op \notin RegisterJumps THEN {i.to}
    ELSE LET a == writer[i.rs]
         IN  IF a # None /\ program[a].op \in Links THEN {(a + 2) % (Top + 1)} ELSE Words

RunBranch ==
    LET i == Instr(About)
        slot == blocks[block][PrgCount + 1]
        linked == After(regs, About)
        after == After(linked, slot)
    IN  /\ phase = "run"
        /\ i.op \in Branches
        /\ UNCHANGED <<program, mmx, code>>
        /\ \/ /\ ~Never(i) /\ ~About.lost
              /\ regs' = [after EXCEPT !.entered = TRUE]
              /\ \E PC \in Targets(i, linked.writer) : Landing(PC, FALSE)
           \/ /\ ~Always(i) \/ About.lost
              /\ regs' = after
              /\ Landing(PrgCount + 2, TRUE)

\* The processor halts, and a later task begins with what the registers hold.
RunBREAK ==
    /\ phase = "run"
    /\ Instr(About).op = "BREAK"
    /\ phase' = "halted"
    /\ UNCHANGED <<program, mmx, code, PrgCount, block, regs>>

Ended == phase \in {"halted", "hung", "astray"} /\ UNCHANGED vars

Next ==
    \/ RunRecompilerCPU \/ LinkBranches
    \/ CompileLabel \/ CompileOpcode \/ CompileBranch \/ Hang
    \/ RunOpcode \/ RunBranch \/ RunBREAK
    \/ Ended

Spec == Init /\ [][Next]_vars

---------------------------------------------------------------------------
TypeOK ==
    /\ phase \in {"stopped", "compile", "link", "run", "halted", "hung", "astray"}
    /\ mmx \in BOOLEAN
    /\ IMEM \in [Words -> Words]
    /\ RSPCompilePC \in Words
    /\ RSPJumpTable \in [Words -> 0..Len(blocks)]
    /\ BranchesToResolve \in Seq(Seq(Words))
    /\ PrgCount \in Words
    /\ block \in 0..Len(blocks)
    /\ \A b \in 1..Len(blocks) : \A a \in DOMAIN blocks[b] :
           a \in Words /\ blocks[b][a].at \in Words

Executing == IF Instr(About).op \in Branches
             THEN {About, blocks[block][PrgCount + 1]} ELSE {About}

(* Not every branch was recorded, for there are more of them than MaxLabels. *)
Truncated == \E a \in Words \ BranchLocations(program) : IsOpcodeBranch(program[a])

(* No instruction of the code reads an accumulator or a vector register whose *)
(* last value the code has left out (WriteToAccum, WriteToVectorDest), as long  *)
(* as there was room for all branches and the way has not led past a jump that  *)
(* RSPBranch_AddRef forgot: the scans go by the program, which the code is not  *)
(* then.  STV reads one: it stores eight registers, and the scan looks for one. *)
NeverReadsStale ==
    phase = "run" /\ ~regs.lost /\ ~Truncated =>
        \A c \in Executing : Reads(Instr(c)) \cap regs.stale = {} \/ Instr(c).op = "STV"

(* A VADD compiled without the carry runs with no carry, unless a branch has    *)
(* been taken since the last VADD or VSUB that cleared it: UseRspFlags looks     *)
(* backwards in memory, past labels and calls, and takes a VADD compiled        *)
(* without the carry for one that clears it.                                   *)
CarryKnownClear ==
    phase = "run" => \A c \in Executing : c.withoutCarry /\ regs.carry => regs.entered

(* The base of an address that the code takes for a constant has that value    *)
(* once the instruction that defines it has run (IsRegisterConstant).  A call    *)
(* may write the register as well: links are not looked for.                   *)
ConstantsHold ==
    phase = "run" =>
        \A c \in Executing :
            LET base == Instr(c).rs
                a == regs.writer[base]
            IN  /\ Instr(c).op \in Loads \cup Stores \cup Memory
                /\ base \in DetectGPRConstants(program, {base})
                /\ a # None
                => Defines(program[a], base) \/ program[a].op \in Links

(* A branch that compares after its slot has run compares what the slot left    *)
(* alone (DelaySlotAffectBranch).                                              *)
SlotNoticed ==
    phase = "run" /\ Instr(About).op \in Equals \cup Signs \cup RegImm /\ ~About.saves =>
        Reads(Instr(About)) \cap Writes(Instr(blocks[block][PrgCount + 1])) = {}

Compilation == 1..Len(blocks)
Was(b, a) == blocks[b][a].at

(* Instructions whose order shows are compiled in the order of the program,     *)
(* but for those that CompareInstructions overlooks.                           *)
OrderKept ==
    phase = "link" =>
        \A b \in Compilation : \A above, below \in DOMAIN blocks[b] :
            above < below /\ Was(b, above) > Was(b, below) =>
                LET first == program[Was(b, below)]
                    second == program[Was(b, above)]
                IN  Conflict(first, second) => Overlooked(first, second)

(* An instruction leaves neither the stretch between two of the recorded labels *)
(* nor that between two branches, and a slot stays behind its branch as long    *)
(* as there was room for all the labels (ReOrderSubBlock).                      *)
SectionsKept ==
    phase = "link" =>
        \A b \in Compilation : \A a \in DOMAIN blocks[b] :
            LET low == Min({a, Was(b, a)})
                high == Max({a, Was(b, a)})
            IN  \A k \in low..high - 1 :
                    /\ k + 1 \notin BranchLabels(program)
                    /\ ~IsOpcodeBranch(program[k])
                    /\ ~IsOpcodeBranch(program[k + 1])
                    /\ ~Truncated /\ k > 0 /\ k - 1 \in DOMAIN blocks[b] =>
                           ~IsOpcodeBranch(program[k - 1])

(* What runs is code that has been compiled, and every jump in it leads to     *)
(* code for its target, but for those that RSPBranch_AddRef had no room for    *)
(* (LinkBranches).                                                             *)
LinkedEverywhere ==
    /\ TypeOK
    /\ phase = "run" =>
        \A b \in Compilation : \A a \in DOMAIN blocks[b] :
            LET c == blocks[b][a]
                i == Instr(c)
            IN  Labelled(program, c.at) /\ ~Never(i) /\ ~c.lost =>
                    /\ RSPJumpTable[i.to] # 0
                    /\ i.to \in DOMAIN blocks[RSPJumpTable[i.to]]

(* Every analysis comes to an end, but in a program that jumps to word 0, which *)
(* WriteToAccum2 and WriteToVectorDest2 take for a jump not yet met.            *)
AnalysisEnds ==
    phase = "hung" => \E a \in Words : program[a].op \in Jumps /\ program[a].to = 0

=============================================================================
