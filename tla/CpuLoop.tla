------------------------------ MODULE CpuLoop -------------------------------
(***************************************************************************)
(* The instruction loop of the emulated CPU (interpreter_cpu.c): fetching, *)
(* branches with their delay slots, exceptions (exception.c), the pending  *)
(* bits of the interrupt controller that stores to device registers set    *)
(* and clear (interpreter_memory.c, dma.c), and the poll after every jump  *)
(* that serves a timer and takes a requested interrupt (cpu.c).            *)
(*                                                                         *)
(* The program is any sequence of instructions: what is fetched is chosen  *)
(* freely, and of its data only what reaches the interrupt logic is kept.  *)
(* The timers themselves are the subject of module Timers.                 *)
(***************************************************************************)
EXTENDS Integers

CONSTANTS
    Last,           \* code lies at the word addresses 0 .. Last
    General,        \* 0x80000180, the exception handler
    Refill,         \* 0x80000000, the handler of TLB misses
    Device,         \* the sources of MI_INTR_REG
    StatusWrites,   \* the values the program moves to STATUS_REGISTER
    MaskWrites,     \* the values MI_INTR_MASK_REG takes
    EnableCompare   \* enablecompare, a tag of the file being played

Addr == 0 .. Last
IP2 == 2            \* the line of the interrupt controller
IP7 == 7            \* the line of the Compare timer
Line == {IP2, IP7}

(* STATUS_REGISTER: IE, EXL, ERL and the mask of the interrupt lines. *)
Status == [ie : BOOLEAN, exl : BOOLEAN, erl : BOOLEAN, im : SUBSET Line]

ASSUME CpuLoopAssumption ==
    /\ Last \in Nat
    /\ General \in Addr /\ Refill \in Addr
    /\ {"AI", "VI", "SP", "DP"} \subseteq Device
    /\ StatusWrites \subseteq Status
    /\ MaskWrites \subseteq SUBSET Device
    /\ EnableCompare \in BOOLEAN

VARIABLES
    pc,         \* PROGRAM_COUNTER
    next,       \* NextInstruction: JUMP while pc is at a delay slot
    jumpTo,     \* JumpToLocation
    status,     \* STATUS_REGISTER
    epc,        \* EPC_REGISTER
    fakeIP,     \* the lines raised in FAKE_CAUSE_REGISTER
    miIntr,     \* MI_INTR_REG
    miMask,     \* MI_INTR_MASK_REG
    audioIntr,  \* the AI bit of AudioIntrReg
    action,     \* *CPU_Action
    running,    \* cpu_running
    phase,      \* where ExecuteInterpreterOpCode is: "op" executes an
                \* instruction, "poll" serves a timer after a jump, "act"
                \* looks at CPU_Action

    (* History, which the program does not keep. *)
    open,       \* the first instruction that is not complete; a branch is
                \* complete after its delay slot
    resume,     \* what open was when EXL was last set by an exception
    intact,     \* EPC is still what that exception made it
    stale,      \* bits changed since CheckInterrupts last looked
    withdrawn   \* the program withdrew a cause since the last jump

flow == <<pc, next, jumpTo, phase, open>>
lines == <<fakeIP, miIntr, audioIntr, action, stale>>
saved == <<epc, resume, intact>>
vars == <<flow, lines, saved, status, miMask, running, withdrawn>>

-----------------------------------------------------------------------------
Enabled(s) == s.ie /\ ~s.exl /\ ~s.erl

(* Mutant: the AI bit is not copied. *)
BitsKept(mi, audio) == mi

Bits(mi, audio) == (mi \ {"AI"}) \cup (IF audio THEN {"AI"} ELSE {})

(* CheckInterrupts, with mi in MI_INTR_REG, ip in FAKE_CAUSE_REGISTER,     *)
(* audio in AudioIntrReg and s in STATUS_REGISTER at the call.             *)
CheckInterrupts(mi, ip, audio, s) ==
    LET bits == Bits(mi, audio)
        raised == (ip \ {IP2})
                      \cup (IF bits \cap miMask # {} THEN {IP2} ELSE {})
        request == Enabled(s) /\ s.im \cap raised # {} /\ ~action.DoInterrupt
    IN  /\ miIntr' = bits
        /\ fakeIP' = raised
        /\ audioIntr' = audio
        /\ action' = [DoInterrupt |-> action.DoInterrupt \/ request,
                      DoSomething |-> action.DoSomething \/ request]
        /\ stale' = FALSE

-----------------------------------------------------------------------------
(* The switch at the end of ExecuteInterpreterOpCode.                      *)

Fetch == running /\ phase = "op"

(* DELAY_SLOT becomes JUMP. *)
EnterSlot(target) ==
    /\ pc < Last
    /\ pc' = pc + 1
    /\ next' = "JUMP"
    /\ jumpTo' = target
    /\ UNCHANGED <<phase, open>>

(* JUMP.  JumpToLocation is not read again before it is set. *)
Jump(target) ==
    /\ pc' = target
    /\ next' = "NORMAL"
    /\ jumpTo' = 0
    /\ phase' = "poll"
    /\ open' = target

(* An instruction that leaves NextInstruction alone. *)
Advance ==
    \/ /\ next = "NORMAL"
       /\ pc < Last
       /\ pc' = pc + 1
       /\ open' = pc + 1
       /\ UNCHANGED <<next, jumpTo, phase>>
    \/ /\ next = "JUMP"
       /\ Jump(jumpTo)

-----------------------------------------------------------------------------
(* Instructions without a word to the interrupt logic.                     *)

Plain ==
    /\ Fetch
    /\ Advance
    /\ UNCHANGED <<lines, saved, status, miMask, running, withdrawn>>

(* InPermLoop gives up when no interrupt can end the loop. *)
Stuck == ~action.DoInterrupt /\ ~(Enabled(status) /\ status.im # {})

(* Jumps and branches, taken or not.  A jump to itself whose delay slot    *)
(* has no effect goes through InPermLoop.  Compilers put no jump in a      *)
(* delay slot.                                                             *)
Branch ==
    /\ Fetch
    /\ next = "NORMAL"
    /\ \E target \in Addr, effect \in BOOLEAN :
          /\ EnterSlot(target)
          /\ running' = ~(target = pc /\ ~effect /\ Stuck)
    /\ UNCHANGED <<lines, saved, status, miMask, withdrawn>>

(* A likely branch that is not taken skips its delay slot. *)
LikelyNotTaken ==
    /\ Fetch
    /\ next = "NORMAL"
    /\ pc + 2 <= Last
    /\ Jump(pc + 2)
    /\ UNCHANGED <<lines, saved, status, miMask, running, withdrawn>>

-----------------------------------------------------------------------------
(* Exceptions.                                                             *)

WithExl(s) == [s EXCEPT !.exl = TRUE]

(* Mutants: the delay slot is where to resume, or the word before. *)
FaultEpcInSlot == pc
FaultEpcBefore == pc - 1

(* EPC_REGISTER in the Do...Exception functions: a fault in a delay slot   *)
(* resumes at the branch.                                                  *)
FaultEpc == IF next = "JUMP" THEN pc - 1 ELSE pc

SavesEpc ==
    /\ epc' = FaultEpc
    /\ resume' = IF status.exl THEN resume ELSE open
    /\ intact' = ~status.exl

(* DoSysCallException, DoAddressError and DoCopUnusableException do not    *)
(* look at EXL. *)
Syscall ==
    /\ Fetch
    /\ SavesEpc
    /\ status' = WithExl(status)
    /\ Jump(General)
    /\ withdrawn' = TRUE
    /\ UNCHANGED <<lines, miMask, running>>

(* DoTLBMiss keeps EPC when EXL is set.  Which of its vectors it takes     *)
(* depends on the TLB entries.                                             *)
TlbMiss(vector) ==
    /\ IF status.exl
       THEN vector = General /\ UNCHANGED saved
       ELSE vector \in {General, Refill} /\ SavesEpc
    /\ status' = WithExl(status)
    /\ withdrawn' = TRUE
    /\ UNCHANGED <<lines, miMask, running>>

LoadMiss == Fetch /\ \E vector \in Addr : TlbMiss(vector) /\ Jump(vector)

(* A fetch that misses goes to the handler without a poll. *)
FetchMiss ==
    /\ Fetch
    /\ \E vector \in Addr :
          /\ TlbMiss(vector)
          /\ pc' = vector
          /\ open' = vector
    /\ next' = "NORMAL"
    /\ jumpTo' = 0
    /\ UNCHANGED phase

(* ERROREPC holds whatever the program moved there. *)
Eret ==
    /\ Fetch
    /\ next = "NORMAL"
    /\ IF status.erl
       THEN /\ \E target \in Addr : Jump(target)
            /\ status' = [status EXCEPT !.erl = FALSE]
       ELSE /\ Jump(epc)
            /\ status' = [status EXCEPT !.exl = FALSE]
    /\ CheckInterrupts(miIntr, fakeIP, audioIntr, status')
    /\ UNCHANGED <<saved, miMask, running, withdrawn>>

-----------------------------------------------------------------------------
(* MTC0.                                                                   *)

(* Mutant: the interrupts are not checked. *)
MoveToStatusUnchecked ==
    /\ Fetch
    /\ Advance
    /\ status' \in StatusWrites
    /\ intact' = (intact /\ (status.exl \/ ~status'.exl))
    /\ withdrawn' = TRUE
    /\ UNCHANGED <<lines, epc, resume, miMask, running>>

MoveToStatus ==
    /\ Fetch
    /\ Advance
    /\ status' \in StatusWrites
    /\ CheckInterrupts(miIntr, fakeIP, audioIntr, status')
    /\ intact' = (intact /\ (status.exl \/ ~status'.exl))
    /\ withdrawn' = TRUE
    /\ UNCHANGED <<epc, resume, miMask, running>>

(* Compare: the line drops, the interrupts are not checked. *)
MoveToCompare ==
    /\ Fetch
    /\ Advance
    /\ fakeIP' = fakeIP \ {IP7}
    /\ withdrawn' = TRUE
    /\ UNCHANGED <<miIntr, audioIntr, action, stale, saved, status, miMask,
                   running>>

MoveToEpc ==
    /\ Fetch
    /\ Advance
    /\ epc' \in Addr
    /\ intact' = FALSE
    /\ UNCHANGED <<lines, resume, status, miMask, running, withdrawn>>

-----------------------------------------------------------------------------
(* Stores to device registers.                                             *)

(* PI_DMA_READ, PI_DMA_WRITE, SI_DMA_READ and SI_DMA_WRITE are over before *)
(* the next instruction.                                                   *)
DmaDone ==
    /\ Fetch
    /\ Advance
    /\ \E d \in Device \ {"AI", "VI", "SP", "DP"} :
          CheckInterrupts(miIntr \cup {d}, fakeIP, audioIntr, status)
    /\ UNCHANGED <<saved, status, miMask, running, withdrawn>>

(* VI_CURRENT_REG, AI_STATUS_REG, PI_STATUS_REG, SI_STATUS_REG, the DP bit *)
(* of MI_MODE_REG and the SP DMAs. *)
Acknowledge ==
    /\ Fetch
    /\ Advance
    /\ \E d \in Device :
          CheckInterrupts(miIntr \ {d}, fakeIP, audioIntr /\ d # "AI", status)
    /\ withdrawn' = TRUE
    /\ UNCHANGED <<saved, status, miMask, running>>

(* MI_INTR_MASK_REG: the interrupts are not checked. *)
SetMask ==
    /\ Fetch
    /\ Advance
    /\ miMask' \in MaskWrites
    /\ stale' = TRUE
    /\ withdrawn' = TRUE
    /\ UNCHANGED <<fakeIP, miIntr, audioIntr, action, saved, status, running>>

(* SP_STATUS_REG and DPC_STATUS_REG: the store may clear the SP interrupt  *)
(* and may start the RSP.  RunRsp raises DP after a graphics task and SP   *)
(* after any task when the task asked for it; RSP code may clear SP, and   *)
(* does not check the interrupts. *)
SpStatusWrite ==
    \E clear, ran, graphics, rspClears, atBreak \in BOOLEAN :
        LET cleared == IF clear \/ (ran /\ rspClears)
                       THEN miIntr \ {"SP"} ELSE miIntr
            done == cleared \cup (IF ran /\ atBreak THEN {"SP"} ELSE {})
                            \cup (IF ran /\ graphics THEN {"DP"} ELSE {})
        IN  /\ Fetch
            /\ Advance
            /\ graphics => ~rspClears
            /\ IF clear \/ (ran /\ (atBreak \/ graphics))
               THEN CheckInterrupts(done, fakeIP, audioIntr, status)
               ELSE /\ miIntr' = done
                    /\ stale' = (stale \/ done # miIntr)
                    /\ UNCHANGED <<fakeIP, audioIntr, action>>
            /\ withdrawn' = (withdrawn \/ clear \/ ran)
            /\ UNCHANGED <<saved, status, miMask, running>>

Instruction ==
    \/ Plain \/ Branch \/ LikelyNotTaken
    \/ Syscall \/ LoadMiss \/ FetchMiss \/ Eret
    \/ MoveToStatus \/ MoveToCompare \/ MoveToEpc
    \/ DmaDone \/ Acknowledge \/ SetMask \/ SpStatusWrite

-----------------------------------------------------------------------------
(* TimerDone, for the timer that has expired.                              *)

Polls ==
    /\ running
    /\ phase = "poll"
    /\ phase' = "act"
    /\ UNCHANGED <<pc, next, jumpTo, open, saved, status, miMask, running,
                   withdrawn>>

NotExpired == Polls /\ UNCHANGED lines

CompareDone ==
    /\ Polls
    /\ CheckInterrupts(miIntr, fakeIP \cup (IF EnableCompare THEN {IP7} ELSE {}),
                       audioIntr, status)

(* Mutant: the bit is raised but the interrupts are not checked. *)
ViDoneUnchecked ==
    /\ Polls
    /\ miIntr' = miIntr \cup {"VI"}
    /\ UNCHANGED <<fakeIP, audioIntr, action, stale>>

ViDone ==
    /\ Polls
    /\ CheckInterrupts(miIntr \cup {"VI"}, fakeIP, audioIntr, status)

AiDone ==
    /\ Polls
    /\ CheckInterrupts(miIntr, fakeIP, TRUE, status)

(* Mutant: the request is left behind. *)
ServedNotInterrupt == [action EXCEPT !.DoSomething = FALSE]

Served == [DoInterrupt |-> FALSE, DoSomething |-> FALSE]

(* DoSomething.  DoIntrException looks at IE, EXL and ERL again, but not   *)
(* at the lines. *)
TakesInterrupt == action.DoSomething /\ action.DoInterrupt /\ Enabled(status)

DoSomething ==
    /\ running
    /\ phase = "act"
    /\ IF TakesInterrupt
       THEN /\ epc' = pc
            /\ resume' = open
            /\ intact' = TRUE
            /\ status' = WithExl(status)
            /\ pc' = General
            /\ open' = General
       ELSE UNCHANGED <<saved, status, pc, open>>
    /\ action' = IF action.DoSomething THEN Served ELSE action
    /\ phase' = "op"
    /\ withdrawn' = FALSE
    /\ UNCHANGED <<next, jumpTo, fakeIP, miIntr, audioIntr, stale, miMask,
                   running>>

Poll == NotExpired \/ CompareDone \/ ViDone \/ AiDone

(* StartInterpreterCPU returns. *)
Stopped == ~running /\ UNCHANGED vars

Next == Instruction \/ Poll \/ DoSomething \/ Stopped

(* Registers come from the save state; FAKE_CAUSE_REGISTER and CPU_Action  *)
(* are cleared, AudioIntrReg is what the previous track left in it.        *)
Init ==
    /\ pc \in Addr /\ open = pc
    /\ next = "NORMAL" /\ jumpTo = 0 /\ phase = "op"
    /\ status \in StatusWrites
    /\ epc \in Addr /\ resume = 0 /\ intact = FALSE
    /\ miIntr \in MaskWrites /\ miMask \in MaskWrites
    /\ fakeIP = {}
    /\ audioIntr \in BOOLEAN
    /\ action = [DoInterrupt |-> FALSE, DoSomething |-> FALSE]
    /\ running = TRUE
    /\ stale = TRUE /\ withdrawn = FALSE

Spec == Init /\ [][Next]_vars

(* Code without a jump ends, so that jumps are reached and polled, and the *)
(* VI timer is served again and again (ViKeepsComing of module Timers).    *)
Proceeds == running /\ phase' \in {"op", "poll", "act"} \ {phase}

FairSpec == Spec /\ WF_phase(Proceeds) /\ SF_vars(ViDone)

-----------------------------------------------------------------------------
TypeOK ==
    /\ pc \in Addr /\ jumpTo \in Addr /\ epc \in Addr
    /\ open \in Addr /\ resume \in Addr
    /\ next \in {"NORMAL", "JUMP"} /\ phase \in {"op", "poll", "act"}
    /\ status \in Status
    /\ fakeIP \subseteq Line
    /\ miIntr \subseteq Device /\ miMask \subseteq Device
    /\ action \in [DoInterrupt : BOOLEAN, DoSomething : BOOLEAN]
    /\ audioIntr \in BOOLEAN /\ running \in BOOLEAN
    /\ intact \in BOOLEAN /\ stale \in BOOLEAN /\ withdrawn \in BOOLEAN

Justified == Enabled(status) /\ status.im \cap fakeIP # {}

(* Whenever interrupts are enabled and a line is raised, an interrupt has  *)
(* been requested: no path through a status write, ERET, a device store or *)
(* a timer leaves a raised line without a request (CheckInterrupts,        *)
(* DoSomething).                                                           *)
RequestNotLost ==
    Justified => action.DoInterrupt /\ action.DoSomething

(* An interrupt whose cause is gone by the time it is taken was withdrawn  *)
(* by the program itself since the last jump: the emulator adds no         *)
(* spurious interrupts of its own.                                         *)
SpuriousOnlyIfWithdrawn ==
    action.DoInterrupt => Justified \/ withdrawn

(* Where the interrupt logic has looked since the last change of a bit,    *)
(* IP2 says whether an unmasked bit is up, and the AI bit is that of the   *)
(* audio interface (CheckInterrupts copies it from AudioIntrReg).          *)
CauseIsCurrent ==
    ~stale => /\ IP2 \in fakeIP <=> miIntr \cap miMask # {}
              /\ "AI" \in miIntr <=> audioIntr

(* An exception handler that returns with ERET goes on with the first      *)
(* instruction that was not complete, with the branch when a delay slot    *)
(* faulted and with the target when an interrupt came after a jump, unless *)
(* EPC was overwritten by the program or by a fault inside the handler.    *)
ResumesWhereInterrupted ==
    status.exl /\ intact => epc = resume

PendingAndUnmasked ==
    running /\ Enabled(status) /\ IP2 \in status.im /\ miIntr \cap miMask # {}

(* A device that keeps its bit up while the program leaves it unmasked and *)
(* interrupts enabled is served, though a change of the mask is not looked *)
(* at when it is made: the next VI makes up for it.                        *)
PendingIsServed == PendingAndUnmasked ~> ~PendingAndUnmasked
=============================================================================
