---------------------------- MODULE CpuLoopProof ----------------------------
(***************************************************************************)
(* Proofs about CpuLoop, for every code size, every set of devices and     *)
(* every program: the four safety invariants that its run checks.          *)
(***************************************************************************)
EXTENDS CpuLoop, TLAPS

(* Where the CPU is.  A delay slot follows its branch, and a jump has been *)
(* made by the time the timers are polled.                                 *)
ControlInv ==
    /\ next = "JUMP" => pc >= 1 /\ phase = "op"
    /\ open = FaultEpc

(* A request is either still justified, and what justifies it is current,  *)
(* or the program has withdrawn it.                                        *)
RequestInv ==
    /\ action.DoSomething = action.DoInterrupt
    /\ action.DoInterrupt => withdrawn \/ (Justified /\ ~stale)

CpuInv ==
    /\ TypeOK /\ ControlInv /\ RequestInv
    /\ RequestNotLost /\ CauseIsCurrent /\ ResumesWhereInterrupted

-----------------------------------------------------------------------------
(* CheckInterrupts types its results, requests what is raised and enabled, *)
(* and brings the lines up to date.                                        *)
LEMMA Checked ==
    ASSUME TypeOK, RequestInv, NEW mi \in SUBSET Device, NEW ip \in SUBSET Line,
           NEW audio \in BOOLEAN, NEW s \in Status, status' = s,
           miMask' = miMask, CheckInterrupts(mi, ip, audio, s)
    PROVE  /\ miIntr' = (mi \ {"AI"}) \cup (IF audio THEN {"AI"} ELSE {})
           /\ miIntr' \subseteq Device /\ fakeIP' \subseteq Line
           /\ audioIntr' = audio /\ stale' = FALSE
           /\ action' \in [DoInterrupt : BOOLEAN, DoSomething : BOOLEAN]
           /\ action'.DoSomething = action'.DoInterrupt
           /\ action.DoInterrupt => action'.DoInterrupt
           /\ action'.DoInterrupt => action.DoInterrupt \/ Justified'
           /\ RequestNotLost' /\ CauseIsCurrent'
           /\ fakeIP' = (ip \ {IP2})
                  \cup (IF miIntr' \cap miMask # {} THEN {IP2} ELSE {})
<1> DEFINE raised == (ip \ {IP2})
                \cup (IF Bits(mi, audio) \cap miMask # {} THEN {IP2} ELSE {})
           request == /\ Enabled(s) /\ s.im \cap raised # {}
                      /\ ~action.DoInterrupt
<1>1. /\ miIntr' = Bits(mi, audio) /\ fakeIP' = raised
      /\ audioIntr' = audio /\ stale' = FALSE
      /\ action' = [DoInterrupt |-> action.DoInterrupt \/ request,
                    DoSomething |-> action.DoSomething \/ request]
  BY DEF CheckInterrupts
<1>2. Bits(mi, audio) \subseteq Device /\ raised \subseteq Line
  BY CpuLoopAssumption DEF Bits, Line, IP2
<1>3. action.DoInterrupt \in BOOLEAN /\ action.DoSomething \in BOOLEAN
      /\ request \in BOOLEAN /\ action.DoSomething = action.DoInterrupt
  BY DEF TypeOK, RequestInv, Enabled
<1>4. Justified' <=> Enabled(s) /\ s.im \cap raised # {}
  BY <1>1 DEF Justified
<1>5. request <=> Justified' /\ ~action.DoInterrupt
  BY <1>4
<1>6. /\ IP2 \in fakeIP' <=> miIntr' \cap miMask # {}
      /\ "AI" \in miIntr' <=> audio
  BY <1>1 DEF Bits, IP2
<1> HIDE DEF request
<1>7. /\ action'.DoInterrupt = (action.DoInterrupt \/ request)
      /\ action'.DoSomething = (action.DoSomething \/ request)
      /\ action' \in [DoInterrupt : BOOLEAN, DoSomething : BOOLEAN]
  BY <1>1, <1>3
<1>8. RequestNotLost' /\ CauseIsCurrent'
  BY <1>1, <1>3, <1>5, <1>6, <1>7 DEF RequestNotLost, CauseIsCurrent
<1> QED
  BY <1>1, <1>2, <1>3, <1>5, <1>7, <1>8 DEF Bits

(* What justified a request still does, when the bits and the lines only   *)
(* grow and the status stays. *)
LEMMA StaysJustified ==
    ASSUME TypeOK, RequestInv, CauseIsCurrent,
           NEW mi \in SUBSET Device, miIntr \subseteq mi,
           NEW ip \in SUBSET Line, fakeIP \subseteq ip,
           NEW audio \in BOOLEAN, audioIntr => audio,
           status' = status, miMask' = miMask,
           CheckInterrupts(mi, ip, audio, status),
           withdrawn' = withdrawn
    PROVE  RequestInv'
<1>1. /\ miIntr' = (mi \ {"AI"}) \cup (IF audio THEN {"AI"} ELSE {})
      /\ stale' = FALSE
      /\ action'.DoSomething = action'.DoInterrupt
      /\ action'.DoInterrupt => action.DoInterrupt \/ Justified'
      /\ fakeIP' = (ip \ {IP2})
                  \cup (IF miIntr' \cap miMask # {} THEN {IP2} ELSE {})
  <2>1. status \in Status
    BY DEF TypeOK
  <2> QED
    BY <2>1, Checked DEF CheckInterrupts
<1>2. ASSUME action.DoInterrupt, ~withdrawn
      PROVE  Justified'
  <2>1. Justified /\ ~stale
    BY <1>2 DEF RequestInv
  <2>2. /\ IP2 \in fakeIP <=> miIntr \cap miMask # {}
        /\ "AI" \in miIntr <=> audioIntr
    BY <2>1 DEF CauseIsCurrent
  <2>3. miIntr \subseteq miIntr'
    BY <1>1, <2>2
  <2>4. fakeIP \subseteq fakeIP'
    BY <1>1, <2>2, <2>3
  <2> QED
    BY <2>1, <2>4 DEF Justified
<1> QED
  BY <1>1, <1>2 DEF RequestInv

(* Moving on keeps the CPU between an instruction and the next. *)
LEMMA AdvanceControl ==
    ASSUME TypeOK, ControlInv, Fetch, Advance
    PROVE  /\ ControlInv'
           /\ pc' \in Addr /\ jumpTo' \in Addr /\ open' \in Addr
           /\ next' \in {"NORMAL", "JUMP"} /\ phase' \in {"op", "poll", "act"}
<1>1. CASE next = "NORMAL"
  BY <1>1, CpuLoopAssumption
     DEF Advance, Fetch, TypeOK, ControlInv, FaultEpc, Addr
<1>2. CASE next = "JUMP"
  BY <1>2, CpuLoopAssumption
     DEF Advance, Jump, Fetch, TypeOK, ControlInv, FaultEpc, Addr
<1> QED
  BY <1>1, <1>2 DEF TypeOK

LEMMA JumpControl ==
    ASSUME TypeOK, NEW target \in Addr, Jump(target)
    PROVE  /\ ControlInv'
           /\ pc' \in Addr /\ jumpTo' \in Addr /\ open' \in Addr
           /\ next' \in {"NORMAL", "JUMP"} /\ phase' \in {"op", "poll", "act"}
BY CpuLoopAssumption DEF Jump, ControlInv, FaultEpc, Addr

(* A fault saves the place that was open. *)
LEMMA SavesOpen ==
    ASSUME CpuInv, SavesEpc
    PROVE  /\ ResumesWhereInterrupted'
           /\ epc' \in Addr /\ resume' \in Addr /\ intact' \in BOOLEAN
<1>1. epc' = open /\ open \in Addr
  BY DEF SavesEpc, CpuInv, ControlInv, TypeOK
<1>2. status.exl \in BOOLEAN /\ resume \in Addr
  BY DEF CpuInv, TypeOK, Status
<1> QED
  BY <1>1, <1>2 DEF SavesEpc, ResumesWhereInterrupted

LEMMA SetsExl ==
    ASSUME TypeOK
    PROVE  WithExl(status) \in Status /\ WithExl(status).exl
           /\ ~Enabled(WithExl(status))
BY DEF TypeOK, WithExl, Status, Enabled

-----------------------------------------------------------------------------
LEMMA InitInv == Init => CpuInv
<1> SUFFICES ASSUME Init PROVE CpuInv
  OBVIOUS
<1>1. TypeOK
  <2>1. /\ pc \in Addr /\ jumpTo \in Addr /\ epc \in Addr
        /\ open \in Addr /\ resume \in Addr
    BY CpuLoopAssumption DEF Init, Addr
  <2>2. /\ status \in Status /\ fakeIP \subseteq Line
        /\ miIntr \subseteq Device /\ miMask \subseteq Device
    BY CpuLoopAssumption DEF Init
  <2>3. action \in [DoInterrupt : BOOLEAN, DoSomething : BOOLEAN]
    BY DEF Init
  <2> QED
    BY <2>1, <2>2, <2>3 DEF Init, TypeOK
<1>2. ControlInv /\ RequestInv
  BY DEF Init, ControlInv, FaultEpc, RequestInv
<1>3. RequestNotLost /\ CauseIsCurrent /\ ResumesWhereInterrupted
  BY DEF Init, RequestNotLost, Justified, CauseIsCurrent,
         ResumesWhereInterrupted
<1> QED
  BY <1>1, <1>2, <1>3 DEF CpuInv

(* Instructions that leave the interrupt logic alone. *)
LEMMA QuietInv ==
    ASSUME CpuInv, Plain \/ Branch \/ LikelyNotTaken \/ MoveToEpc
    PROVE  CpuInv'
<1> USE DEF CpuInv
<1>1. /\ UNCHANGED <<lines, status, miMask, withdrawn>>
      /\ UNCHANGED resume /\ running' \in BOOLEAN
      /\ (epc' = epc /\ intact' = intact)
         \/ (epc' \in Addr /\ intact' = FALSE)
  <2>1. CASE Plain
    BY <2>1 DEF Plain, saved, TypeOK
  <2>2. CASE Branch
    BY <2>2 DEF Branch, saved
  <2>3. CASE LikelyNotTaken
    BY <2>3 DEF LikelyNotTaken, saved, TypeOK
  <2>4. CASE MoveToEpc
    BY <2>4 DEF MoveToEpc, TypeOK
  <2> QED
    BY <2>1, <2>2, <2>3, <2>4
<1>2. /\ ControlInv'
      /\ pc' \in Addr /\ jumpTo' \in Addr /\ open' \in Addr
      /\ next' \in {"NORMAL", "JUMP"} /\ phase' \in {"op", "poll", "act"}
  <2>1. CASE Plain \/ MoveToEpc
    BY <2>1, AdvanceControl DEF Plain, MoveToEpc
  <2>2. CASE Branch
    <3>1. PICK target \in Addr : EnterSlot(target)
      BY <2>2 DEF Branch
    <3> QED
      BY <2>2, <3>1, CpuLoopAssumption
         DEF EnterSlot, Branch, Fetch, TypeOK, ControlInv, FaultEpc, Addr
  <2>3. CASE LikelyNotTaken
    <3>1. pc + 2 \in Addr
      BY <2>3, CpuLoopAssumption DEF LikelyNotTaken, TypeOK, Addr
    <3> QED
      BY <2>3, <3>1, JumpControl DEF LikelyNotTaken
  <2> QED
    BY <2>1, <2>2, <2>3
<1>3. TypeOK'
  BY <1>1, <1>2 DEF TypeOK, lines
<1>4. RequestInv' /\ RequestNotLost' /\ CauseIsCurrent'
  BY <1>1 DEF lines, RequestInv, RequestNotLost, Justified, CauseIsCurrent
<1>5. ResumesWhereInterrupted'
  BY <1>1 DEF ResumesWhereInterrupted
<1> QED
  BY <1>2, <1>3, <1>4, <1>5

(* Faults: nothing is justified once EXL is set. *)
LEMMA FaultInv ==
    ASSUME CpuInv, Syscall \/ LoadMiss \/ FetchMiss
    PROVE  CpuInv'
<1> USE DEF CpuInv
<1>1. /\ UNCHANGED lines /\ miMask' = miMask /\ running' = running
      /\ status' = WithExl(status) /\ withdrawn' = TRUE
      /\ SavesEpc \/ (status.exl /\ UNCHANGED saved)
  <2>1. CASE Syscall
    BY <2>1 DEF Syscall
  <2>2. CASE LoadMiss \/ FetchMiss
    BY <2>2 DEF LoadMiss, FetchMiss, TlbMiss
  <2> QED
    BY <2>1, <2>2
<1>2. /\ ControlInv'
      /\ pc' \in Addr /\ jumpTo' \in Addr /\ open' \in Addr
      /\ next' \in {"NORMAL", "JUMP"} /\ phase' \in {"op", "poll", "act"}
  <2>1. CASE Syscall
    BY <2>1, JumpControl, CpuLoopAssumption DEF Syscall
  <2>2. CASE LoadMiss
    BY <2>2, JumpControl DEF LoadMiss
  <2>3. CASE FetchMiss
    BY <2>3, CpuLoopAssumption
       DEF FetchMiss, Fetch, TypeOK, ControlInv, FaultEpc, Addr
  <2> QED
    BY <2>1, <2>2, <2>3
<1>3. /\ epc' \in Addr /\ resume' \in Addr /\ intact' \in BOOLEAN
      /\ ResumesWhereInterrupted'
  <2>1. CASE SavesEpc
    BY <2>1, SavesOpen
  <2>2. CASE status.exl /\ UNCHANGED saved
    BY <2>2 DEF saved, TypeOK, ResumesWhereInterrupted
  <2> QED
    BY <1>1, <2>1, <2>2
<1>4. TypeOK'
  BY <1>1, <1>2, <1>3, SetsExl DEF TypeOK, lines
<1>5. ~Justified'
  BY <1>1, SetsExl DEF Justified
<1>6. RequestInv' /\ RequestNotLost' /\ CauseIsCurrent'
  BY <1>1, <1>5 DEF lines, RequestInv, RequestNotLost, CauseIsCurrent
<1> QED
  BY <1>2, <1>3, <1>4, <1>6

(* What an instruction must do to the rest of the state when it checks the *)
(* interrupts: the request stays justified, or withdrawn is set.           *)
LEMMA CheckingInv ==
    ASSUME CpuInv,
           NEW mi \in SUBSET Device, NEW ip \in SUBSET Line,
           NEW audio \in BOOLEAN, NEW s \in Status, status' = s,
           CheckInterrupts(mi, ip, audio, s),
           miMask' = miMask, running' = running,
           ControlInv',
           pc' \in Addr, jumpTo' \in Addr, open' \in Addr,
           next' \in {"NORMAL", "JUMP"}, phase' \in {"op", "poll", "act"},
           epc' = epc, resume' = resume, intact' \in BOOLEAN,
           intact' => intact, s.exl /\ intact' => status.exl,
           withdrawn' = TRUE \/ (withdrawn' = withdrawn /\ RequestInv')
    PROVE  CpuInv'
<1>1. /\ miIntr' \subseteq Device /\ fakeIP' \subseteq Line
      /\ audioIntr' = audio /\ stale' = FALSE
      /\ action' \in [DoInterrupt : BOOLEAN, DoSomething : BOOLEAN]
      /\ action'.DoSomething = action'.DoInterrupt
      /\ RequestNotLost' /\ CauseIsCurrent'
  BY Checked DEF CheckInterrupts, CpuInv
<1>2. TypeOK'
  BY <1>1 DEF CpuInv, TypeOK
<1>3. RequestInv'
  BY <1>1 DEF RequestInv
<1>4. ResumesWhereInterrupted'
  BY DEF CpuInv, ResumesWhereInterrupted
<1> QED
  BY <1>1, <1>2, <1>3, <1>4 DEF CpuInv

LEMMA EretInv ==
    ASSUME CpuInv, Eret
    PROVE  CpuInv'
<1>1. /\ CheckInterrupts(miIntr, fakeIP, audioIntr, status')
      /\ UNCHANGED <<saved, miMask, running, withdrawn>>
  BY DEF Eret
<1>2. PICK target \in Addr : Jump(target)
  BY DEF Eret, CpuInv, TypeOK
<1>3. /\ status' \in Status
      /\ status'.exl => status.exl
      /\ Enabled(status) => status' = status
  BY DEF Eret, CpuInv, TypeOK, Status, Enabled
<1>4. /\ ControlInv'
      /\ pc' \in Addr /\ jumpTo' \in Addr /\ open' \in Addr
      /\ next' \in {"NORMAL", "JUMP"} /\ phase' \in {"op", "poll", "act"}
  BY <1>2, JumpControl DEF CpuInv
<1>5. /\ miIntr \in SUBSET Device /\ fakeIP \in SUBSET Line
      /\ audioIntr \in BOOLEAN /\ intact \in BOOLEAN
      /\ withdrawn \in BOOLEAN
  BY DEF CpuInv, TypeOK
<1>6. RequestInv'
  <2>1. CASE status' = status
    BY <1>1, <1>5, <2>1, StaysJustified DEF CheckInterrupts, CpuInv
  <2>2. CASE status' # status
    <3>1. /\ action'.DoSomething = action'.DoInterrupt
          /\ stale' = FALSE
          /\ action'.DoInterrupt => action.DoInterrupt \/ Justified'
      BY <1>1, <1>3, <1>5, Checked DEF CheckInterrupts, CpuInv
    <3>2. action.DoInterrupt => withdrawn
      BY <1>3, <2>2 DEF CpuInv, RequestInv, Justified
    <3> QED
      BY <1>1, <3>1, <3>2 DEF RequestInv
  <2> QED
    BY <2>1, <2>2
<1> QED
  BY <1>1, <1>3, <1>4, <1>5, <1>6, CheckingInv DEF saved, CheckInterrupts

LEMMA MoveToStatusInv ==
    ASSUME CpuInv, MoveToStatus
    PROVE  CpuInv'
<1>1. /\ ControlInv'
      /\ pc' \in Addr /\ jumpTo' \in Addr /\ open' \in Addr
      /\ next' \in {"NORMAL", "JUMP"} /\ phase' \in {"op", "poll", "act"}
  BY AdvanceControl DEF MoveToStatus, CpuInv
<1>2. /\ miIntr \in SUBSET Device /\ fakeIP \in SUBSET Line
      /\ audioIntr \in BOOLEAN /\ intact \in BOOLEAN
      /\ status.exl \in BOOLEAN
  BY DEF CpuInv, TypeOK, Status
<1>3. status' \in Status /\ status'.exl \in BOOLEAN
  BY CpuLoopAssumption DEF MoveToStatus, Status
<1>4. /\ epc' = epc /\ resume' = resume
      /\ intact' = (intact /\ (status.exl \/ ~status'.exl))
      /\ withdrawn' = TRUE /\ miMask' = miMask /\ running' = running
      /\ CheckInterrupts(miIntr, fakeIP, audioIntr, status')
  BY DEF MoveToStatus
<1>5. /\ intact' \in BOOLEAN /\ intact' => intact
      /\ status'.exl /\ intact' => status.exl
  BY <1>2, <1>3, <1>4
<1> QED
  BY <1>1, <1>2, <1>3, <1>4, <1>5, CheckingInv DEF CheckInterrupts

(* The bits a store raises add to what justifies a request. *)
LEMMA DmaDoneInv ==
    ASSUME CpuInv, DmaDone
    PROVE  CpuInv'
<1>1. /\ ControlInv'
      /\ pc' \in Addr /\ jumpTo' \in Addr /\ open' \in Addr
      /\ next' \in {"NORMAL", "JUMP"} /\ phase' \in {"op", "poll", "act"}
  BY AdvanceControl DEF DmaDone, CpuInv
<1>2. PICK d \in Device :
        CheckInterrupts(miIntr \cup {d}, fakeIP, audioIntr, status)
  BY DEF DmaDone
<1>3. /\ miIntr \cup {d} \in SUBSET Device /\ fakeIP \in SUBSET Line
      /\ audioIntr \in BOOLEAN /\ status \in Status /\ intact \in BOOLEAN
  BY DEF CpuInv, TypeOK
<1>4. /\ UNCHANGED <<epc, resume, intact>> /\ status' = status
      /\ miMask' = miMask /\ running' = running /\ withdrawn' = withdrawn
  BY DEF DmaDone, saved
<1>5. RequestInv'
  BY <1>2, <1>3, <1>4, StaysJustified DEF CheckInterrupts, CpuInv
<1> QED
  BY <1>1, <1>2, <1>3, <1>4, <1>5, CheckingInv DEF CheckInterrupts

LEMMA AcknowledgeInv ==
    ASSUME CpuInv, Acknowledge
    PROVE  CpuInv'
<1>1. /\ ControlInv'
      /\ pc' \in Addr /\ jumpTo' \in Addr /\ open' \in Addr
      /\ next' \in {"NORMAL", "JUMP"} /\ phase' \in {"op", "poll", "act"}
  BY AdvanceControl DEF Acknowledge, CpuInv
<1>2. PICK d \in Device :
        CheckInterrupts(miIntr \ {d}, fakeIP, audioIntr /\ d # "AI", status)
  BY DEF Acknowledge
<1>3. /\ miIntr \ {d} \in SUBSET Device /\ fakeIP \in SUBSET Line
      /\ (audioIntr /\ d # "AI") \in BOOLEAN /\ status \in Status
      /\ intact \in BOOLEAN
  BY DEF CpuInv, TypeOK
<1>4. /\ UNCHANGED <<epc, resume, intact>> /\ status' = status
      /\ miMask' = miMask /\ running' = running /\ withdrawn' = TRUE
  BY DEF Acknowledge, saved
<1> QED
  BY <1>1, <1>2, <1>3, <1>4, CheckingInv DEF CheckInterrupts

(* Stores that change a bit and do not check. *)
LEMMA UncheckedInv ==
    ASSUME CpuInv, Fetch, Advance,
           UNCHANGED <<saved, status, running, audioIntr, action>>,
           fakeIP' \subseteq Line, miIntr' \subseteq Device,
           miMask' \subseteq Device,
           stale' \in BOOLEAN, withdrawn' \in BOOLEAN,
           \/ UNCHANGED <<fakeIP, miIntr, miMask, stale, withdrawn>>
           \/ fakeIP' = fakeIP /\ stale' /\ withdrawn'
           \/ /\ fakeIP' \subseteq fakeIP /\ withdrawn'
              /\ IP2 \in fakeIP <=> IP2 \in fakeIP'
              /\ UNCHANGED <<miIntr, miMask, stale>>
    PROVE  CpuInv'
<1> USE DEF CpuInv
<1>1. /\ ControlInv'
      /\ pc' \in Addr /\ jumpTo' \in Addr /\ open' \in Addr
      /\ next' \in {"NORMAL", "JUMP"} /\ phase' \in {"op", "poll", "act"}
  BY AdvanceControl
<1>2. TypeOK'
  BY <1>1 DEF TypeOK, saved
<1>3. Justified' => Justified
  BY DEF Justified
<1>4. RequestNotLost' /\ CauseIsCurrent' /\ ResumesWhereInterrupted'
  BY <1>3 DEF RequestNotLost, CauseIsCurrent, ResumesWhereInterrupted, saved
<1>5. RequestInv'
  BY DEF RequestInv, Justified
<1> QED
  BY <1>1, <1>2, <1>4, <1>5

LEMMA MoveToCompareInv ==
    ASSUME CpuInv, MoveToCompare
    PROVE  CpuInv'
<1>1. /\ fakeIP' = fakeIP \ {IP7} /\ withdrawn' = TRUE
      /\ UNCHANGED <<miIntr, audioIntr, action, stale, saved, status, miMask,
                     running>>
      /\ Fetch /\ Advance
  BY DEF MoveToCompare
<1>2. /\ fakeIP \subseteq Line /\ miIntr \subseteq Device
      /\ miMask \subseteq Device /\ stale \in BOOLEAN
  BY DEF CpuInv, TypeOK
<1>3. /\ fakeIP' \subseteq Line /\ fakeIP' \subseteq fakeIP
      /\ IP2 \in fakeIP <=> IP2 \in fakeIP'
  BY <1>1, <1>2 DEF IP2, IP7
<1> QED
  BY <1>1, <1>2, <1>3, UncheckedInv

LEMMA SetMaskInv ==
    ASSUME CpuInv, SetMask
    PROVE  CpuInv'
<1>1. /\ miMask' \in MaskWrites /\ stale' = TRUE /\ withdrawn' = TRUE
      /\ UNCHANGED <<fakeIP, miIntr, audioIntr, action, saved, status, running>>
      /\ Fetch /\ Advance
  BY DEF SetMask
<1>2. fakeIP \subseteq Line /\ miIntr \subseteq Device
  BY DEF CpuInv, TypeOK
<1>3. miMask' \subseteq Device
  BY <1>1, CpuLoopAssumption
<1> QED
  BY <1>1, <1>2, <1>3, UncheckedInv

LEMMA SpStatusWriteInv ==
    ASSUME CpuInv, SpStatusWrite
    PROVE  CpuInv'
<1>1. PICK clear, ran, graphics, rspClears, atBreak \in BOOLEAN :
        LET cleared == IF clear \/ (ran /\ rspClears)
                       THEN miIntr \ {"SP"} ELSE miIntr
            done == cleared \cup (IF ran /\ atBreak THEN {"SP"} ELSE {})
                            \cup (IF ran /\ graphics THEN {"DP"} ELSE {})
        IN  /\ Fetch
            /\ Advance
            /\ graphics => ~rspClears
            /\ IF clear \/ (ran /\ (atBreak \/ graphics))
               THEN CheckInterrupts(done, fakeIP, audioIntr, status)
               ELSE /\ miIntr' = done
                    /\ stale' = (stale \/ done # miIntr)
                    /\ UNCHANGED <<fakeIP, audioIntr, action>>
            /\ withdrawn' = (withdrawn \/ clear \/ ran)
            /\ UNCHANGED <<saved, status, miMask, running>>
  BY DEF SpStatusWrite
<1> DEFINE cleared == IF clear \/ (ran /\ rspClears)
                      THEN miIntr \ {"SP"} ELSE miIntr
           done == cleared \cup (IF ran /\ atBreak THEN {"SP"} ELSE {})
                           \cup (IF ran /\ graphics THEN {"DP"} ELSE {})
           checks == clear \/ (ran /\ (atBreak \/ graphics))
<1>2. /\ Fetch /\ Advance
      /\ withdrawn' = (withdrawn \/ clear \/ ran)
      /\ UNCHANGED <<saved, status, miMask, running>>
      /\ checks => CheckInterrupts(done, fakeIP, audioIntr, status)
      /\ ~checks => /\ miIntr' = done
                    /\ stale' = (stale \/ done # miIntr)
                    /\ UNCHANGED <<fakeIP, audioIntr, action>>
  BY <1>1
<1>3. /\ miIntr \subseteq Device /\ fakeIP \subseteq Line
      /\ audioIntr \in BOOLEAN /\ status \in Status /\ intact \in BOOLEAN
      /\ miMask \subseteq Device /\ stale \in BOOLEAN /\ withdrawn \in BOOLEAN
  BY DEF CpuInv, TypeOK
<1>4. done \subseteq Device
  BY <1>3, CpuLoopAssumption
<1>5. ~checks /\ ~ran => done = miIntr
  OBVIOUS
<1> HIDE DEF done
<1>6. CASE checks
  <2>1. withdrawn' = TRUE
    BY <1>2, <1>6
  <2>2. /\ ControlInv'
        /\ pc' \in Addr /\ jumpTo' \in Addr /\ open' \in Addr
        /\ next' \in {"NORMAL", "JUMP"} /\ phase' \in {"op", "poll", "act"}
    BY <1>2, AdvanceControl DEF CpuInv
  <2>3. CheckInterrupts(done, fakeIP, audioIntr, status)
    BY <1>2, <1>6
  <2> HIDE DEF checks
  <2> QED
    BY <1>2, <1>3, <1>4, <2>1, <2>2, <2>3, CheckingInv
       DEF CheckInterrupts, saved
<1>7. CASE ~checks
  <2>1. withdrawn' \in BOOLEAN /\ stale' \in BOOLEAN
    BY <1>2, <1>3, <1>7
  <2>2. \/ UNCHANGED <<miIntr, stale, withdrawn>>
        \/ stale' /\ withdrawn'
        \/ withdrawn' /\ UNCHANGED <<miIntr, stale>>
    BY <1>2, <1>3, <1>5, <1>7
  <2> QED
    BY <1>2, <1>3, <1>4, <1>7, <2>1, <2>2, UncheckedInv
<1> QED
  BY <1>6, <1>7

(* Serving a timer only raises lines. *)
LEMMA PollInv ==
    ASSUME CpuInv, Poll
    PROVE  CpuInv'
<1>1. /\ UNCHANGED <<pc, next, jumpTo, open, epc, resume, intact, status,
                     miMask, running, withdrawn>>
      /\ phase = "poll" /\ phase' = "act"
  BY DEF Poll, NotExpired, CompareDone, ViDone, AiDone, Polls, saved
<1>2. /\ ControlInv'
      /\ pc' \in Addr /\ jumpTo' \in Addr /\ open' \in Addr
      /\ next' \in {"NORMAL", "JUMP"} /\ phase' \in {"op", "poll", "act"}
  BY <1>1 DEF CpuInv, TypeOK, ControlInv, FaultEpc
<1>3. /\ miIntr \subseteq Device /\ fakeIP \subseteq Line
      /\ audioIntr \in BOOLEAN /\ status \in Status /\ intact \in BOOLEAN
  BY DEF CpuInv, TypeOK
<1>4. ASSUME NEW mi \in SUBSET Device, miIntr \subseteq mi,
             NEW ip \in SUBSET Line, fakeIP \subseteq ip,
             NEW audio \in BOOLEAN, audioIntr => audio,
             CheckInterrupts(mi, ip, audio, status)
      PROVE  CpuInv'
  <2>1. RequestInv'
    BY <1>1, <1>4, StaysJustified DEF CheckInterrupts, CpuInv
  <2> QED
    BY <1>1, <1>2, <1>3, <1>4, <2>1, CheckingInv DEF CheckInterrupts
<1>5. CASE NotExpired
  <2>1. UNCHANGED lines
    BY <1>5 DEF NotExpired
  <2>2. TypeOK'
    BY <1>1, <1>2, <2>1 DEF CpuInv, TypeOK, lines
  <2>3. RequestInv' /\ RequestNotLost' /\ CauseIsCurrent'
        /\ ResumesWhereInterrupted'
    BY <1>1, <2>1 DEF CpuInv, lines, RequestInv, RequestNotLost, Justified,
                      CauseIsCurrent, ResumesWhereInterrupted
  <2> QED
    BY <1>2, <2>2, <2>3 DEF CpuInv
<1>6. CASE CompareDone
  <2> DEFINE ip == fakeIP \cup (IF EnableCompare THEN {IP7} ELSE {})
  <2>1. CheckInterrupts(miIntr, ip, audioIntr, status)
    BY <1>6 DEF CompareDone
  <2>2. ip \in SUBSET Line /\ fakeIP \subseteq ip
    BY <1>3 DEF Line
  <2> HIDE DEF ip
  <2> QED
    BY <1>3, <1>4, <2>1, <2>2 DEF CheckInterrupts
<1>7. CASE ViDone
  <2>1. CheckInterrupts(miIntr \cup {"VI"}, fakeIP, audioIntr, status)
    BY <1>7 DEF ViDone
  <2>2. miIntr \cup {"VI"} \in SUBSET Device
    BY <1>3, CpuLoopAssumption
  <2> QED
    BY <1>3, <1>4, <2>1, <2>2 DEF CheckInterrupts
<1>8. CASE AiDone
  <2>1. CheckInterrupts(miIntr, fakeIP, TRUE, status)
    BY <1>8 DEF AiDone
  <2> QED
    BY <1>3, <1>4, <2>1 DEF CheckInterrupts
<1> QED
  BY <1>5, <1>6, <1>7, <1>8 DEF Poll

LEMMA DoSomethingInv ==
    ASSUME CpuInv, DoSomething
    PROVE  CpuInv'
<1> USE DEF CpuInv
<1>1. /\ UNCHANGED <<next, jumpTo, fakeIP, miIntr, audioIntr, stale, miMask,
                     running>>
      /\ phase = "act" /\ phase' = "op" /\ withdrawn' = FALSE
      /\ next = "NORMAL" /\ open = pc
  BY DEF DoSomething, TypeOK, ControlInv, FaultEpc
<1>2. /\ action' \in [DoInterrupt : BOOLEAN, DoSomething : BOOLEAN]
      /\ ~action'.DoInterrupt /\ ~action'.DoSomething
  <2>1. CASE action.DoSomething
    BY <2>1 DEF DoSomething, Served
  <2>2. CASE ~action.DoSomething
    BY <2>2 DEF DoSomething, RequestInv, TypeOK
  <2> QED
    BY <2>1, <2>2
<1>3. RequestInv' /\ CauseIsCurrent'
  BY <1>1, <1>2 DEF RequestInv, CauseIsCurrent
<1>4. CASE TakesInterrupt
  <2>1. /\ epc' = pc /\ resume' = open /\ intact' = TRUE
        /\ status' = WithExl(status) /\ pc' = General /\ open' = General
    BY <1>4 DEF DoSomething
  <2>2. TypeOK'
    BY <1>1, <1>2, <2>1, SetsExl, CpuLoopAssumption DEF TypeOK
  <2>3. RequestNotLost'
    BY <2>1, SetsExl DEF RequestNotLost, Justified
  <2>4. ControlInv' /\ ResumesWhereInterrupted'
    BY <1>1, <2>1 DEF ControlInv, FaultEpc, ResumesWhereInterrupted
  <2> QED
    BY <1>3, <2>2, <2>3, <2>4
<1>5. CASE ~TakesInterrupt
  <2>1. UNCHANGED <<epc, resume, intact, status, pc, open>>
    BY <1>5 DEF DoSomething, saved
  <2>2. TypeOK'
    BY <1>1, <1>2, <2>1 DEF TypeOK
  <2>3. ~Justified
    BY <1>5 DEF TakesInterrupt, RequestNotLost, Justified
  <2>4. RequestNotLost'
    BY <1>1, <2>1, <2>3 DEF RequestNotLost, Justified
  <2>5. ControlInv' /\ ResumesWhereInterrupted'
    BY <1>1, <2>1 DEF ControlInv, FaultEpc, ResumesWhereInterrupted
  <2> QED
    BY <1>3, <2>2, <2>4, <2>5
<1> QED
  BY <1>4, <1>5

LEMMA NextInv == CpuInv /\ [Next]_vars => CpuInv'
<1> SUFFICES ASSUME CpuInv, [Next]_vars
             PROVE  CpuInv'
  OBVIOUS
<1>1. CASE Instruction
  BY <1>1, QuietInv, FaultInv, EretInv, MoveToStatusInv, MoveToCompareInv,
     DmaDoneInv, AcknowledgeInv, SetMaskInv, SpStatusWriteInv DEF Instruction
<1>2. CASE Poll
  BY <1>2, PollInv
<1>3. CASE DoSomething
  BY <1>3, DoSomethingInv
<1>4. CASE Stopped \/ UNCHANGED vars
  <2>1. UNCHANGED vars
    BY <1>4 DEF Stopped
  <2>2. TypeOK' /\ ControlInv'
    BY <2>1 DEF vars, flow, lines, saved, CpuInv, TypeOK, ControlInv, FaultEpc
  <2>3. RequestInv' /\ RequestNotLost' /\ CauseIsCurrent'
        /\ ResumesWhereInterrupted'
    BY <2>1 DEF vars, flow, lines, saved, CpuInv, RequestInv, RequestNotLost,
                Justified, CauseIsCurrent, ResumesWhereInterrupted
  <2> QED
    BY <2>2, <2>3 DEF CpuInv
<1> QED
  BY <1>1, <1>2, <1>3, <1>4 DEF Next

(* Registers, pending bits and requests keep their types for every program. *)
THEOREM CpuTypeCorrect == Spec => []TypeOK
<1>1. CpuInv => TypeOK
  BY DEF CpuInv
<1> QED
  BY <1>1, InitInv, NextInv, PTL DEF Spec

(* For every code size, device set and program, no line that is raised and *)
(* enabled is without a request: CheckInterrupts is called wherever that   *)
(* could come about (cpu.c, exception.c, interpreter_ops.c).               *)
THEOREM RequestsKept == Spec => []RequestNotLost
<1>1. CpuInv => RequestNotLost
  BY DEF CpuInv
<1> QED
  BY <1>1, InitInv, NextInv, PTL DEF Spec

(* For every program, an interrupt without a cause is one the program has  *)
(* withdrawn since the last jump (DoIntrException does not look at the     *)
(* lines).                                                                 *)
THEOREM SpuriousWithdrawn == Spec => []SpuriousOnlyIfWithdrawn
<1>1. CpuInv => SpuriousOnlyIfWithdrawn
  BY DEF CpuInv, RequestInv, SpuriousOnlyIfWithdrawn
<1> QED
  BY <1>1, InitInv, NextInv, PTL DEF Spec

(* For every program, IP2 and the AI bit are those of the devices wherever *)
(* CheckInterrupts has looked since the last change.                       *)
THEOREM CauseCurrent == Spec => []CauseIsCurrent
<1>1. CpuInv => CauseIsCurrent
  BY DEF CpuInv
<1> QED
  BY <1>1, InitInv, NextInv, PTL DEF Spec

(* For every program, ERET goes on with the first instruction that was not *)
(* complete when the exception came (exception.c, the EPC of the           *)
(* Do...Exception functions).                                              *)
THEOREM ResumesCorrectly == Spec => []ResumesWhereInterrupted
<1>1. CpuInv => ResumesWhereInterrupted
  BY DEF CpuInv
<1> QED
  BY <1>1, InitInv, NextInv, PTL DEF Spec
=============================================================================
