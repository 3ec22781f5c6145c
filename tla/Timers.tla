------------------------------- MODULE Timers -------------------------------
(***************************************************************************)
(* The three countdown timers of the emulated machine (cpu.c): Compare, VI *)
(* and AI.  The emulator keeps one counter, Timer, that every instruction  *)
(* decrements, and for each timer the distance from that counter to its    *)
(* own deadline, NextTimer.  CheckTimer re-bases all of them on the        *)
(* earliest deadline.  A Compare deadline more than half a turn of COUNT   *)
(* away is stored as the value Never and left out of the arithmetic.       *)
(*                                                                         *)
(* Words are 2 * Half values wide (Half is 2^31 in the program) and 32-bit *)
(* additions wrap.                                                         *)
(***************************************************************************)
EXTENDS Integers

CONSTANTS
    Half,           \* 2^31: the first value with the sign bit set
    MaxOvershoot,   \* bound: how far below zero Timer gets before the jumps
                    \* that end the runs of code have polled it
    ViDelays,       \* the values VI_INTR_TIME takes
    AiDelays,       \* the values of IntScheduled in AiLenChanged
    CompareWrites,  \* the words the program moves to COMPARE
    CountWrites     \* the words the program moves to COUNT

Word == 0 .. 2 * Half - 1
Int32 == -Half .. Half - 1
Never == Half - 1           \* 0x7FFFFFFF

(* VI_INTR_TIME and IntScheduled are hundreds of thousands of counts, a    *)
(* run of code without a jump is far shorter, and neither comes near 2^31. *)
ASSUME TimersAssumption ==
    /\ Half \in Nat /\ MaxOvershoot \in Nat /\ MaxOvershoot >= 7
    /\ \A d \in ViDelays \cup AiDelays :
          d \in Nat /\ d > MaxOvershoot /\ d + 2 * MaxOvershoot < Half
    /\ ViDelays # {}
    /\ CompareWrites \subseteq Word /\ CountWrites \subseteq Word

CompareTimer == 0
ViTimer == 1
AiTimer == 2
TimerType == {CompareTimer, ViTimer, AiTimer}
NoTimer == -1

(* SYSTEM_TIMERS, with what can go wrong in a call: StopEmulation for want *)
(* of a timer, a recursion that never returns, and the timers that         *)
(* WaitMode has moved half a turn away, where they count as long expired.  *)
SystemTimers ==
    [NextTimer : [TimerType -> Int32], Active : [TimerType -> BOOLEAN],
     CurrentTimerType : TimerType \cup {NoTimer}, Timer : Int32,
     stopped : BOOLEAN, endless : BOOLEAN, overtaken : SUBSET TimerType]

VARIABLES
    count,      \* COUNT_REGISTER
    compare,    \* COMPARE_REGISTER
    timers,     \* *Timers
    waitMode,   \* *WaitMode: BREAK idles until the next VI
    atJump,     \* a jump has been resolved, Timer is about to be polled
    idled       \* bound: counts spent in WaitMode since the last poll

vars == <<count, compare, timers, waitMode, atJump, idled>>

-----------------------------------------------------------------------------
(* 32-bit arithmetic.  The operands are words, so one turn is enough.      *)

Signed(x) == IF x >= Half THEN x - 2 * Half
             ELSE IF x < -Half THEN x + 2 * Half ELSE x

Unsigned(x) == IF x < 0 THEN x + 2 * Half
               ELSE IF x >= 2 * Half THEN x - 2 * Half ELSE x

(* COMPARE_REGISTER - COUNT_REGISTER *)
Ahead(k, c) == Unsigned(k - c)

(* NextCompare in ChangeCompareTimer *)
NextCompare(k, c) ==
    IF Ahead(k, c) >= Half THEN Never
    ELSE IF Ahead(k, c) = 0 THEN 1 ELSE Ahead(k, c)

-----------------------------------------------------------------------------
(* CheckTimer and its callers, on a value q of *Timers.                    *)

Frozen(q, t) == t = CompareTimer /\ q.NextTimer[t] = Never

(* Mutant: the first loop is missing. *)
RemainingStale(q) == q.NextTimer

(* First loop of CheckTimer: time left to each deadline. *)
Remaining(q) ==
    [t \in TimerType |->
        IF q.Active[t] /\ ~Frozen(q, t) THEN Signed(q.NextTimer[t] + q.Timer)
        ELSE q.NextTimer[t]]

(* Second loop: the active timers that can be chosen, and the one that is. *)
Candidates(q) == {t \in TimerType : q.Active[t] /\ Remaining(q)[t] < Never}

Earliest(q) ==
    CHOOSE t \in Candidates(q) :
        \A u \in Candidates(q) :
            \/ Remaining(q)[t] < Remaining(q)[u]
            \/ Remaining(q)[t] = Remaining(q)[u] /\ t <= u

(* The three loops, and StopEmulation when there was nothing to choose.    *)
Rebase(q) ==
    LET r == Remaining(q)
        first == IF Candidates(q) = {} THEN NoTimer ELSE Earliest(q)
        base == IF first = NoTimer THEN Never ELSE r[first]
    IN  [NextTimer |->
            [t \in TimerType |->
                IF q.Active[t] /\ ~(t = CompareTimer /\ r[t] = Never)
                THEN Signed(r[t] - base) ELSE r[t]],
         Active |-> q.Active,
         CurrentTimerType |-> first,
         Timer |-> base,
         stopped |-> q.stopped \/ first = NoTimer,
         endless |-> q.endless, overtaken |-> q.overtaken]

(* The assignments of ChangeTimer, without its call of CheckTimer. *)
SetTimer(q, t, v) ==
    [q EXCEPT !.NextTimer[t] = IF v = 0 THEN 0 ELSE Signed(v - q.Timer),
              !.Active[t] = (v # 0),
              !.overtaken = @ \ {t}]

(* Mutants: the tail is missing, or does not exclude 0x7FFFFFFF. *)
RevivesNever(q, k, c) == FALSE
RevivesBelowHalf(q, k, c) ==
    q.NextTimer[CompareTimer] = Never /\ Ahead(k, c) < Half

(* Tail of CheckTimer: a Compare deadline stored as Never has come within  *)
(* half a turn of COUNT and ChangeCompareTimer is called for it.           *)
Revives(q, k, c) ==
    q.NextTimer[CompareTimer] = Never /\ Ahead(k, c) < Never

(* That call checks the timers again.  If it leaves a Never that has to be *)
(* revived once more, every further call repeats it: the calls nest for    *)
(* ever.                                                                   *)
CheckTimer(q, k, c) ==
    LET p == Rebase(q)
        revived == Rebase(SetTimer(p, CompareTimer, NextCompare(k, c)))
    IN  IF ~Revives(p, k, c) THEN p
        ELSE [revived EXCEPT !.endless = @ \/ Revives(revived, k, c),
                             !.overtaken = p.overtaken]

ChangeTimer(q, t, v, k, c) ==
    IF v = 0 THEN SetTimer(q, t, v) ELSE CheckTimer(SetTimer(q, t, v), k, c)

ChangeCompareTimer(q, k, c) ==
    ChangeTimer(q, CompareTimer, NextCompare(k, c), k, c)

-----------------------------------------------------------------------------
(* StartEmulationFromSave and Machine_LoadStateFromRAM arm the timers, in  *)
(* memory that has just been cleared: the VI timer gets a delay, Compare   *)
(* follows the registers.  AiTimer is armed when the track asks for a FIFO *)
(* that fills (ai # 0).  The first arming of VI and Compare, before the    *)
(* registers are loaded, is left out: the second one overwrites it.        *)
Blank ==
    [NextTimer |-> [t \in TimerType |-> 0],
     Active |-> [t \in TimerType |-> FALSE],
     CurrentTimerType |-> NoTimer, Timer |-> 0,
     stopped |-> FALSE, endless |-> FALSE, overtaken |-> {}]

Loaded(vi, ai, k, c) ==
    LET withVi == ChangeTimer(Blank, ViTimer, vi, k, c)
        withCompare == ChangeCompareTimer(withVi, k, c)
    IN  ChangeTimer(withCompare, AiTimer, ai, k, c)

Init ==
    /\ count \in CountWrites /\ compare \in CompareWrites
    /\ \E vi \in ViDelays, ai \in AiDelays \cup {0} :
          timers = Loaded(vi, ai, compare, count)
    /\ waitMode = FALSE
    /\ atJump = FALSE
    /\ idled = 0

-----------------------------------------------------------------------------
(* ExecuteInterpreterOpCode: every instruction advances COUNT by two and   *)
(* takes two off Timer, which WaitMode has first set to -1.                *)

Sound ==
    ~timers.stopped /\ ~timers.endless /\ timers.overtaken = {}

Armed == {t \in TimerType : timers.Active[t] /\ ~Frozen(timers, t)}

(* Time left to the deadline of t, as the first loop of CheckTimer sees it. *)
Left(t) == Signed(timers.NextTimer[t] + timers.Timer)

(* WaitMode sets Timer to -1, which delays every deadline when it is late; *)
(* then the instruction takes n off. *)
Down(n) ==
    IF ~waitMode THEN [timers EXCEPT !.Timer = @ - n]
    ELSE [timers EXCEPT
            !.Timer = -1 - n,
            !.overtaken = {t \in Armed : Left(t) - timers.Timer - 1 - n >= Never}]

Ticked == Down(2)

(* Mutants: no wrap, or one count for each instruction. *)
TickedCountUnwrapped == count + 2
TickedCountSingle == Unsigned(count + 1)

TickedCount == Unsigned(count + 2)

(* The code polls Timer only once a jump is resolved.  A run of code       *)
(* without one is finite: it ends before Timer is below -MaxRun, or in     *)
(* WaitMode, where Timer stands still, within MaxRun counts.  When several *)
(* deadlines are past each poll serves one, and at least one instruction   *)
(* is executed in between, which MaxOvershoot allows for.                  *)
MaxRun == MaxOvershoot - 4

Fetch ==
    /\ Sound
    /\ ~atJump
    /\ Ticked.Timer >= -MaxOvershoot
    /\ atJump' \in BOOLEAN
    /\ idled' = IF waitMode THEN idled + 2 ELSE 0

RoomForMore ==
    IF waitMode' THEN idled' + 2 <= MaxRun ELSE timers'.Timer - 2 >= -MaxRun

(* The fetch misses the TLB: no count goes by. *)
FetchMiss ==
    /\ Sound
    /\ ~atJump
    /\ timers' = Down(0)
    /\ UNCHANGED <<count, compare, waitMode, atJump, idled>>

(* An instruction that leaves the timers alone. *)
Plain ==
    /\ Fetch
    /\ count' = TickedCount
    /\ timers' = Ticked
    /\ UNCHANGED <<compare, waitMode>>

(* BREAK *)
Break ==
    /\ Fetch
    /\ count' = TickedCount
    /\ timers' = Ticked
    /\ waitMode' = TRUE
    /\ UNCHANGED compare

(* MTC0 to Compare *)
MoveToCompare ==
    \E v \in CompareWrites :
        /\ Fetch
        /\ count' = TickedCount
        /\ compare' = v
        /\ timers' = ChangeCompareTimer(Ticked, v, TickedCount)
        /\ UNCHANGED waitMode

(* MTC0 to Count *)
MoveToCount ==
    \E v \in CountWrites :
        /\ Fetch
        /\ count' = v
        /\ timers' = ChangeCompareTimer(Ticked, compare, v)
        /\ UNCHANGED <<compare, waitMode>>

(* A store to AI_LEN_REG that queues a buffer: AiLenChanged. *)
AiLenChanged ==
    \E d \in AiDelays :
        /\ Fetch
        /\ count' = TickedCount
        /\ timers' = ChangeTimer(Ticked, AiTimer, d, compare, TickedCount)
        /\ UNCHANGED <<compare, waitMode>>

(* A store that starts a PI or SP DMA, which end with a call of CheckTimer. *)
StartDma ==
    /\ Fetch
    /\ count' = TickedCount
    /\ timers' = CheckTimer(Ticked, compare, TickedCount)
    /\ UNCHANGED <<compare, waitMode>>

(* InPermLoop with interrupts enabled: a branch to itself skips to the     *)
(* next deadline.  The delay slot still follows.                           *)
InPermLoop ==
    /\ Fetch
    /\ IF Ticked.Timer >= 0
       THEN /\ count' = Unsigned(TickedCount + Ticked.Timer + 1)
            /\ timers' = [Ticked EXCEPT !.Timer = -1]
       ELSE /\ count' = TickedCount
            /\ timers' = Ticked
    /\ atJump' = FALSE
    /\ UNCHANGED <<compare, waitMode>>

Instruction ==
    /\ \/ Plain \/ Break \/ MoveToCompare \/ MoveToCount
       \/ AiLenChanged \/ StartDma \/ InPermLoop
    /\ RoomForMore \/ atJump'

-----------------------------------------------------------------------------
(* The poll after a jump: TimerDone on the timer whose deadline is past.   *)

(* Mutant: whatever timer is armed is served. *)
ExpiredWhoever(t) ==
    /\ Sound
    /\ atJump
    /\ timers.Timer < 0
    /\ t \in Armed
    /\ atJump' = FALSE
    /\ idled' = 0

Expired(t) ==
    /\ Sound
    /\ atJump
    /\ timers.Timer < 0
    /\ timers.CurrentTimerType = t
    /\ atJump' = FALSE
    /\ idled' = 0

NotExpired ==
    /\ Sound
    /\ atJump
    /\ timers.Timer >= 0
    /\ atJump' = FALSE
    /\ idled' = 0
    /\ UNCHANGED <<count, compare, timers, waitMode>>

CompareDone ==
    /\ Expired(CompareTimer)
    /\ timers' = CheckTimer(ChangeCompareTimer(timers, compare, count),
                            compare, count)
    /\ UNCHANGED <<count, compare, waitMode>>

(* Mutants: the next VI is not armed, or WaitMode is not ended. *)
ViDoneNotArmed ==
    /\ Expired(ViTimer)
    /\ timers' = CheckTimer(timers, compare, count)
    /\ waitMode' = FALSE
    /\ UNCHANGED <<count, compare>>

ViDoneStillWaiting ==
    /\ Expired(ViTimer)
    /\ \E period \in ViDelays :
          timers' = ChangeTimer(timers, ViTimer, timers.Timer + period,
                                compare, count)
    /\ UNCHANGED <<count, compare, waitMode>>

(* RefreshScreen arms the next VI a period after the one that is due. *)
ViDone ==
    /\ Expired(ViTimer)
    /\ \E period \in ViDelays :
          LET due == Signed(Signed(timers.Timer + timers.NextTimer[ViTimer])
                            + period)
          IN  timers' = CheckTimer(
                            ChangeTimer(timers, ViTimer, due, compare, count),
                            compare, count)
    /\ waitMode' = FALSE
    /\ UNCHANGED <<count, compare>>

(* Mutant: the AI timer is not disarmed. *)
AiDoneStillArmed ==
    /\ Expired(AiTimer)
    /\ timers' = CheckTimer(timers, compare, count)
    /\ UNCHANGED <<count, compare, waitMode>>

AiDone ==
    /\ Expired(AiTimer)
    /\ timers' = CheckTimer(ChangeTimer(timers, AiTimer, 0, compare, count),
                            compare, count)
    /\ UNCHANGED <<count, compare, waitMode>>

Poll == NotExpired \/ CompareDone \/ ViDone \/ AiDone

(* Stopped, or lost in the recursion: nothing happens any more. *)
Halted == ~Sound /\ UNCHANGED vars

Next == Instruction \/ FetchMiss \/ Poll \/ Halted

Spec == Init /\ [][Next]_vars

(* The CPU loop runs for as long as nothing stops it, and a run of code is *)
(* finite: jumps are reached and polled again and again.                   *)
Proceeds == Sound /\ atJump' = ~atJump

FairSpec == Spec /\ WF_atJump(Proceeds)

-----------------------------------------------------------------------------
TypeOK ==
    /\ count \in Word /\ compare \in Word
    /\ timers \in SystemTimers
    /\ waitMode \in BOOLEAN /\ atJump \in BOOLEAN
    /\ idled \in 0 .. MaxOvershoot

(* Timer counts down to the earliest deadline: the current timer is armed, *)
(* its own distance is zero and no armed timer is due before it, however   *)
(* late the poll comes and whatever was armed in between.  The VI timer is *)
(* always one of them, so that CheckTimer never stops the emulation.       *)
EarliestFirst ==
    ~timers.endless /\ timers.overtaken = {} =>
        /\ ~timers.stopped
        /\ ViTimer \in Armed
        /\ timers.CurrentTimerType \in Armed
        /\ timers.NextTimer[timers.CurrentTimerType] = 0
        /\ \A t \in Armed : timers.Timer <= Left(t)

(* A Compare deadline stored as Never is looked at again by CheckTimer     *)
(* while it is still most of half a turn away, so that the Compare         *)
(* interrupt of a program that lets COUNT wrap is never lost: no later     *)
(* than a VI period, the lateness of a poll and what WaitMode idles until  *)
(* then have gone by.                                                      *)
FrozenCompareIsFar ==
    Frozen(timers, CompareTimer) /\ Sound =>
        \E d \in ViDelays :
            Ahead(compare, count) + d + MaxOvershoot + idled >= Never

(* The recursion of CheckTimer and ChangeCompareTimer only runs away while *)
(* COMPARE is half a turn ahead of COUNT, less the lateness of a poll.     *)
(* WaitMode, which pushes every deadline away when it begins late, never   *)
(* pushes that of VI or AI out of reach, however often it begins late.     *)
AstrayOnlyAtHalfTurn ==
    /\ timers.endless =>
          Ahead(compare, count) \in Never - MaxOvershoot .. Never - 1
    /\ timers.overtaken \subseteq {CompareTimer}

(* How far the Compare deadline is from the moment COUNT meets COMPARE, on *)
(* the circle of words: idling may delay it for more than half a turn.     *)
Drift == Unsigned(Unsigned(Left(CompareTimer) - Ahead(compare, count)))

(* Outside of WaitMode nothing lets the Compare deadline drift from COUNT: *)
(* instructions, DMA, other timers and the skip of InPermLoop move both    *)
(* alike, and arming Compare anew puts it on COUNT, or one count later.    *)
NoDriftOutsideWait ==
    [][(CompareTimer \in Armed /\ CompareTimer \in Armed' /\ ~waitMode)
            => Drift' \in {Drift, 0, 1}]_vars

(* The VI interrupt keeps coming, whatever the program does with the other *)
(* timers: again and again its deadline passes and is set anew, unless the *)
(* timers have gone astray as above.                                       *)
ViKeepsComing ==
    \/ <>~Sound
    \/ []<>(Left(ViTimer) < 0) /\ []<>(Left(ViTimer) >= 0)

(* BREAK idles until a VI ends the wait. *)
WaitEnds == waitMode ~> (~waitMode \/ ~Sound)

(* A queued buffer's AI timer runs out, unless the program queues another  *)
(* buffer before it does and so sets it anew.                              *)
AiTimerRunsOut ==
    []<>(~timers.Active[AiTimer] \/ Left(AiTimer) \in AiDelays \/ ~Sound)

(* What waits for a timer waits for one that runs out: for the VI, as      *)
(* BREAK does, and for the AI, as a game whose queue is full.              *)
TimersRunOut == ViKeepsComing /\ WaitEnds /\ AiTimerRunsOut

-----------------------------------------------------------------------------
(* What each timer can be set to.  A Compare deadline is at least one      *)
(* count ahead of COUNT and within half a turn.                            *)
Delays ==
    [t \in TimerType |->
        CASE t = CompareTimer -> 1 .. Never - 1
          [] t = ViTimer -> ViDelays
          [] t = AiTimer -> AiDelays]

(* The delta-encoded timers implement a set of independent deadlines.  The *)
(* program, running from jump to jump, sets Compare and AI; the poll after *)
(* the jump serves the timer that was due first, and passes over none that *)
(* is due; VI goes on a period after it was due, however late the poll.    *)
(* Time passes by the two counts of the instruction, or by what InPermLoop *)
(* or WaitMode skips; WaitMode sets a late Timer back to -1.  When the     *)
(* distance of Compare from a deadline that is past comes out as just      *)
(* 0x7FFFFFFF, CheckTimer takes it for Never and sets Compare anew.        *)
Promise == INSTANCE Deadlines WITH
    Periodic <- {ViTimer}, OneShot <- {AiTimer}, Follower <- CompareTimer,
    Delay <- Delays, Far <- Never - MaxOvershoot, Tick <- 2,
    armed <- Armed,
    left <- [t \in TimerType |-> IF t \in Armed THEN Left(t) ELSE 0],
    polling <- atJump, astray <- ~Sound

ImplementsDeadlines == Promise!Deadlines
=============================================================================
