----------------------------- MODULE TimersProof ----------------------------
(***************************************************************************)
(* Proofs about Timers, for every word size and every set of delays:       *)
(*   I.   TypeOK and EarliestFirst, from how close the deadlines are;      *)
(*   II.  FrozenCompareIsFar and AstrayOnlyAtHalfTurn, from how far apart; *)
(*   III. that the timers implement the countdowns of Deadlines, and that   *)
(*        outside of WaitMode the deadline of Compare follows COUNT.       *)
(***************************************************************************)
EXTENDS Timers, TLAPS

-----------------------------------------------------------------------------
(* I. How close the deadlines are.                                         *)

(* Deadlines lie between the lateness of a poll and half a turn. *)
InWindow(x) == -MaxOvershoot <= x /\ x < Never

(* What CheckTimer needs: VI is active, and every deadline that takes part *)
(* in the arithmetic is in the window, or is the Never of Compare.         *)
InRange(q, t) ==
    q.Active[t] /\ ~Frozen(q, t) =>
        \/ InWindow(Remaining(q)[t])
        \/ t = CompareTimer /\ Remaining(q)[t] = Never

Ready(q) ==
    /\ q.Active[ViTimer]
    /\ \A t \in TimerType : InRange(q, t)

(* What CheckTimer establishes and every tick keeps. *)
Good(q) ==
    /\ q.Active[ViTimer]
    /\ InWindow(q.Timer)
    /\ q.CurrentTimerType \in TimerType
    /\ q.Active[q.CurrentTimerType]
    /\ q.NextTimer[q.CurrentTimerType] = 0
    /\ \A t \in TimerType : q.Active[t] /\ ~Frozen(q, t) =>
          /\ q.Timer <= Signed(q.NextTimer[t] + q.Timer)
          /\ Signed(q.NextTimer[t] + q.Timer) < Never

(* The inductive invariant.  A deadline that WaitMode has overtaken may    *)
(* spoil all of them; without one, the timers are good and have never      *)
(* stopped the emulation.                                                  *)
TimersInv ==
    /\ TypeOK
    /\ timers.overtaken = {} => Good(timers) /\ ~timers.stopped
    /\ waitMode /\ ~atJump => idled + 2 <= MaxRun

-----------------------------------------------------------------------------
(* The word size: at least two words, and Never is not zero. *)
LEMMA HalfFacts ==
    /\ Half \in Nat /\ Half > 0 /\ MaxOvershoot \in Nat
    /\ MaxOvershoot >= 7 /\ 2 * MaxOvershoot < Half
    /\ Never \in Int /\ Never = Half - 1 /\ Never > MaxOvershoot
    /\ \A d \in ViDelays \cup AiDelays :
          d \in Nat /\ d > MaxOvershoot /\ d + 2 * MaxOvershoot < Half
<1>1. PICK d \in ViDelays : TRUE
  BY TimersAssumption
<1>2. d \in Nat /\ d + 2 * MaxOvershoot < Half
  BY <1>1, TimersAssumption
<1> QED
  BY <1>2, TimersAssumption DEF Never

(* A 32-bit sum is a word again. *)
LEMMA SignedWord ==
    ASSUME NEW x \in Int, -2 * Half <= x, x < 2 * Half
    PROVE  Signed(x) \in Int32
BY HalfFacts DEF Signed, Int32

LEMMA RemainingWord ==
    ASSUME NEW q \in SystemTimers
    PROVE  Remaining(q) \in [TimerType -> Int32]
<1>1. ASSUME NEW t \in TimerType
      PROVE  /\ q.NextTimer[t] \in Int32
             /\ Signed(q.NextTimer[t] + q.Timer) \in Int32
  <2>1. q.NextTimer[t] \in Int32 /\ q.Timer \in Int32
    BY DEF SystemTimers
  <2>2. q.NextTimer[t] + q.Timer \in Int
    BY <2>1, HalfFacts DEF Int32
  <2> QED
    BY <2>1, <2>2, SignedWord, HalfFacts DEF Int32
<1> QED
  BY <1>1 DEF Remaining

(* The timer that is chosen is one that can be, and none is due before it. *)
LEMMA EarliestChosen ==
    ASSUME NEW q \in SystemTimers, Candidates(q) # {}
    PROVE  /\ Earliest(q) \in Candidates(q)
           /\ \A u \in Candidates(q) :
                 Remaining(q)[Earliest(q)] <= Remaining(q)[u]
<1> DEFINE r == Remaining(q)
           Before(t, u) == r[t] < r[u] \/ (r[t] = r[u] /\ t <= u)
<1>1. \A t \in TimerType : r[t] \in Int /\ t \in Int
  BY RemainingWord, HalfFacts
  DEF Int32, TimerType, CompareTimer, ViTimer, AiTimer
<1>2. Candidates(q) \subseteq {0, 1, 2}
  BY DEF Candidates, TimerType, CompareTimer, ViTimer, AiTimer
<1>3. \A t, u, w \in TimerType :
         /\ Before(t, u) \/ Before(u, t)
         /\ Before(t, t)
         /\ Before(t, u) /\ Before(u, w) => Before(t, w)
  BY <1>1
<1>4. TimerType = {0, 1, 2}
  BY DEF TimerType, CompareTimer, ViTimer, AiTimer
<1> HIDE DEF r, Before
<1>5. \E t \in Candidates(q) : \A u \in Candidates(q) : Before(t, u)
  <2>1. \A t, u, w \in {0, 1, 2} :
          /\ Before(t, u) \/ Before(u, t)
          /\ Before(t, t)
          /\ Before(t, u) /\ Before(u, w) => Before(t, w)
    BY <1>3, <1>4
  <2> QED
    BY <2>1, <1>2
<1>6. Earliest(q) \in Candidates(q)
      /\ \A u \in Candidates(q) : Before(Earliest(q), u)
  BY <1>5 DEF Earliest, Before, r
<1> QED
  BY <1>6, <1>1, <1>2, <1>4 DEF Before, r

-----------------------------------------------------------------------------
(* CheckTimer and the two functions that set a timer return a value of the *)
(* right type whatever they are given.                                     *)
LEMMA RebaseTyped ==
    ASSUME NEW q \in SystemTimers
    PROVE  /\ Rebase(q) \in SystemTimers
           /\ Rebase(q).endless = q.endless
           /\ Rebase(q).overtaken = q.overtaken
           /\ Rebase(q).Active = q.Active
<1> DEFINE r == Remaining(q)
           first == IF Candidates(q) = {} THEN NoTimer ELSE Earliest(q)
           base == IF first = NoTimer THEN Never ELSE r[first]
<1>1. r \in [TimerType -> Int32]
  BY RemainingWord
<1>2. first \in TimerType \cup {NoTimer} /\ base \in Int32
  <2>1. Never \in Int32
    BY HalfFacts DEF Int32
  <2>2. CASE Candidates(q) = {}
    BY <2>1, <2>2
  <2>3. CASE Candidates(q) # {}
    <3>1. Earliest(q) \in TimerType
      BY <2>3, EarliestChosen DEF Candidates
    <3> QED
      BY <2>3, <3>1, <1>1
         DEF TimerType, NoTimer, CompareTimer, ViTimer, AiTimer
  <2> QED
    BY <2>2, <2>3
<1>3. ASSUME NEW t \in TimerType
      PROVE  (IF q.Active[t] /\ ~(t = CompareTimer /\ r[t] = Never)
              THEN Signed(r[t] - base) ELSE r[t]) \in Int32
  <2>1. r[t] \in Int32 /\ base \in Int32
    BY <1>1, <1>2
  <2> HIDE DEF r, base
  <2>2. Signed(r[t] - base) \in Int32
    BY <2>1, SignedWord, HalfFacts DEF Int32
  <2> QED
    BY <2>1, <2>2
<1> HIDE DEF r, first, base
<1>4. Rebase(q) =
        [NextTimer |->
            [t \in TimerType |->
                IF q.Active[t] /\ ~(t = CompareTimer /\ r[t] = Never)
                THEN Signed(r[t] - base) ELSE r[t]],
         Active |-> q.Active,
         CurrentTimerType |-> first,
         Timer |-> base,
         stopped |-> q.stopped \/ first = NoTimer,
         endless |-> q.endless, overtaken |-> q.overtaken]
  BY DEF Rebase, r, first, base
<1>5. /\ q.Active \in [TimerType -> BOOLEAN]
      /\ (q.stopped \/ first = NoTimer) \in BOOLEAN
      /\ q.endless \in BOOLEAN /\ q.overtaken \in SUBSET TimerType
  BY DEF SystemTimers
<1>6. [t \in TimerType |->
          IF q.Active[t] /\ ~(t = CompareTimer /\ r[t] = Never)
          THEN Signed(r[t] - base) ELSE r[t]] \in [TimerType -> Int32]
  BY <1>3
<1> QED
  BY <1>2, <1>4, <1>5, <1>6 DEF SystemTimers

LEMMA SetTimerTyped ==
    ASSUME NEW q \in SystemTimers, NEW t \in TimerType, NEW v \in Int32
    PROVE  /\ SetTimer(q, t, v) \in SystemTimers
           /\ SetTimer(q, t, v).NextTimer[t] =
                 IF v = 0 THEN 0 ELSE Signed(v - q.Timer)
           /\ SetTimer(q, t, v).Active[t] <=> v # 0
           /\ \A u \in TimerType \ {t} :
                 /\ SetTimer(q, t, v).NextTimer[u] = q.NextTimer[u]
                 /\ SetTimer(q, t, v).Active[u] = q.Active[u]
           /\ SetTimer(q, t, v).Timer = q.Timer
           /\ SetTimer(q, t, v).stopped = q.stopped
           /\ SetTimer(q, t, v).endless = q.endless
           /\ SetTimer(q, t, v).overtaken = q.overtaken \ {t}
<1>1. q.Timer \in Int32
  BY DEF SystemTimers
<1>2. (IF v = 0 THEN 0 ELSE Signed(v - q.Timer)) \in Int32
  BY <1>1, SignedWord, HalfFacts DEF Int32
<1>3. (v # 0) \in BOOLEAN /\ q.overtaken \ {t} \in SUBSET TimerType
  BY DEF SystemTimers
<1> QED
  BY <1>2, <1>3 DEF SetTimer, SystemTimers

(* NextCompare is a positive number of counts, and Never only when COMPARE *)
(* is not within half a turn.                                              *)
LEMMA NextCompareRange ==
    ASSUME NEW k \in Word, NEW c \in Word
    PROVE  /\ NextCompare(k, c) \in 1 .. Never
           /\ Ahead(k, c) \in Word
           /\ Ahead(k, c) < Never => NextCompare(k, c) < Never
BY HalfFacts DEF NextCompare, Ahead, Unsigned, Word, Never

LEMMA CheckTimerTyped ==
    ASSUME NEW q \in SystemTimers, NEW k \in Word, NEW c \in Word
    PROVE  /\ CheckTimer(q, k, c) \in SystemTimers
           /\ CheckTimer(q, k, c).overtaken = q.overtaken
           /\ ~CheckTimer(q, k, c).endless => ~q.endless
<1> DEFINE p == Rebase(q)
           v == NextCompare(k, c)
           s == SetTimer(p, CompareTimer, v)
           revived == Rebase(s)
<1>1. /\ p \in SystemTimers /\ p.overtaken = q.overtaken
      /\ p.endless = q.endless
  BY RebaseTyped
<1>2. v \in Int32 /\ CompareTimer \in TimerType
  BY NextCompareRange, HalfFacts DEF Int32, TimerType
<1> HIDE DEF p, v
<1>3. s \in SystemTimers /\ s.endless = p.endless
  BY <1>1, <1>2, SetTimerTyped
<1>4. revived \in SystemTimers /\ revived.endless = p.endless
  BY <1>3, RebaseTyped
<1>5. CheckTimer(q, k, c) =
        IF ~Revives(p, k, c) THEN p
        ELSE [revived EXCEPT !.endless = @ \/ Revives(revived, k, c),
                             !.overtaken = p.overtaken]
  BY DEF CheckTimer, p, v
<1> HIDE DEF s, revived
<1>6. Revives(revived, k, c) \in BOOLEAN
  BY DEF Revives
<1>7. p.overtaken \in SUBSET TimerType
  BY <1>1 DEF SystemTimers
<1>8. CASE ~Revives(p, k, c)
  BY <1>1, <1>5, <1>8
<1>9. CASE Revives(p, k, c)
  <2> DEFINE e == revived.endless \/ Revives(revived, k, c)
  <2>1. e \in BOOLEAN
    BY <1>4, <1>6 DEF SystemTimers
  <2>2. CheckTimer(q, k, c) =
          [revived EXCEPT !.endless = e, !.overtaken = p.overtaken]
    BY <1>5, <1>9
  <2>3. ~e => ~revived.endless
    OBVIOUS
  <2> HIDE DEF e
  <2> QED
    BY <2>1, <2>2, <2>3, <1>1, <1>4, <1>7 DEF SystemTimers
<1> QED
  BY <1>8, <1>9

-----------------------------------------------------------------------------
(* What is added to a word can be taken off again. *)
LEMMA SignedRoundTrip ==
    ASSUME NEW v \in Int32, NEW w \in Int32
    PROVE  Signed(Signed(v - w) + w) = v
BY HalfFacts DEF Signed, Int32

(* Re-basing deadlines that are in range leaves Timer on the earliest one, *)
(* each distance such that its deadline is where it was.                   *)
LEMMA RebaseGood ==
    ASSUME NEW q \in SystemTimers, Ready(q)
    PROVE  Good(Rebase(q)) /\ Rebase(q).stopped = q.stopped
<1> DEFINE r == Remaining(q)
           first == Earliest(q)
           base == r[first]
           p == Rebase(q)
<1>1. r \in [TimerType -> Int32]
  BY RemainingWord
<1>2. ViTimer \in Candidates(q)
  <2>1. ViTimer \in TimerType /\ ~Frozen(q, ViTimer)
        /\ ViTimer # CompareTimer
    BY DEF TimerType, Frozen, ViTimer, CompareTimer
  <2>2. q.Active[ViTimer] /\ InWindow(r[ViTimer])
    BY <2>1 DEF Ready, InRange
  <2> QED
    BY <2>1, <2>2 DEF Candidates, InWindow
<1>3. /\ first \in TimerType /\ q.Active[first] /\ r[first] < Never
      /\ \A u \in Candidates(q) : r[first] <= r[u]
  BY <1>2, EarliestChosen DEF Candidates
<1>4. \A t \in TimerType : Frozen(q, t) => r[t] = Never
  BY DEF Frozen, Remaining
<1>5. InWindow(base)
  <2>1. r[first] \in Int /\ r[first] # Never
    BY <1>1, <1>3, HalfFacts DEF Int32
  <2>2. ~Frozen(q, first)
    BY <1>3, <1>4, <2>1
  <2> QED
    BY <1>3, <2>1, <2>2 DEF Ready, InRange
<1>6. first # NoTimer
  BY <1>3 DEF TimerType, NoTimer, CompareTimer, ViTimer, AiTimer
<1> HIDE DEF r, first, base
<1>7. /\ p.NextTimer = [t \in TimerType |->
                IF q.Active[t] /\ ~(t = CompareTimer /\ r[t] = Never)
                THEN Signed(r[t] - base) ELSE r[t]]
      /\ p.Active = q.Active
      /\ p.CurrentTimerType = first
      /\ p.Timer = base
      /\ p.stopped <=> (q.stopped \/ first = NoTimer)
  <2>1. Candidates(q) # {}
    BY <1>2
  <2>2. (IF Candidates(q) = {} THEN NoTimer ELSE Earliest(q)) = first
    BY <2>1 DEF first
  <2>3. (IF first = NoTimer THEN Never ELSE r[first]) = base
    BY <1>6 DEF base
  <2> QED
    BY <2>2, <2>3 DEF Rebase, r
<1> HIDE DEF p
<1>8. p.stopped = q.stopped
  <2>1. p \in SystemTimers
    BY RebaseTyped DEF p
  <2>2. p.stopped \in BOOLEAN /\ q.stopped \in BOOLEAN
    BY <2>1 DEF SystemTimers
  <2> QED
    BY <1>6, <1>7, <2>2
<1>9. p.NextTimer[first] = 0
  <2>1. r[first] \in Int /\ r[first] # Never
    BY <1>1, <1>3, HalfFacts DEF Int32
  <2>2. p.NextTimer[first] = Signed(r[first] - base)
    BY <1>3, <1>7, <2>1
  <2>3. Signed(0) = 0
    BY HalfFacts DEF Signed
  <2> QED
    BY <2>1, <2>2, <2>3 DEF base
<1>10. ASSUME NEW t \in TimerType, p.Active[t], ~Frozen(p, t)
       PROVE  /\ p.Timer <= Signed(p.NextTimer[t] + p.Timer)
              /\ Signed(p.NextTimer[t] + p.Timer) < Never
  <2>1. q.Active[t] /\ r[t] \in Int32 /\ base \in Int32
    BY <1>1, <1>3, <1>7, <1>10 DEF base
  <2>2. ~(t = CompareTimer /\ r[t] = Never)
    BY <1>7, <1>10 DEF Frozen
  <2>3. InWindow(r[t])
    BY <1>4, <2>1, <2>2 DEF Ready, InRange, Frozen, r
  <2>4. t \in Candidates(q)
    BY <2>1, <2>3 DEF Candidates, InWindow, r
  <2>5. base <= r[t]
    BY <1>3, <2>4 DEF base
  <2>6. p.NextTimer[t] = Signed(r[t] - base)
    BY <1>7, <2>1, <2>2
  <2>7. Signed(p.NextTimer[t] + p.Timer) = r[t]
    BY <1>7, <2>1, <2>6, SignedRoundTrip
  <2> QED
    BY <1>7, <2>3, <2>5, <2>7 DEF InWindow
<1>11. p.Active[ViTimer]
  BY <1>7 DEF Ready
<1> QED
  BY <1>3, <1>5, <1>7, <1>8, <1>9, <1>10, <1>11 DEF Good, p

LEMMA GoodReady ==
    ASSUME NEW q \in SystemTimers, Good(q)
    PROVE  Ready(q)
<1>1. \A t \in TimerType : q.NextTimer[t] \in Int32 /\ q.Timer \in Int32
  BY DEF SystemTimers
<1>2. ASSUME NEW t \in TimerType, q.Active[t], ~Frozen(q, t)
      PROVE  InWindow(Remaining(q)[t])
  <2>1. Remaining(q)[t] = Signed(q.NextTimer[t] + q.Timer)
    BY <1>2 DEF Remaining
  <2>2. Signed(q.NextTimer[t] + q.Timer) \in Int32
    BY <1>1, SignedWord, HalfFacts DEF Int32
  <2> QED
    BY <1>1, <1>2, <2>1, <2>2, HalfFacts DEF Good, InWindow, Int32
<1> QED
  BY <1>2 DEF Good, Ready, InRange

(* Setting one timer leaves all of them in range. *)
LEMMA SetTimerReady ==
    ASSUME NEW q \in SystemTimers, NEW t \in TimerType, NEW v \in 1 .. Never,
           v = Never => t = CompareTimer,
           t = ViTimer \/ q.Active[ViTimer],
           \A u \in TimerType \ {t} : InRange(q, u)
    PROVE  SetTimer(q, t, v) \in SystemTimers /\ Ready(SetTimer(q, t, v))
<1> DEFINE s == SetTimer(q, t, v)
<1>1. v \in Int32 /\ v # 0
  BY HalfFacts DEF Int32
<1>2. /\ s \in SystemTimers
      /\ s.NextTimer[t] = Signed(v - q.Timer)
      /\ s.Active[t]
      /\ \A u \in TimerType \ {t} :
            /\ s.NextTimer[u] = q.NextTimer[u]
            /\ s.Active[u] = q.Active[u]
      /\ s.Timer = q.Timer
  BY <1>1, SetTimerTyped
<1> HIDE DEF s
<1>3. InRange(s, t)
  <2>1. q.Timer \in Int32
    BY DEF SystemTimers
  <2>2. Signed(s.NextTimer[t] + s.Timer) = v
    BY <1>1, <1>2, <2>1, SignedRoundTrip
  <2>3. ~Frozen(s, t) => Remaining(s)[t] = v
    BY <1>2, <2>2 DEF Remaining
  <2>4. InWindow(v) \/ (t = CompareTimer /\ v = Never)
    BY HalfFacts DEF InWindow
  <2> QED
    BY <2>3, <2>4 DEF InRange
<1>4. ASSUME NEW u \in TimerType \ {t}
      PROVE  InRange(s, u)
  <2>1. Frozen(s, u) <=> Frozen(q, u)
    BY <1>2, <1>4 DEF Frozen
  <2>2. Remaining(s)[u] = Remaining(q)[u]
    BY <1>2, <1>4, <2>1 DEF Remaining
  <2> QED
    BY <1>2, <1>4, <2>1, <2>2 DEF InRange
<1>5. s.Active[ViTimer]
  BY <1>2 DEF TimerType
<1> QED
  BY <1>2, <1>3, <1>4, <1>5 DEF Ready, s

(* Disarming a timer that is not VI leaves the others in range. *)
LEMMA SetTimerOffReady ==
    ASSUME NEW q \in SystemTimers, NEW t \in TimerType, t # ViTimer, Ready(q)
    PROVE  SetTimer(q, t, 0) \in SystemTimers /\ Ready(SetTimer(q, t, 0))
<1> DEFINE s == SetTimer(q, t, 0)
<1>1. 0 \in Int32
  BY HalfFacts DEF Int32
<1>2. /\ s \in SystemTimers
      /\ ~s.Active[t]
      /\ \A u \in TimerType \ {t} :
            /\ s.NextTimer[u] = q.NextTimer[u]
            /\ s.Active[u] = q.Active[u]
      /\ s.Timer = q.Timer
  BY <1>1, SetTimerTyped
<1> HIDE DEF s
<1>3. InRange(s, t)
  BY <1>2 DEF InRange
<1>4. ASSUME NEW u \in TimerType \ {t}
      PROVE  InRange(s, u)
  <2>1. Frozen(s, u) <=> Frozen(q, u)
    BY <1>2, <1>4 DEF Frozen
  <2>2. Remaining(s)[u] = Remaining(q)[u]
    BY <1>2, <1>4, <2>1 DEF Remaining
  <2> QED
    BY <1>2, <1>4, <2>1, <2>2 DEF InRange, Ready
<1>5. s.Active[ViTimer]
  BY <1>2 DEF TimerType, Ready
<1> QED
  BY <1>2, <1>3, <1>4, <1>5 DEF Ready, s

(* Checking the timers while every deadline is in range, the revival of    *)
(* the Compare deadline included, never stops the emulation.               *)
LEMMA CheckTimerGood ==
    ASSUME NEW q \in SystemTimers, Ready(q), NEW k \in Word, NEW c \in Word
    PROVE  /\ CheckTimer(q, k, c) \in SystemTimers
           /\ Good(CheckTimer(q, k, c))
           /\ CheckTimer(q, k, c).stopped = q.stopped
           /\ CheckTimer(q, k, c).overtaken = q.overtaken
           /\ CheckTimer(q, k, c).Active[AiTimer] = q.Active[AiTimer]
<1> DEFINE p == Rebase(q)
           v == NextCompare(k, c)
           s == SetTimer(p, CompareTimer, v)
           revived == Rebase(s)
           z == CheckTimer(q, k, c)
<1>1. /\ p \in SystemTimers /\ Good(p) /\ p.stopped = q.stopped
      /\ p.Active = q.Active
  BY RebaseTyped, RebaseGood
<1>2. z \in SystemTimers /\ z.overtaken = q.overtaken
  BY CheckTimerTyped
<1>3. /\ CompareTimer \in TimerType /\ AiTimer \in TimerType
      /\ CompareTimer # AiTimer
  BY DEF TimerType, CompareTimer, ViTimer, AiTimer
<1>4. z = IF ~Revives(p, k, c) THEN p
          ELSE [revived EXCEPT !.endless = @ \/ Revives(revived, k, c),
                               !.overtaken = p.overtaken]
  BY DEF CheckTimer
<1> HIDE DEF p, z
<1>5. CASE ~Revives(p, k, c)
  <2>1. z = p
    BY <1>4, <1>5
  <2> QED
    BY <1>1, <1>2, <2>1 DEF z
<1>6. CASE Revives(p, k, c)
  <2>1. v \in 1 .. Never /\ v < Never
    BY <1>6, NextCompareRange DEF Revives
  <2>2. Ready(p)
    BY <1>1, GoodReady
  <2> HIDE DEF v
  <2>3. v \in Int32 /\ v # 0 /\ v # Never
    BY <2>1, HalfFacts DEF Int32
  <2>4. s \in SystemTimers /\ Ready(s)
    BY <1>1, <1>3, <2>1, <2>2, <2>3, SetTimerReady DEF Ready
  <2>5. s.stopped = p.stopped /\ s.Active[AiTimer] = p.Active[AiTimer]
    BY <1>1, <1>3, <2>3, SetTimerTyped
  <2> HIDE DEF s
  <2>6. /\ revived \in SystemTimers /\ Good(revived)
        /\ revived.stopped = s.stopped /\ revived.Active = s.Active
    BY <2>4, RebaseTyped, RebaseGood
  <2> HIDE DEF revived
  <2>7. /\ z.NextTimer = revived.NextTimer /\ z.Active = revived.Active
        /\ z.CurrentTimerType = revived.CurrentTimerType
        /\ z.Timer = revived.Timer /\ z.stopped = revived.stopped
    BY <1>4, <1>6, <2>6 DEF SystemTimers
  <2>8. Good(z)
    BY <2>6, <2>7 DEF Good, Frozen
  <2> QED
    BY <1>1, <1>2, <2>5, <2>6, <2>7, <2>8 DEF z
<1> QED
  BY <1>5, <1>6

(* So does arming a timer, with a delay below half a turn. *)
LEMMA ChangeTimerGood ==
    ASSUME NEW q \in SystemTimers, NEW t \in TimerType, NEW v \in 1 .. Never,
           v = Never => t = CompareTimer,
           t = ViTimer \/ q.Active[ViTimer],
           \A u \in TimerType \ {t} : InRange(q, u),
           NEW k \in Word, NEW c \in Word
    PROVE  /\ ChangeTimer(q, t, v, k, c) \in SystemTimers
           /\ Good(ChangeTimer(q, t, v, k, c))
           /\ ChangeTimer(q, t, v, k, c).stopped = q.stopped
           /\ ChangeTimer(q, t, v, k, c).overtaken = q.overtaken \ {t}
           /\ t # AiTimer =>
                 ChangeTimer(q, t, v, k, c).Active[AiTimer] = q.Active[AiTimer]
<1> DEFINE s == SetTimer(q, t, v)
<1>1. v \in Int32 /\ v # 0
  BY HalfFacts DEF Int32
<1>2. ChangeTimer(q, t, v, k, c) = CheckTimer(s, k, c)
  BY <1>1 DEF ChangeTimer
<1>3. AiTimer \in TimerType
  BY DEF TimerType
<1>4. s \in SystemTimers /\ Ready(s)
  BY SetTimerReady
<1>5. /\ s.stopped = q.stopped /\ s.overtaken = q.overtaken \ {t}
      /\ t # AiTimer => s.Active[AiTimer] = q.Active[AiTimer]
  BY <1>1, <1>3, SetTimerTyped
<1> HIDE DEF s
<1> QED
  BY <1>2, <1>4, <1>5, CheckTimerGood

LEMMA ChangeCompareTimerGood ==
    ASSUME NEW q \in SystemTimers, q.Active[ViTimer],
           \A u \in TimerType \ {CompareTimer} : InRange(q, u),
           NEW k \in Word, NEW c \in Word
    PROVE  /\ ChangeCompareTimer(q, k, c) \in SystemTimers
           /\ Good(ChangeCompareTimer(q, k, c))
           /\ ChangeCompareTimer(q, k, c).stopped = q.stopped
           /\ ChangeCompareTimer(q, k, c).overtaken
                 = q.overtaken \ {CompareTimer}
           /\ ChangeCompareTimer(q, k, c).Active[AiTimer] = q.Active[AiTimer]
<1>1. NextCompare(k, c) \in 1 .. Never
  BY NextCompareRange
<1>2. CompareTimer \in TimerType /\ CompareTimer # AiTimer
  BY DEF TimerType, CompareTimer, AiTimer
<1> QED
  BY <1>1, <1>2, ChangeTimerGood DEF ChangeCompareTimer

-----------------------------------------------------------------------------
(* StartEmulationFromSave leaves the timers good. *)
LEMMA InitInv == Init => TimersInv
<1> SUFFICES ASSUME Init PROVE TimersInv
  OBVIOUS
<1>1. count \in Word /\ compare \in Word
  BY TimersAssumption DEF Init
<1>2. PICK vi \in ViDelays, ai \in AiDelays \cup {0} :
        timers = Loaded(vi, ai, compare, count)
  BY DEF Init
<1> DEFINE blank == Blank
           a == ChangeTimer(blank, ViTimer, vi, compare, count)
           b == ChangeCompareTimer(a, compare, count)
<1>3. timers = ChangeTimer(b, AiTimer, ai, compare, count)
  BY <1>2 DEF Loaded
<1>4. ViTimer \in TimerType /\ AiTimer \in TimerType
      /\ ViTimer # CompareTimer /\ AiTimer # CompareTimer /\ AiTimer # ViTimer
  BY DEF TimerType, CompareTimer, ViTimer, AiTimer
<1>5. /\ blank \in SystemTimers
      /\ \A t \in TimerType : ~blank.Active[t] /\ InRange(blank, t)
      /\ ~blank.stopped /\ blank.overtaken = {}
  <2>1. 0 \in Int32
    BY HalfFacts DEF Int32
  <2>2. blank \in SystemTimers
    BY <2>1 DEF Blank, SystemTimers
  <2>3. /\ \A t \in TimerType : ~blank.Active[t]
        /\ ~blank.stopped /\ blank.overtaken = {}
    BY DEF Blank
  <2> QED
    BY <2>2, <2>3 DEF InRange
<1>6. vi \in 1 .. Never /\ vi # Never
  BY HalfFacts
<1>7. ai = 0 \/ (ai \in 1 .. Never /\ ai # Never)
  BY HalfFacts
<1> HIDE DEF blank
<1>8. /\ a \in SystemTimers /\ Good(a) /\ a.stopped = blank.stopped
      /\ a.overtaken = blank.overtaken \ {ViTimer}
      /\ a.Active[AiTimer] = blank.Active[AiTimer]
  BY <1>1, <1>4, <1>5, <1>6, ChangeTimerGood
<1> HIDE DEF a
<1>9. /\ b \in SystemTimers /\ Good(b) /\ b.stopped = a.stopped
      /\ b.overtaken = a.overtaken \ {CompareTimer}
      /\ b.Active[AiTimer] = a.Active[AiTimer]
  <2>1. Ready(a)
    BY <1>8, GoodReady
  <2> QED
    BY <1>1, <1>8, <2>1, ChangeCompareTimerGood DEF Ready
<1> HIDE DEF b
<1>10. timers \in SystemTimers /\ Good(timers) /\ ~timers.stopped
  <2>1. CASE ai = 0
    <3>1. timers = SetTimer(b, AiTimer, 0)
      BY <1>3, <2>1 DEF ChangeTimer
    <3>2. ~b.Active[AiTimer]
      BY <1>4, <1>5, <1>8, <1>9
    <3>3. 0 \in Int32
      BY HalfFacts DEF Int32
    <3>4. /\ timers \in SystemTimers
          /\ timers.NextTimer[AiTimer] = 0 /\ ~timers.Active[AiTimer]
          /\ \A u \in TimerType \ {AiTimer} :
                /\ timers.NextTimer[u] = b.NextTimer[u]
                /\ timers.Active[u] = b.Active[u]
          /\ timers.Timer = b.Timer /\ timers.stopped = b.stopped
      BY <1>4, <1>9, <3>1, <3>3, SetTimerTyped
    <3>5. timers.CurrentTimerType = b.CurrentTimerType
      BY <1>9, <3>1 DEF SetTimer, SystemTimers
    <3>6. b.CurrentTimerType # AiTimer
      BY <1>9, <3>2 DEF Good
    <3>7. Good(timers)
      BY <1>4, <1>9, <3>4, <3>5, <3>6 DEF Good, Frozen
    <3> QED
      BY <1>5, <1>8, <1>9, <3>4, <3>7
  <2>2. CASE ai # 0
    <3>1. ai \in 1 .. Never /\ ai # Never
      BY <1>7, <2>2
    <3>2. Ready(b)
      BY <1>9, GoodReady
    <3> QED
      BY <1>1, <1>3, <1>4, <1>5, <1>8, <1>9, <3>1, <3>2, ChangeTimerGood
         DEF Ready
  <2> QED
    BY <2>1, <2>2
<1>11. /\ waitMode = FALSE /\ atJump = FALSE /\ idled = 0
  BY <1>4 DEF Init
<1>12. idled \in 0 .. MaxOvershoot
  BY <1>11, HalfFacts
<1>13. TypeOK
  BY <1>1, <1>10, <1>11, <1>12 DEF TypeOK
<1> QED
  BY <1>10, <1>11, <1>13 DEF TimersInv

-----------------------------------------------------------------------------
(* A tick takes Timer and every deadline down together; in WaitMode it     *)
(* moves them alike, and notes the ones it carries out of range.           *)
LEMMA DownGood ==
    ASSUME NEW n \in 0 .. 2, TimersInv, Sound, Down(n).Timer >= -MaxOvershoot
    PROVE  /\ Down(n) \in SystemTimers
           /\ Down(n).stopped = timers.stopped
           /\ Down(n).Active[ViTimer]
           /\ \A u \in TimerType \ Down(n).overtaken : InRange(Down(n), u)
           /\ Down(n).overtaken = {} => Good(Down(n))
<1> DEFINE new == IF waitMode THEN -1 - n ELSE timers.Timer - n
           q == Down(n)
<1>1. /\ timers \in SystemTimers /\ Good(timers) /\ ~timers.stopped
      /\ timers.overtaken = {}
  BY DEF TimersInv, TypeOK, Sound
<1>2. /\ timers.Timer \in Int /\ InWindow(timers.Timer)
      /\ \A t \in TimerType : timers.NextTimer[t] \in Int32
  BY <1>1, HalfFacts DEF SystemTimers, Int32, Good
<1>3. /\ q.NextTimer = timers.NextTimer /\ q.Active = timers.Active
      /\ q.CurrentTimerType = timers.CurrentTimerType
      /\ q.Timer = new /\ q.stopped = timers.stopped
      /\ q.endless = timers.endless
      /\ q.overtaken = IF waitMode
                       THEN {t \in Armed : Left(t) - timers.Timer - 1 - n >= Never}
                       ELSE {}
  <2>1. CASE waitMode
    <3>1. q = [timers EXCEPT
                 !.Timer = -1 - n,
                 !.overtaken = {t \in Armed :
                                   Left(t) - timers.Timer - 1 - n >= Never}]
      BY <2>1 DEF Down
    <3> QED
      BY <1>1, <2>1, <3>1 DEF SystemTimers
  <2>2. CASE ~waitMode
    <3>1. q = [timers EXCEPT !.Timer = @ - n]
      BY <2>2 DEF Down
    <3> QED
      BY <1>1, <2>2, <3>1 DEF SystemTimers
  <2> QED
    BY <2>1, <2>2
<1>4. q.Timer >= -MaxOvershoot
  OBVIOUS
<1> HIDE DEF q
<1>5. new \in Int /\ InWindow(new)
  BY <1>2, <1>3, <1>4, HalfFacts DEF InWindow
<1>6. q \in SystemTimers
  <2>1. new \in Int32
    BY <1>5, HalfFacts DEF InWindow, Int32
  <2>2. q.overtaken \in SUBSET TimerType
    BY <1>3 DEF Armed
  <2>3. q = [NextTimer |-> q.NextTimer, Active |-> q.Active,
             CurrentTimerType |-> q.CurrentTimerType, Timer |-> q.Timer,
             stopped |-> q.stopped, endless |-> q.endless,
             overtaken |-> q.overtaken]
    BY <1>1 DEF q, Down, SystemTimers
  <2> QED
    BY <1>1, <1>3, <2>1, <2>2, <2>3 DEF SystemTimers
<1>7. ASSUME NEW t \in TimerType \ q.overtaken, q.Active[t], ~Frozen(q, t)
      PROVE  /\ new <= Signed(q.NextTimer[t] + new)
             /\ Signed(q.NextTimer[t] + new) < Never
  <2> DEFINE x == timers.NextTimer[t]
             o == timers.Timer
  <2>1. t \in Armed /\ timers.Active[t] /\ ~Frozen(timers, t)
    BY <1>3, <1>7 DEF Armed, Frozen
  <2>2. x \in Int32 /\ o \in Int /\ InWindow(o) /\ new \in Int
        /\ InWindow(new)
    BY <1>2, <1>5
  <2>3. o <= Signed(x + o) /\ Signed(x + o) < Never
    BY <1>1, <2>1 DEF Good
  <2>4. Left(t) = Signed(x + o)
    BY DEF Left
  <2>5. Signed(x + o) - o + new < Never
    <3>1. CASE waitMode
      BY <1>3, <1>7, <2>1, <2>2, <2>3, <2>4, <3>1, HalfFacts DEF Signed, Int32
    <3>2. CASE ~waitMode
      BY <2>2, <2>3, <3>2, HalfFacts DEF Signed, Int32
    <3> QED
      BY <3>1, <3>2
  <2> HIDE DEF x, o, new
  <2>6. Signed(x + new) = Signed(x + o) - o + new
    BY <2>2, <2>3, <2>5, HalfFacts DEF Signed, Int32, InWindow
  <2>7. new <= Signed(x + new) /\ Signed(x + new) < Never
    BY <2>2, <2>3, <2>5, <2>6, HalfFacts DEF Signed, Int32
  <2> QED
    BY <1>3, <2>7 DEF x
<1> HIDE DEF new
<1>8. ASSUME NEW t \in TimerType \ q.overtaken
      PROVE  InRange(q, t)
  <2> SUFFICES ASSUME q.Active[t], ~Frozen(q, t)
               PROVE  InWindow(Remaining(q)[t])
    BY DEF InRange
  <2>1. Remaining(q)[t] = Signed(q.NextTimer[t] + new)
    BY <1>3 DEF Remaining
  <2>2. Signed(q.NextTimer[t] + new) \in Int
    BY <1>2, <1>3, <1>5, HalfFacts DEF Signed, Int32
  <2> QED
    BY <1>5, <1>7, <2>1, <2>2, HalfFacts DEF InWindow
<1>9. q.Active[ViTimer]
  BY <1>1, <1>3 DEF Good
<1>10. ASSUME q.overtaken = {}
       PROVE  Good(q)
  BY <1>1, <1>3, <1>5, <1>7, <1>10 DEF Good
<1> QED
  BY <1>3, <1>6, <1>8, <1>9, <1>10 DEF q

-----------------------------------------------------------------------------
(* What a step leaves in *Timers: a value that is good unless a deadline   *)
(* has been overtaken.                                                     *)
Fine(q) ==
    /\ q \in SystemTimers
    /\ q.overtaken = {} => Good(q) /\ ~q.stopped

(* CheckTimer after a tick. *)
LEMMA CheckTimerFine ==
    ASSUME NEW q \in SystemTimers, ~q.stopped, q.overtaken = {} => Good(q),
           NEW k \in Word, NEW c \in Word
    PROVE  Fine(CheckTimer(q, k, c))
<1>1. CASE q.overtaken = {}
  <2>1. Ready(q)
    BY <1>1, GoodReady
  <2> QED
    BY <2>1, CheckTimerGood DEF Fine
<1>2. CASE q.overtaken # {}
  BY <1>2, CheckTimerTyped DEF Fine
<1> QED
  BY <1>1, <1>2

(* Arming a timer after a tick, perhaps the one that has been overtaken. *)
LEMMA ChangeTimerFine ==
    ASSUME NEW q \in SystemTimers, ~q.stopped, q.Active[ViTimer],
           \A u \in TimerType \ q.overtaken : InRange(q, u),
           NEW t \in TimerType, NEW v \in 1 .. Never,
           v = Never => t = CompareTimer,
           NEW k \in Word, NEW c \in Word
    PROVE  Fine(ChangeTimer(q, t, v, k, c))
<1>1. CASE q.overtaken \ {t} = {}
  <2>1. \A u \in TimerType \ {t} : InRange(q, u)
    BY <1>1
  <2> QED
    BY <2>1, ChangeTimerGood DEF Fine
<1>2. CASE q.overtaken \ {t} # {}
  <2> DEFINE s == SetTimer(q, t, v)
  <2>1. v \in Int32 /\ v # 0
    BY HalfFacts DEF Int32
  <2>2. s \in SystemTimers /\ s.overtaken = q.overtaken \ {t}
    BY <2>1, SetTimerTyped
  <2>3. ChangeTimer(q, t, v, k, c) = CheckTimer(s, k, c)
    BY <2>1 DEF ChangeTimer
  <2> HIDE DEF s
  <2> QED
    BY <1>2, <2>2, <2>3, CheckTimerTyped DEF Fine
<1> QED
  BY <1>1, <1>2

LEMMA ChangeCompareTimerFine ==
    ASSUME NEW q \in SystemTimers, ~q.stopped, q.Active[ViTimer],
           \A u \in TimerType \ q.overtaken : InRange(q, u),
           NEW k \in Word, NEW c \in Word
    PROVE  Fine(ChangeCompareTimer(q, k, c))
BY NextCompareRange, ChangeTimerFine DEF ChangeCompareTimer, TimerType

(* The skip of InPermLoop moves Timer and every deadline alike. *)
LEMMA SkipFine ==
    ASSUME NEW q \in SystemTimers, Fine(q), q.Timer >= 0
    PROVE  Fine([q EXCEPT !.Timer = -1])
<1> DEFINE s == [q EXCEPT !.Timer = -1]
<1>1. -1 \in Int32 /\ q.Timer \in Int32
      /\ \A t \in TimerType : q.NextTimer[t] \in Int32
  BY HalfFacts DEF Int32, SystemTimers
<1>2. /\ s.NextTimer = q.NextTimer /\ s.Active = q.Active
      /\ s.CurrentTimerType = q.CurrentTimerType /\ s.Timer = -1
      /\ s.stopped = q.stopped /\ s.overtaken = q.overtaken
      /\ s \in SystemTimers
  BY <1>1 DEF SystemTimers
<1> HIDE DEF s
<1>3. ASSUME Good(q), NEW t \in TimerType, s.Active[t], ~Frozen(s, t)
      PROVE  /\ s.Timer <= Signed(s.NextTimer[t] + s.Timer)
             /\ Signed(s.NextTimer[t] + s.Timer) < Never
  <2> DEFINE x == q.NextTimer[t]
             o == q.Timer
  <2>1. o <= Signed(x + o) /\ Signed(x + o) < Never
    BY <1>2, <1>3 DEF Good, Frozen
  <2>2. x \in Int32 /\ o \in Int32 /\ o >= 0
    BY <1>1
  <2> HIDE DEF x, o
  <2>3. -1 <= Signed(x + -1) /\ Signed(x + -1) < Never
    BY <2>1, <2>2, HalfFacts DEF Signed, Int32
  <2> QED
    BY <1>2, <2>3 DEF x
<1>4. InWindow(-1)
  BY HalfFacts DEF InWindow
<1>5. Good(q) => Good(s)
  BY <1>2, <1>3, <1>4 DEF Good
<1> QED
  BY <1>2, <1>5 DEF Fine, s

(* The poll bound on WaitMode. *)
LEMMA FetchIdled ==
    ASSUME TimersInv, Fetch, RoomForMore \/ atJump'
    PROVE  /\ idled' \in 0 .. MaxOvershoot
           /\ atJump' \in BOOLEAN
           /\ waitMode' /\ ~atJump' => idled' + 2 <= MaxRun
<1>1. idled \in 0 .. MaxOvershoot /\ waitMode \in BOOLEAN
  BY DEF TimersInv, TypeOK
<1>2. waitMode => idled + 2 <= MaxRun
  BY DEF TimersInv, Fetch
<1>3. idled' = IF waitMode THEN idled + 2 ELSE 0
  BY DEF Fetch
<1>4. idled' \in 0 .. MaxOvershoot
  BY <1>1, <1>2, <1>3, HalfFacts DEF MaxRun
<1>5. waitMode' /\ ~atJump' => idled' + 2 <= MaxRun
  BY DEF RoomForMore
<1> QED
  BY <1>4, <1>5 DEF Fetch

(* Every instruction keeps the invariant. *)
LEMMA InstructionInv == TimersInv /\ Instruction => TimersInv'
<1> SUFFICES ASSUME TimersInv, Instruction
             PROVE  TimersInv'
  OBVIOUS
<1>1. Fetch /\ (RoomForMore \/ atJump')
  BY DEF Instruction, Plain, Break, MoveToCompare, MoveToCount, AiLenChanged,
         StartDma, InPermLoop
<1>2. /\ count \in Word /\ compare \in Word /\ waitMode \in BOOLEAN
      /\ timers \in SystemTimers /\ ~timers.stopped
  BY <1>1 DEF TimersInv, TypeOK, Fetch, Sound
<1>3. /\ Ticked \in SystemTimers /\ ~Ticked.stopped /\ Ticked.Active[ViTimer]
      /\ \A u \in TimerType \ Ticked.overtaken : InRange(Ticked, u)
      /\ Ticked.overtaken = {} => Good(Ticked)
  BY <1>1, <1>2, DownGood DEF Fetch, Ticked
<1>4. Fine(Ticked)
  BY <1>3 DEF Fine
<1>5. TickedCount \in Word
  BY <1>2, HalfFacts DEF TickedCount, Unsigned, Word
<1>6. /\ count' \in Word /\ compare' \in Word /\ waitMode' \in BOOLEAN
      /\ Fine(timers')
  <2>1. CASE Plain
    BY <2>1, <1>2, <1>4, <1>5 DEF Plain
  <2>2. CASE Break
    BY <2>2, <1>2, <1>4, <1>5 DEF Break
  <2>3. CASE MoveToCompare
    <3>1. PICK v \in CompareWrites :
            /\ compare' = v
            /\ timers' = ChangeCompareTimer(Ticked, v, TickedCount)
      BY <2>3 DEF MoveToCompare
    <3>2. v \in Word
      BY TimersAssumption
    <3> QED
      BY <2>3, <3>1, <3>2, <1>2, <1>3, <1>5, ChangeCompareTimerFine
         DEF MoveToCompare
  <2>4. CASE MoveToCount
    <3>1. PICK v \in CountWrites :
            /\ count' = v
            /\ timers' = ChangeCompareTimer(Ticked, compare, v)
      BY <2>4 DEF MoveToCount
    <3>2. v \in Word
      BY TimersAssumption
    <3> QED
      BY <2>4, <3>1, <3>2, <1>2, <1>3, ChangeCompareTimerFine
         DEF MoveToCount
  <2>5. CASE AiLenChanged
    <3>1. PICK d \in AiDelays :
            timers' = ChangeTimer(Ticked, AiTimer, d, compare, TickedCount)
      BY <2>5 DEF AiLenChanged
    <3>2. d \in 1 .. Never /\ d # Never /\ AiTimer \in TimerType
      BY HalfFacts DEF TimerType
    <3>3. Fine(timers')
      BY <3>1, <3>2, <1>2, <1>3, <1>5, ChangeTimerFine
    <3> QED
      BY <2>5, <3>3, <1>2, <1>5 DEF AiLenChanged
  <2>6. CASE StartDma
    <3>1. Fine(timers')
      BY <2>6, <1>2, <1>3, <1>5, CheckTimerFine DEF StartDma
    <3> QED
      BY <2>6, <3>1, <1>2, <1>5 DEF StartDma
  <2>7. CASE InPermLoop
    <3>1. Ticked.Timer \in Int32
      BY <1>3 DEF SystemTimers
    <3>2. CASE Ticked.Timer >= 0
      <4>1. Fine(timers')
        BY <2>7, <3>2, <1>3, <1>4, SkipFine DEF InPermLoop
      <4>2. count' = Unsigned(TickedCount + Ticked.Timer + 1)
        BY <2>7, <3>2 DEF InPermLoop
      <4> DEFINE a == TickedCount
                 b == Ticked.Timer
      <4>3. a \in Word /\ b \in Int32 /\ b >= 0
        BY <1>5, <3>1, <3>2
      <4> HIDE DEF a, b
      <4>4. Unsigned(a + b + 1) \in Word
        BY <4>3, HalfFacts DEF Word, Int32, Unsigned
      <4> QED
        BY <2>7, <4>1, <4>2, <4>4, <1>2 DEF InPermLoop, a, b
    <3>3. CASE ~(Ticked.Timer >= 0)
      BY <2>7, <3>3, <1>2, <1>4, <1>5 DEF InPermLoop
    <3> QED
      BY <3>2, <3>3
  <2> QED
    BY <2>1, <2>2, <2>3, <2>4, <2>5, <2>6, <2>7 DEF Instruction
<1>7. /\ idled' \in 0 .. MaxOvershoot /\ atJump' \in BOOLEAN
      /\ waitMode' /\ ~atJump' => idled' + 2 <= MaxRun
  BY <1>1, FetchIdled
<1> QED
  BY <1>6, <1>7 DEF TimersInv, TypeOK, Fine

(* So does serving the timer that has expired. *)
LEMMA PollInv == TimersInv /\ Poll => TimersInv'
<1> SUFFICES ASSUME TimersInv, Poll
             PROVE  TimersInv'
  OBVIOUS
<1>1. /\ Sound /\ atJump /\ atJump' = FALSE /\ idled' = 0
      /\ count' = count /\ compare' = compare /\ waitMode' \in BOOLEAN
  BY DEF Poll, NotExpired, CompareDone, ViDone, AiDone, Expired, TimersInv,
         TypeOK
<1>2. /\ count \in Word /\ compare \in Word /\ timers \in SystemTimers
      /\ ~timers.stopped /\ timers.overtaken = {} /\ Good(timers)
  BY <1>1 DEF TimersInv, TypeOK, Sound
<1>3. Ready(timers)
  BY <1>2, GoodReady
<1>4. ViTimer \in TimerType /\ AiTimer \in TimerType
      /\ ViTimer # CompareTimer /\ AiTimer # ViTimer
  BY DEF TimerType, CompareTimer, ViTimer, AiTimer
<1>5. ASSUME NEW q \in SystemTimers, Good(q), ~q.stopped, q.overtaken = {},
             timers' = CheckTimer(q, compare, count)
      PROVE  Fine(timers')
  BY <1>2, <1>5, CheckTimerFine
<1>6. Fine(timers')
  <2>1. CASE NotExpired
    BY <2>1, <1>2 DEF NotExpired, Fine
  <2>2. CASE CompareDone
    <3> DEFINE q == ChangeCompareTimer(timers, compare, count)
    <3>1. /\ q \in SystemTimers /\ Good(q) /\ q.stopped = timers.stopped
          /\ q.overtaken = timers.overtaken \ {CompareTimer}
      BY <1>2, <1>3, ChangeCompareTimerGood DEF Ready
    <3>2. timers' = CheckTimer(q, compare, count)
      BY <2>2 DEF CompareDone
    <3> HIDE DEF q
    <3> QED
      BY <1>2, <1>5, <3>1, <3>2
  <2>3. CASE ViDone
    <3>1. PICK period \in ViDelays :
            timers' = CheckTimer(
                          ChangeTimer(timers, ViTimer,
                              Signed(Signed(timers.Timer
                                            + timers.NextTimer[ViTimer])
                                     + period), compare, count),
                          compare, count)
      BY <2>3 DEF ViDone
    <3> DEFINE due == Signed(Signed(timers.Timer + timers.NextTimer[ViTimer])
                             + period)
               q == ChangeTimer(timers, ViTimer, due, compare, count)
    <3>2. due \in 1 .. Never /\ due # Never
      <4>1. timers.NextTimer[ViTimer] = 0 /\ timers.Timer < 0
        BY <2>3, <1>2 DEF ViDone, Expired, Good
      <4>2. timers.Timer \in Int /\ timers.Timer >= -MaxOvershoot
        BY <1>2, HalfFacts DEF SystemTimers, Int32, Good, InWindow
      <4>3. period \in Nat /\ period > MaxOvershoot
            /\ period + 2 * MaxOvershoot < Half
        BY HalfFacts
      <4>4. due = Signed(Signed(timers.Timer + 0) + period)
        BY <4>1
      <4> DEFINE o == timers.Timer
      <4> HIDE DEF o
      <4>5. o \in Int /\ o >= -MaxOvershoot /\ o < 0
        BY <4>1, <4>2 DEF o
      <4>6. Signed(Signed(o + 0) + period) = o + period
        BY <4>3, <4>5, HalfFacts DEF Signed
      <4> QED
        BY <4>3, <4>4, <4>5, <4>6, HalfFacts DEF o
    <3>3. timers' = CheckTimer(q, compare, count)
      BY <3>1
    <3> HIDE DEF due
    <3>4. /\ q \in SystemTimers /\ Good(q) /\ q.stopped = timers.stopped
          /\ q.overtaken = timers.overtaken \ {ViTimer}
      BY <1>2, <1>3, <1>4, <3>2, ChangeTimerGood DEF Ready
    <3> HIDE DEF q
    <3> QED
      BY <1>2, <1>5, <3>3, <3>4
  <2>4. CASE AiDone
    <3> DEFINE q == SetTimer(timers, AiTimer, 0)
    <3>1. timers' = CheckTimer(q, compare, count)
      BY <2>4 DEF AiDone, ChangeTimer
    <3>2. q \in SystemTimers /\ Ready(q)
      BY <1>2, <1>3, <1>4, SetTimerOffReady
    <3>3. 0 \in Int32
      BY HalfFacts DEF Int32
    <3>4. q.stopped = timers.stopped
      BY <1>2, <1>4, <3>3, SetTimerTyped
    <3> HIDE DEF q
    <3> QED
      BY <1>2, <3>1, <3>2, <3>4, CheckTimerGood DEF Fine
  <2> QED
    BY <2>1, <2>2, <2>3, <2>4 DEF Poll
<1>7. idled' \in 0 .. MaxOvershoot
  BY <1>1, HalfFacts
<1>8. idled' + 2 <= MaxRun
  <2>1. MaxRun \in Int /\ MaxRun >= 3
    BY HalfFacts DEF MaxRun
  <2>2. idled' = 0
    BY <1>1
  <2> HIDE DEF MaxRun
  <2> QED
    BY <2>1, <2>2
<1>9. TypeOK'
  BY <1>1, <1>2, <1>6, <1>7 DEF TypeOK, Fine
<1> QED
  BY <1>6, <1>8, <1>9 DEF TimersInv, Fine

(* A fetch that misses only sets Timer back to -1, in WaitMode. *)
LEMMA FetchMissInv == TimersInv /\ FetchMiss => TimersInv'
<1> SUFFICES ASSUME TimersInv, FetchMiss
             PROVE  TimersInv'
  OBVIOUS
<1>1. timers \in SystemTimers /\ Good(timers) /\ ~timers.stopped
  BY DEF TimersInv, TypeOK, FetchMiss, Sound
<1>2. Down(0).Timer >= -MaxOvershoot
  <2>1. Down(0).Timer = IF waitMode THEN -1 ELSE timers.Timer
    BY <1>1, HalfFacts DEF Down, SystemTimers, Int32
  <2> QED
    BY <1>1, <2>1, HalfFacts DEF Good, InWindow
<1>3. /\ Down(0) \in SystemTimers
      /\ Down(0).stopped = timers.stopped
      /\ Down(0).overtaken = {} => Good(Down(0))
  BY <1>2, DownGood DEF FetchMiss
<1>4. /\ count' = count /\ compare' = compare /\ timers' = Down(0)
      /\ waitMode' = waitMode /\ atJump' = atJump /\ idled' = idled
  BY DEF FetchMiss
<1> HIDE DEF FetchMiss
<1>5. TypeOK'
  BY <1>3, <1>4 DEF TimersInv, TypeOK
<1> QED
  BY <1>1, <1>3, <1>4, <1>5 DEF TimersInv, Good

LEMMA NextInv == TimersInv /\ [Next]_vars => TimersInv'
<1> SUFFICES ASSUME TimersInv, [Next]_vars
             PROVE  TimersInv'
  OBVIOUS
<1>1. CASE Instruction
  BY <1>1, InstructionInv
<1>2. CASE Poll
  BY <1>2, PollInv
<1>3. CASE FetchMiss
  BY <1>3, FetchMissInv
<1>4. CASE Halted \/ UNCHANGED vars
  <2>1. /\ count' = count /\ compare' = compare /\ timers' = timers
        /\ waitMode' = waitMode /\ atJump' = atJump /\ idled' = idled
    BY <1>4 DEF Halted, vars
  <2>2. TypeOK'
    BY <2>1 DEF TimersInv, TypeOK
  <2> QED
    BY <2>1, <2>2 DEF TimersInv
<1> QED
  BY <1>1, <1>2, <1>3, <1>4 DEF Next

(* The part of the invariant that users of the timers see. *)
LEMMA InvEarliest == TimersInv => EarliestFirst
<1> SUFFICES ASSUME TimersInv, timers.overtaken = {}
             PROVE  /\ ~timers.stopped
                    /\ ViTimer \in Armed
                    /\ timers.CurrentTimerType \in Armed
                    /\ timers.NextTimer[timers.CurrentTimerType] = 0
                    /\ \A t \in Armed : timers.Timer <= Left(t)
  BY DEF EarliestFirst
<1>1. Good(timers) /\ ~timers.stopped
  BY DEF TimersInv
<1>2. ViTimer \in Armed
  BY <1>1 DEF Good, Armed, Frozen, TimerType, ViTimer, CompareTimer
<1>3. timers.CurrentTimerType \in Armed
  <2>1. Never # 0
    BY HalfFacts
  <2> QED
    BY <1>1, <2>1 DEF Good, Armed, Frozen
<1> QED
  BY <1>1, <1>2, <1>3 DEF Good, Armed, Left

(* For every word size and all delays within half a turn, the state of the *)
(* timers keeps its type: no 32-bit sum leaves its word (cpu.c, CheckTimer *)
(* and ChangeTimer).                                                       *)
THEOREM TypeCorrect == Spec => []TypeOK
<1>1. TimersInv => TypeOK
  BY DEF TimersInv
<1> QED
  BY <1>1, InitInv, NextInv, PTL DEF Spec

(* For every word size and all delays within half a turn, CheckTimer keeps *)
(* Timer on the earliest of the armed deadlines, and always finds one.     *)
THEOREM EarliestFirstHolds == Spec => []EarliestFirst
BY InitInv, NextInv, InvEarliest, PTL DEF Spec

-----------------------------------------------------------------------------
(* II. How far apart the deadlines are: that of VI never is more than a    *)
(* period after the earliest one, and that of AI never half a turn.        *)

(* The deadline of u is at most b away, and at most b after those of ts.   *)
Spread(q, u, ts, b) ==
    q.Active[u] =>
        /\ Remaining(q)[u] <= b
        /\ \A t \in ts : q.Active[t] /\ ~Frozen(q, t) =>
              Remaining(q)[u] - Remaining(q)[t] <= b

(* The bound for AI: no lateness turns it into half a turn. *)
AiSpread == Never - MaxOvershoot

(* What every call of CheckTimer leaves, with d the last period of VI. *)
Settled(q, k, c, d) ==
    /\ Spread(q, ViTimer, TimerType, d)
    /\ Spread(q, AiTimer, TimerType, AiSpread)
    /\ q.NextTimer[CompareTimer] = Never /\ ~q.endless => Ahead(k, c) >= Never

(* The recursion runs away at half a turn only. *)
EndsElsewhere(q, k, c) ==
    q.endless => Ahead(k, c) \in Never - MaxOvershoot .. Never - 1

-----------------------------------------------------------------------------
(* Re-basing changes no deadline that takes part in it. *)
LEMMA RebaseKeeps ==
    ASSUME NEW q \in SystemTimers, Ready(q), NEW t \in TimerType,
           Rebase(q).Active[t], ~Frozen(Rebase(q), t)
    PROVE  /\ q.Active[t] /\ ~Frozen(q, t)
           /\ Remaining(Rebase(q))[t] = Remaining(q)[t]
<1> DEFINE r == Remaining(q)
           p == Rebase(q)
           base == p.Timer
<1>1. r \in [TimerType -> Int32] /\ p \in SystemTimers /\ p.Active = q.Active
  BY RemainingWord, RebaseTyped
<1>2. base \in Int32
  BY <1>1 DEF SystemTimers
<1>3. p.NextTimer[t] = IF q.Active[t] /\ ~(t = CompareTimer /\ r[t] = Never)
                       THEN Signed(r[t] - base) ELSE r[t]
  BY DEF Rebase
<1>4. Remaining(p)[t] = Signed(p.NextTimer[t] + p.Timer)
  BY DEF Remaining
<1> HIDE DEF r, p
<1>5. ~(t = CompareTimer /\ r[t] = Never)
  BY <1>3 DEF Frozen, p
<1>6. ~Frozen(q, t)
  BY <1>5 DEF Frozen, Remaining, r
<1>7. Signed(p.NextTimer[t] + p.Timer) = r[t]
  BY <1>1, <1>2, <1>3, <1>5, SignedRoundTrip DEF p
<1> QED
  BY <1>1, <1>4, <1>6, <1>7 DEF p, r

LEMMA RebaseSpread ==
    ASSUME NEW q \in SystemTimers, Ready(q), NEW u \in {ViTimer, AiTimer},
           NEW b \in Int, Spread(q, u, TimerType, b)
    PROVE  Spread(Rebase(q), u, TimerType, b)
<1> DEFINE p == Rebase(q)
<1> SUFFICES ASSUME p.Active[u]
             PROVE  /\ Remaining(p)[u] <= b
                    /\ \A t \in TimerType : p.Active[t] /\ ~Frozen(p, t) =>
                          Remaining(p)[u] - Remaining(p)[t] <= b
  BY DEF Spread
<1>1. u \in TimerType /\ u # CompareTimer
  BY DEF TimerType, ViTimer, AiTimer, CompareTimer
<1>2. q.Active[u] /\ Remaining(p)[u] = Remaining(q)[u]
  BY <1>1, RebaseKeeps DEF Frozen
<1>3. ASSUME NEW t \in TimerType, p.Active[t], ~Frozen(p, t)
      PROVE  Remaining(p)[u] - Remaining(p)[t] <= b
  BY <1>2, <1>3, RebaseKeeps DEF Spread
<1> QED
  BY <1>2, <1>3 DEF Spread

(* Arming a timer leaves the others where they were. *)
LEMMA SetTimerRemaining ==
    ASSUME NEW q \in SystemTimers, NEW t \in TimerType, NEW v \in 1 .. Never
    PROVE  /\ SetTimer(q, t, v) \in SystemTimers
           /\ SetTimer(q, t, v).Active[t]
           /\ ~Frozen(SetTimer(q, t, v), t) =>
                 Remaining(SetTimer(q, t, v))[t] = v
           /\ \A x \in TimerType \ {t} :
                 /\ SetTimer(q, t, v).Active[x] = q.Active[x]
                 /\ Frozen(SetTimer(q, t, v), x) <=> Frozen(q, x)
                 /\ Remaining(SetTimer(q, t, v))[x] = Remaining(q)[x]
<1> DEFINE s == SetTimer(q, t, v)
<1>1. v \in Int32 /\ v # 0
  BY HalfFacts DEF Int32
<1>2. /\ s \in SystemTimers
      /\ s.NextTimer[t] = Signed(v - q.Timer)
      /\ s.Active[t]
      /\ \A x \in TimerType \ {t} :
            /\ s.NextTimer[x] = q.NextTimer[x]
            /\ s.Active[x] = q.Active[x]
      /\ s.Timer = q.Timer
  BY <1>1, SetTimerTyped
<1> HIDE DEF s
<1>3. q.Timer \in Int32
  BY DEF SystemTimers
<1>4. Signed(s.NextTimer[t] + s.Timer) = v
  BY <1>1, <1>2, <1>3, SignedRoundTrip
<1>5. ~Frozen(s, t) => Remaining(s)[t] = v
  BY <1>2, <1>4 DEF Remaining
<1>6. ASSUME NEW x \in TimerType \ {t}
      PROVE  /\ Frozen(s, x) <=> Frozen(q, x)
             /\ Remaining(s)[x] = Remaining(q)[x]
  <2>1. Frozen(s, x) <=> Frozen(q, x)
    BY <1>2, <1>6 DEF Frozen
  <2> QED
    BY <1>2, <1>6, <2>1 DEF Remaining
<1> QED
  BY <1>2, <1>5, <1>6 DEF s

(* Another timer is armed: later than now, so that u is no more than b     *)
(* after it.                                                               *)
LEMMA SetOtherSpread ==
    ASSUME NEW q \in SystemTimers, NEW t \in TimerType, NEW v \in 1 .. Never,
           NEW u \in {ViTimer, AiTimer} \ {t}, NEW b \in Int,
           Spread(q, u, TimerType \ {t}, b)
    PROVE  Spread(SetTimer(q, t, v), u, TimerType, b)
<1> DEFINE s == SetTimer(q, t, v)
<1>1. u \in TimerType \ {t}
  BY DEF TimerType, ViTimer, AiTimer
<1>2. /\ ~Frozen(s, t) => Remaining(s)[t] = v
      /\ \A x \in TimerType \ {t} :
            /\ s.Active[x] = q.Active[x]
            /\ Frozen(s, x) <=> Frozen(q, x)
            /\ Remaining(s)[x] = Remaining(q)[x]
  BY SetTimerRemaining
<1>3. Remaining(q)[u] \in Int
  BY <1>1, RemainingWord, HalfFacts DEF Int32
<1> HIDE DEF s
<1>4. ASSUME s.Active[u]
      PROVE  /\ Remaining(s)[u] <= b
             /\ \A x \in TimerType : s.Active[x] /\ ~Frozen(s, x) =>
                   Remaining(s)[u] - Remaining(s)[x] <= b
  <2>1. q.Active[u] /\ Remaining(s)[u] = Remaining(q)[u]
        /\ Remaining(s)[u] <= b
    BY <1>1, <1>2, <1>4 DEF Spread
  <2>2. ASSUME NEW x \in TimerType, s.Active[x], ~Frozen(s, x)
        PROVE  Remaining(s)[u] - Remaining(s)[x] <= b
    <3>1. CASE x = t
      <4>1. Remaining(s)[x] = v /\ v >= 1 /\ v \in Int
        BY <1>2, <2>2, <3>1, HalfFacts
      <4> QED
        BY <1>3, <2>1, <4>1
    <3>2. CASE x # t
      BY <1>2, <2>1, <2>2, <3>2 DEF Spread
    <3> QED
      BY <3>1, <3>2
  <2> QED
    BY <2>1, <2>2
<1> QED
  BY <1>4 DEF Spread, s

(* The timer itself is armed. *)
LEMMA SetSelfSpread ==
    ASSUME NEW q \in SystemTimers, NEW u \in {ViTimer, AiTimer},
           NEW v \in 1 .. Never, NEW b \in Int, v <= b,
           \A x \in TimerType \ {u} : q.Active[x] /\ ~Frozen(q, x) =>
               v - Remaining(q)[x] <= b
    PROVE  Spread(SetTimer(q, u, v), u, TimerType, b)
<1> DEFINE s == SetTimer(q, u, v)
<1>1. u \in TimerType /\ u # CompareTimer
  BY DEF TimerType, ViTimer, AiTimer, CompareTimer
<1>2. /\ Remaining(s)[u] = v
      /\ \A x \in TimerType \ {u} :
            /\ s.Active[x] = q.Active[x]
            /\ Frozen(s, x) <=> Frozen(q, x)
            /\ Remaining(s)[x] = Remaining(q)[x]
  BY <1>1, SetTimerRemaining DEF Frozen
<1>3. v \in Int /\ v - v <= b /\ v >= 1
  BY HalfFacts
<1> HIDE DEF s
<1>4. ASSUME NEW x \in TimerType, s.Active[x], ~Frozen(s, x)
      PROVE  Remaining(s)[u] - Remaining(s)[x] <= b
  <2>1. CASE x = u
    BY <1>2, <1>3, <2>1
  <2>2. CASE x # u
    BY <1>2, <1>4, <2>2
  <2> QED
    BY <2>1, <2>2
<1> QED
  BY <1>2, <1>4 DEF Spread, s

(* The AI timer is disarmed. *)
LEMMA SetOffSpread ==
    ASSUME NEW q \in SystemTimers, NEW u \in {ViTimer, AiTimer}, NEW b \in Int,
           Spread(q, u, TimerType, b)
    PROVE  Spread(SetTimer(q, AiTimer, 0), u, TimerType, b)
<1> DEFINE s == SetTimer(q, AiTimer, 0)
<1>1. AiTimer \in TimerType /\ u \in TimerType
  BY DEF TimerType, ViTimer, AiTimer
<1>2. 0 \in Int32
  BY HalfFacts DEF Int32
<1>3. /\ ~s.Active[AiTimer]
      /\ \A x \in TimerType \ {AiTimer} :
            /\ s.NextTimer[x] = q.NextTimer[x]
            /\ s.Active[x] = q.Active[x]
      /\ s.Timer = q.Timer
  BY <1>1, <1>2, SetTimerTyped
<1> HIDE DEF s
<1>4. ASSUME NEW x \in TimerType \ {AiTimer}
      PROVE  /\ Frozen(s, x) <=> Frozen(q, x)
             /\ Remaining(s)[x] = Remaining(q)[x]
  <2>1. Frozen(s, x) <=> Frozen(q, x)
    BY <1>3, <1>4 DEF Frozen
  <2> QED
    BY <1>3, <1>4, <2>1 DEF Remaining
<1>5. ASSUME s.Active[u]
      PROVE  /\ Remaining(s)[u] <= b
             /\ \A x \in TimerType : s.Active[x] /\ ~Frozen(s, x) =>
                   Remaining(s)[u] - Remaining(s)[x] <= b
  <2>1. u \in TimerType \ {AiTimer} /\ q.Active[u]
    BY <1>1, <1>3, <1>5
  <2>2. Remaining(s)[u] = Remaining(q)[u]
    BY <1>4, <2>1
  <2>3. ASSUME NEW x \in TimerType, s.Active[x], ~Frozen(s, x)
        PROVE  /\ Remaining(s)[x] = Remaining(q)[x]
               /\ q.Active[x] /\ ~Frozen(q, x)
    <3>1. x \in TimerType \ {AiTimer}
      BY <1>3, <2>3
    <3> QED
      BY <1>3, <1>4, <2>3, <3>1
  <2> QED
    BY <2>1, <2>2, <2>3 DEF Spread
<1> QED
  BY <1>5 DEF Spread, s

-----------------------------------------------------------------------------
(* CheckTimer, with the revival of Compare, keeps deadlines together. *)
LEMMA CheckSpread ==
    ASSUME NEW q \in SystemTimers, Ready(q), NEW k \in Word, NEW c \in Word,
           NEW u \in {ViTimer, AiTimer}, NEW b \in Int,
           Spread(q, u, TimerType, b)
    PROVE  Spread(CheckTimer(q, k, c), u, TimerType, b)
<1> DEFINE p == Rebase(q)
           v == NextCompare(k, c)
           s == SetTimer(p, CompareTimer, v)
           revived == Rebase(s)
           z == CheckTimer(q, k, c)
<1>1. p \in SystemTimers /\ Good(p) /\ Spread(p, u, TimerType, b)
  BY RebaseTyped, RebaseGood, RebaseSpread
<1>2. z = IF ~Revives(p, k, c) THEN p
          ELSE [revived EXCEPT !.endless = @ \/ Revives(revived, k, c),
                               !.overtaken = p.overtaken]
  BY DEF CheckTimer
<1> HIDE DEF p, z
<1>3. CASE ~Revives(p, k, c)
  BY <1>1, <1>2, <1>3 DEF z
<1>4. CASE Revives(p, k, c)
  <2>1. v \in 1 .. Never /\ v # Never
    BY <1>4, NextCompareRange, HalfFacts DEF Revives
  <2>2. /\ CompareTimer \in TimerType /\ ViTimer \in TimerType
        /\ u \in {ViTimer, AiTimer} \ {CompareTimer}
    BY DEF TimerType, CompareTimer, ViTimer, AiTimer
  <2>3. Ready(p)
    BY <1>1, GoodReady
  <2> HIDE DEF v
  <2>4. s \in SystemTimers /\ Ready(s)
    BY <1>1, <2>1, <2>2, <2>3, SetTimerReady DEF Ready
  <2>5. Spread(p, u, TimerType \ {CompareTimer}, b)
    BY <1>1 DEF Spread
  <2>6. Spread(s, u, TimerType, b)
    BY <1>1, <2>1, <2>2, <2>5, SetOtherSpread
  <2> HIDE DEF s
  <2>7. revived \in SystemTimers /\ Spread(revived, u, TimerType, b)
    BY <2>4, <2>6, RebaseTyped, RebaseSpread
  <2> HIDE DEF revived
  <2>8. /\ z.NextTimer = revived.NextTimer /\ z.Active = revived.Active
        /\ z.Timer = revived.Timer
    BY <1>2, <1>4, <2>7 DEF SystemTimers
  <2>9. \A t : Frozen(z, t) <=> Frozen(revived, t)
    BY <2>8 DEF Frozen
  <2>10. Remaining(z) = Remaining(revived)
    BY <2>8, <2>9 DEF Remaining
  <2> QED
    BY <2>7, <2>8, <2>9, <2>10 DEF Spread, z
<1> QED
  BY <1>3, <1>4

(* What CheckTimer leaves as Never is at least half a turn ahead, unless   *)
(* the recursion has run away.                                             *)
LEMMA CheckLeavesFar ==
    ASSUME NEW q \in SystemTimers, NEW k \in Word, NEW c \in Word,
           ~CheckTimer(q, k, c).endless,
           CheckTimer(q, k, c).NextTimer[CompareTimer] = Never
    PROVE  Ahead(k, c) >= Never
<1> DEFINE p == Rebase(q)
           v == NextCompare(k, c)
           s == SetTimer(p, CompareTimer, v)
           revived == Rebase(s)
           z == CheckTimer(q, k, c)
<1>1. z = IF ~Revives(p, k, c) THEN p
          ELSE [revived EXCEPT !.endless = @ \/ Revives(revived, k, c),
                               !.overtaken = p.overtaken]
  BY DEF CheckTimer
<1>2. Ahead(k, c) \in Int /\ Never \in Int
  BY NextCompareRange, HalfFacts DEF Word
<1>3. p \in SystemTimers
  BY RebaseTyped
<1>4. v \in Int32 /\ CompareTimer \in TimerType
  BY NextCompareRange, HalfFacts DEF Int32, TimerType
<1> HIDE DEF p, v, z
<1>5. s \in SystemTimers
  BY <1>3, <1>4, SetTimerTyped
<1> HIDE DEF s
<1>6. revived \in SystemTimers
  BY <1>5, RebaseTyped
<1> HIDE DEF revived
<1>7. CASE ~Revives(p, k, c)
  <2>1. z = p /\ p.NextTimer[CompareTimer] = Never
    BY <1>1, <1>7 DEF z
  <2> QED
    BY <1>2, <1>7, <2>1 DEF Revives
<1>8. CASE Revives(p, k, c)
  <2>1. z.NextTimer = revived.NextTimer
        /\ z.endless = (revived.endless \/ Revives(revived, k, c))
    BY <1>1, <1>6, <1>8 DEF SystemTimers
  <2>2. ~Revives(revived, k, c) /\ revived.NextTimer[CompareTimer] = Never
    BY <2>1 DEF z
  <2> QED
    BY <1>2, <2>2 DEF Revives
<1> QED
  BY <1>7, <1>8

(* A Compare deadline that comes out of re-basing as Never was in range.   *)
LEMMA NeverReady ==
    ASSUME NEW q \in SystemTimers, q.Active[ViTimer],
           \A u \in TimerType \ {CompareTimer} : InRange(q, u),
           Rebase(q).NextTimer[CompareTimer] = Never
    PROVE  Ready(q)
<1> DEFINE r == Remaining(q)
           first == Earliest(q)
           base == r[first]
<1> SUFFICES ASSUME q.Active[CompareTimer], ~Frozen(q, CompareTimer),
                    r[CompareTimer] # Never
             PROVE  InWindow(r[CompareTimer])
  BY DEF Ready, InRange
<1>1. r \in [TimerType -> Int32] /\ CompareTimer \in TimerType
      /\ ViTimer \in TimerType \ {CompareTimer}
  BY RemainingWord DEF TimerType, CompareTimer, ViTimer, AiTimer
<1>2. ViTimer \in Candidates(q)
  BY <1>1 DEF InRange, Frozen, Candidates, InWindow
<1>3. /\ first \in TimerType /\ q.Active[first] /\ r[first] < Never
      /\ \A u \in Candidates(q) : r[first] <= r[u]
  BY <1>2, EarliestChosen DEF Candidates
<1>4. r[CompareTimer] < Never
  BY <1>1, HalfFacts DEF Int32
<1>5. r[first] <= r[CompareTimer]
  BY <1>1, <1>3, <1>4 DEF Candidates
<1>6. first # CompareTimer
  <2> SUFFICES ASSUME first = CompareTimer PROVE FALSE
    OBVIOUS
  <2>1. first # NoTimer /\ Candidates(q) # {}
    BY <1>2, <1>3 DEF TimerType, NoTimer, CompareTimer, ViTimer, AiTimer
  <2>2. Rebase(q).NextTimer[CompareTimer] = Signed(r[CompareTimer] - base)
    BY <1>1, <2>1 DEF Rebase
  <2>3. r[CompareTimer] - base = 0
    BY <1>1, HalfFacts DEF Int32
  <2>4. Signed(0) = 0 /\ Never # 0
    BY HalfFacts DEF Signed
  <2> HIDE DEF r, base
  <2> QED
    BY <2>2, <2>3, <2>4
<1>7. r[first] >= -MaxOvershoot
  <2>1. InRange(q, first) /\ ~Frozen(q, first)
    BY <1>3, <1>6 DEF Frozen
  <2> QED
    BY <1>3, <1>6, <2>1 DEF InRange, InWindow
<1> HIDE DEF r, first
<1>8. r[first] \in Int /\ r[CompareTimer] \in Int
  BY <1>1, <1>3, HalfFacts DEF Int32
<1> QED
  BY <1>4, <1>5, <1>7, <1>8, HalfFacts DEF InWindow

(* The distance that comes out as Never again when it is armed at o. *)
LEMMA NeverAgain ==
    ASSUME NEW v \in Int, v >= 1, v < Never,
           NEW o \in Int, -MaxOvershoot <= o, o < Never,
           Signed(v - o) = Never
    PROVE  v >= Never - MaxOvershoot /\ v > 1
BY HalfFacts DEF Signed

(* The calls of CheckTimer and ChangeCompareTimer nest for ever only when  *)
(* a deadline that is past makes the distance to COMPARE come out as Never *)
(* again.                                                                  *)
LEMMA CheckEnds ==
    ASSUME NEW q \in SystemTimers, q.Active[ViTimer],
           \A u \in TimerType \ {CompareTimer} : InRange(q, u),
           NEW k \in Word, NEW c \in Word, EndsElsewhere(q, k, c)
    PROVE  EndsElsewhere(CheckTimer(q, k, c), k, c)
<1> DEFINE p == Rebase(q)
           v == NextCompare(k, c)
           s == SetTimer(p, CompareTimer, v)
           revived == Rebase(s)
           z == CheckTimer(q, k, c)
<1>1. p \in SystemTimers /\ p.endless = q.endless
  BY RebaseTyped
<1>2. z = IF ~Revives(p, k, c) THEN p
          ELSE [revived EXCEPT !.endless = @ \/ Revives(revived, k, c),
                               !.overtaken = p.overtaken]
  BY DEF CheckTimer
<1>3. (Ready(q) /\ Good(p)) \/ ~Revives(p, k, c)
  BY NeverReady, RebaseGood DEF Revives
<1>4. CompareTimer \in TimerType /\ ViTimer \in TimerType \ {CompareTimer}
  BY DEF TimerType, CompareTimer, ViTimer, AiTimer
<1> HIDE DEF p, z
<1>5. CASE ~Revives(p, k, c)
  BY <1>1, <1>2, <1>5 DEF EndsElsewhere, z
<1>6. CASE Revives(p, k, c)
  <2>1. Ahead(k, c) < Never /\ Ahead(k, c) \in Word
    BY <1>6, NextCompareRange DEF Revives
  <2>2. v \in 1 .. Never /\ v < Never
        /\ v = IF Ahead(k, c) = 0 THEN 1 ELSE Ahead(k, c)
    BY <2>1, NextCompareRange, HalfFacts DEF NextCompare, Word
  <2>3. Ready(p) /\ Good(p)
    BY <1>1, <1>3, <1>6, GoodReady
  <2> HIDE DEF v
  <2>4. v \in Int32 /\ v # 0 /\ v # Never /\ v \in Int /\ v >= 1
    BY <2>2, HalfFacts DEF Int32
  <2>5. /\ s \in SystemTimers /\ Ready(s) /\ s.Active[CompareTimer]
        /\ s.NextTimer[CompareTimer] = Signed(v - p.Timer)
        /\ ~Frozen(s, CompareTimer) => Remaining(s)[CompareTimer] = v
        /\ s.endless = p.endless
    BY <1>1, <1>4, <2>2, <2>3, <2>4, SetTimerReady, SetTimerRemaining,
       SetTimerTyped DEF Ready
  <2> HIDE DEF s
  <2>6. /\ revived \in SystemTimers /\ Good(revived)
        /\ revived.endless = s.endless
    BY <2>5, RebaseTyped, RebaseGood
  <2>7. revived.NextTimer[CompareTimer] =
          IF ~(Remaining(s)[CompareTimer] = Never)
          THEN Signed(Remaining(s)[CompareTimer] - revived.Timer)
          ELSE Remaining(s)[CompareTimer]
    BY <1>4, <2>5 DEF Rebase
  <2>8. /\ p.Timer \in Int /\ -MaxOvershoot <= p.Timer /\ p.Timer < Never
        /\ revived.Timer \in Int /\ -MaxOvershoot <= revived.Timer
        /\ revived.Timer < Never
    BY <1>1, <2>3, <2>6, HalfFacts DEF Good, InWindow, SystemTimers, Int32
  <2> HIDE DEF revived
  <2>9. ASSUME Revives(revived, k, c)
        PROVE  Ahead(k, c) \in Never - MaxOvershoot .. Never - 1
    <3>1. \E o \in Int : -MaxOvershoot <= o /\ o < Never
                         /\ Signed(v - o) = Never
      <4>1. CASE Frozen(s, CompareTimer)
        BY <2>5, <2>8, <4>1 DEF Frozen
      <4>2. CASE ~Frozen(s, CompareTimer)
        BY <2>4, <2>5, <2>7, <2>8, <2>9, <4>2 DEF Revives
      <4> QED
        BY <4>1, <4>2
    <3>2. v >= Never - MaxOvershoot /\ v > 1
      BY <2>2, <2>4, <3>1, NeverAgain
    <3> QED
      BY <2>1, <2>2, <3>2, HalfFacts DEF Word
  <2>10. z.endless = (revived.endless \/ Revives(revived, k, c))
    BY <1>2, <1>6, <2>6 DEF SystemTimers
  <2> QED
    BY <1>1, <2>5, <2>6, <2>9, <2>10 DEF EndsElsewhere, z
<1> QED
  BY <1>5, <1>6

(* CheckTimer settles what is together. *)
LEMMA CheckSettled ==
    ASSUME NEW q \in SystemTimers, Ready(q), NEW k \in Word, NEW c \in Word,
           NEW d \in Int, Spread(q, ViTimer, TimerType, d),
           Spread(q, AiTimer, TimerType, AiSpread)
    PROVE  Settled(CheckTimer(q, k, c), k, c, d)
<1>1. AiSpread \in Int
  BY HalfFacts DEF AiSpread
<1> QED
  BY <1>1, CheckSpread, CheckLeavesFar DEF Settled

(* So does arming a timer: with what is past subtracted, VI is never armed *)
(* more than a period after the others.                                    *)
LEMMA ChangeSettled ==
    ASSUME NEW q \in SystemTimers, NEW t \in TimerType, NEW v \in 1 .. Never,
           v = Never => t = CompareTimer,
           t = ViTimer \/ q.Active[ViTimer],
           \A u \in TimerType \ {t} : InRange(q, u),
           NEW k \in Word, NEW c \in Word, NEW d \in Int,
           \A u \in {ViTimer, AiTimer} \ {t} :
               Spread(q, u, TimerType \ {t}, IF u = ViTimer THEN d ELSE AiSpread),
           t # CompareTimer =>
               \E b \in Int :
                   /\ b = IF t = ViTimer THEN d ELSE AiSpread
                   /\ v <= b
                   /\ \A x \in TimerType \ {t} : q.Active[x] /\ ~Frozen(q, x) =>
                         v - Remaining(q)[x] <= b
    PROVE  Settled(ChangeTimer(q, t, v, k, c), k, c, d)
<1> DEFINE s == SetTimer(q, t, v)
<1>1. v \in Int32 /\ v # 0
  BY HalfFacts DEF Int32
<1>2. ChangeTimer(q, t, v, k, c) = CheckTimer(s, k, c)
  BY <1>1 DEF ChangeTimer
<1>3. s \in SystemTimers /\ Ready(s)
  BY SetTimerReady
<1>4. AiSpread \in Int
  BY HalfFacts DEF AiSpread
<1>5. ViTimer # AiTimer /\ ViTimer # CompareTimer /\ AiTimer # CompareTimer
  BY DEF ViTimer, AiTimer, CompareTimer
<1>6. Spread(s, ViTimer, TimerType, d)
  <2>1. CASE t = ViTimer
    BY <1>5, <2>1, SetSelfSpread
  <2>2. CASE t # ViTimer
    BY <2>2, SetOtherSpread
  <2> QED
    BY <2>1, <2>2
<1>7. Spread(s, AiTimer, TimerType, AiSpread)
  <2>1. CASE t = AiTimer
    BY <1>4, <1>5, <2>1, SetSelfSpread
  <2>2. CASE t # AiTimer
    <3>1. AiTimer \in {ViTimer, AiTimer} \ {t}
      BY <2>2
    <3>2. Spread(q, AiTimer, TimerType \ {t}, AiSpread)
      BY <1>5, <3>1
    <3> QED
      BY <1>4, <3>1, <3>2, SetOtherSpread
  <2> QED
    BY <2>1, <2>2
<1> HIDE DEF s
<1> QED
  BY <1>2, <1>3, <1>6, <1>7, CheckSettled

(* Arming a timer lets the recursion end, as CheckTimer does. *)
LEMMA ChangeEnds ==
    ASSUME NEW q \in SystemTimers, NEW t \in TimerType, NEW v \in 1 .. Never,
           v = Never => t = CompareTimer,
           t = ViTimer \/ q.Active[ViTimer],
           \A u \in TimerType \ {t, CompareTimer} : InRange(q, u),
           NEW k \in Word, NEW c \in Word, EndsElsewhere(q, k, c)
    PROVE  EndsElsewhere(ChangeTimer(q, t, v, k, c), k, c)
<1> DEFINE s == SetTimer(q, t, v)
<1>1. v \in Int32 /\ v # 0
  BY HalfFacts DEF Int32
<1>2. ChangeTimer(q, t, v, k, c) = CheckTimer(s, k, c)
  BY <1>1 DEF ChangeTimer
<1>3. /\ s \in SystemTimers /\ s.endless = q.endless /\ s.Active[t]
      /\ ~Frozen(s, t) => Remaining(s)[t] = v
      /\ \A x \in TimerType \ {t} :
            /\ s.Active[x] = q.Active[x]
            /\ Frozen(s, x) <=> Frozen(q, x)
            /\ Remaining(s)[x] = Remaining(q)[x]
  BY <1>1, SetTimerTyped, SetTimerRemaining
<1> HIDE DEF s
<1>4. s.Active[ViTimer]
  BY <1>3 DEF TimerType
<1>5. ASSUME NEW u \in TimerType \ {CompareTimer}
      PROVE  InRange(s, u)
  <2>1. CASE u = t
    <3>1. InWindow(v)
      BY <1>5, <2>1, HalfFacts DEF InWindow
    <3> QED
      BY <1>3, <2>1, <3>1 DEF InRange
  <2>2. CASE u # t
    BY <1>3, <1>5, <2>2 DEF InRange
  <2> QED
    BY <2>1, <2>2
<1>6. EndsElsewhere(s, k, c)
  BY <1>3 DEF EndsElsewhere
<1> QED
  BY <1>2, <1>3, <1>4, <1>5, <1>6, CheckEnds

-----------------------------------------------------------------------------
(* A tick, also one of WaitMode, moves every deadline by as much as Timer, *)
(* but for those that are overtaken.                                       *)
LEMMA DownRemaining ==
    ASSUME NEW n \in 0 .. 2, TimersInv, Sound, Down(n).Timer >= -MaxOvershoot
    PROVE  /\ Down(n).NextTimer = timers.NextTimer
           /\ Down(n).Active = timers.Active
           /\ Down(n).endless = timers.endless
           /\ Down(n).Timer = IF waitMode THEN -1 - n ELSE timers.Timer - n
           /\ Down(n).overtaken =
                 IF waitMode
                 THEN {t \in Armed : Left(t) - timers.Timer - 1 - n >= Never}
                 ELSE {}
           /\ \A t \in TimerType \ Down(n).overtaken :
                 timers.Active[t] /\ ~Frozen(timers, t) =>
                    Remaining(Down(n))[t]
                       = Remaining(timers)[t] - timers.Timer + Down(n).Timer
<1> DEFINE new == IF waitMode THEN -1 - n ELSE timers.Timer - n
           q == Down(n)
<1>1. /\ timers \in SystemTimers /\ Good(timers)
  BY DEF TimersInv, TypeOK, Sound
<1>2. /\ timers.Timer \in Int /\ InWindow(timers.Timer)
      /\ \A t \in TimerType : timers.NextTimer[t] \in Int32
  BY <1>1, HalfFacts DEF SystemTimers, Int32, Good
<1>3. /\ q.NextTimer = timers.NextTimer /\ q.Active = timers.Active
      /\ q.Timer = new /\ q.endless = timers.endless
      /\ q.overtaken = IF waitMode
                       THEN {t \in Armed : Left(t) - timers.Timer - 1 - n >= Never}
                       ELSE {}
  <2>1. CASE waitMode
    <3>1. q = [timers EXCEPT
                 !.Timer = -1 - n,
                 !.overtaken = {t \in Armed :
                                   Left(t) - timers.Timer - 1 - n >= Never}]
      BY <2>1 DEF Down
    <3> QED
      BY <1>1, <2>1, <3>1 DEF SystemTimers
  <2>2. CASE ~waitMode
    <3>1. q = [timers EXCEPT !.Timer = @ - n]
      BY <2>2 DEF Down
    <3>2. q.overtaken = timers.overtaken /\ timers.overtaken = {}
      BY <1>1, <3>1 DEF SystemTimers, Sound
    <3> QED
      BY <1>1, <2>2, <3>1, <3>2 DEF SystemTimers
  <2> QED
    BY <2>1, <2>2
<1>4. q.Timer >= -MaxOvershoot
  OBVIOUS
<1> HIDE DEF q
<1>5. new \in Int /\ InWindow(new)
  BY <1>2, <1>3, <1>4, HalfFacts DEF InWindow
<1>6. ASSUME NEW t \in TimerType \ q.overtaken,
             timers.Active[t], ~Frozen(timers, t)
      PROVE  Remaining(q)[t] = Remaining(timers)[t] - timers.Timer + new
  <2> DEFINE x == timers.NextTimer[t]
             o == timers.Timer
  <2>1. t \in Armed /\ ~Frozen(q, t) /\ q.Active[t]
    BY <1>3, <1>6 DEF Armed, Frozen
  <2>2. x \in Int32 /\ o \in Int /\ InWindow(o) /\ new \in Int
        /\ InWindow(new)
    BY <1>2, <1>5
  <2>3. o <= Signed(x + o) /\ Signed(x + o) < Never
    BY <1>1, <1>6 DEF Good
  <2>4. Left(t) = Signed(x + o) /\ Remaining(timers)[t] = Signed(x + o)
        /\ Remaining(q)[t] = Signed(x + new)
    BY <1>3, <1>6, <2>1 DEF Left, Remaining
  <2>5. Signed(x + o) - o + new < Never
    <3>1. CASE waitMode
      BY <1>3, <1>6, <2>1, <2>2, <2>3, <2>4, <3>1, HalfFacts DEF Signed, Int32
    <3>2. CASE ~waitMode
      BY <2>2, <2>3, <3>2, HalfFacts DEF Signed, Int32
    <3> QED
      BY <3>1, <3>2
  <2> HIDE DEF x, o, new
  <2>6. Signed(x + new) = Signed(x + o) - o + new
    BY <2>2, <2>3, <2>5, HalfFacts DEF Signed, Int32, InWindow
  <2> QED
    BY <2>4, <2>6 DEF o
<1> HIDE DEF new
<1>7. \A t \in TimerType \ q.overtaken :
         timers.Active[t] /\ ~Frozen(timers, t) =>
            Remaining(q)[t] = Remaining(timers)[t] - timers.Timer + q.Timer
  BY <1>3, <1>6
<1> QED
  BY <1>3, <1>7 DEF q, new

(* So the deadlines that stay in reach are as far apart as before, and the *)
(* one of u, which is close to the earliest, does stay.                    *)
LEMMA DownSpread ==
    ASSUME NEW n \in 0 .. 2, TimersInv, Sound, Down(n).Timer >= -MaxOvershoot,
           NEW u \in {ViTimer, AiTimer}, NEW b \in Int, b <= Never,
           Spread(timers, u, TimerType, b)
    PROVE  /\ Spread(Down(n), u, TimerType \ Down(n).overtaken, b)
           /\ u \notin Down(n).overtaken
<1> DEFINE q == Down(n)
           cur == timers.CurrentTimerType
           rem == Remaining(timers)
<1>1. /\ timers \in SystemTimers /\ Good(timers)
  BY DEF TimersInv, TypeOK, Sound
<1>2. /\ timers.Timer \in Int /\ n \in Int
      /\ \A t \in TimerType : rem[t] \in Int
  BY <1>1, RemainingWord, HalfFacts DEF SystemTimers, Int32
<1>3. u \in TimerType /\ ~Frozen(timers, u) /\ ~Frozen(q, u)
  BY DEF TimerType, Frozen, ViTimer, AiTimer, CompareTimer
<1>4. /\ cur \in TimerType /\ timers.Active[cur] /\ ~Frozen(timers, cur)
      /\ rem[cur] = timers.Timer
  <2>1. timers.NextTimer[cur] = 0 /\ Never # 0
    BY <1>1, HalfFacts DEF Good
  <2>2. InWindow(timers.Timer)
    BY <1>1 DEF Good
  <2>3. Signed(0 + timers.Timer) = timers.Timer
    BY <1>2, <2>2, HalfFacts DEF Signed, InWindow
  <2> QED
    BY <1>1, <2>1, <2>3 DEF Good, Frozen, Remaining
<1>5. /\ q.NextTimer = timers.NextTimer /\ q.Active = timers.Active
      /\ q.Timer = IF waitMode THEN -1 - n ELSE timers.Timer - n
      /\ q.overtaken = IF waitMode
                       THEN {t \in Armed : Left(t) - timers.Timer - 1 - n >= Never}
                       ELSE {}
      /\ \A t \in TimerType \ q.overtaken :
            timers.Active[t] /\ ~Frozen(timers, t) =>
               Remaining(q)[t] = rem[t] - timers.Timer + q.Timer
  BY DownRemaining
<1>6. \A t : Frozen(q, t) <=> Frozen(timers, t)
  BY <1>5 DEF Frozen
<1> HIDE DEF q
<1>7. timers.Active[u] => rem[u] <= b /\ rem[u] - timers.Timer <= b
  BY <1>4 DEF Spread
<1>8. u \notin q.overtaken
  <2> SUFFICES ASSUME waitMode, u \in Armed
               PROVE  ~(Left(u) - timers.Timer - 1 - n >= Never)
    BY <1>5
  <2>1. Left(u) = rem[u] /\ timers.Active[u]
    BY <1>3 DEF Armed, Left, Remaining
  <2> HIDE DEF rem
  <2> QED
    BY <1>2, <1>3, <1>7, <2>1, HalfFacts
<1>9. ASSUME timers.Active[u]
      PROVE  /\ Remaining(q)[u] = rem[u] - timers.Timer + q.Timer
             /\ Remaining(q)[u] <= b
  <2>1. Remaining(q)[u] = rem[u] - timers.Timer + q.Timer
    BY <1>3, <1>5, <1>8, <1>9
  <2> HIDE DEF rem
  <2>2. rem[u] - timers.Timer + q.Timer <= b
    BY <1>2, <1>3, <1>5, <1>7, <1>9
  <2> QED
    BY <2>1, <2>2
<1>10. ASSUME NEW t \in TimerType \ q.overtaken, q.Active[u], q.Active[t],
              ~Frozen(q, t)
       PROVE  Remaining(q)[u] - Remaining(q)[t] <= b
  <2>1. rem[u] - rem[t] <= b
    BY <1>5, <1>6, <1>10 DEF Spread
  <2>2. /\ Remaining(q)[t] = rem[t] - timers.Timer + q.Timer
        /\ Remaining(q)[u] = rem[u] - timers.Timer + q.Timer
    BY <1>5, <1>6, <1>9, <1>10
  <2>3. q.Timer \in Int
    BY <1>2, <1>5
  <2> HIDE DEF rem
  <2> QED
    BY <1>2, <1>3, <2>1, <2>2, <2>3
<1> QED
  BY <1>5, <1>8, <1>9, <1>10 DEF Spread, q

-----------------------------------------------------------------------------
(* How close COMPARE is while its deadline is stored as Never.  Outside of *)
(* WaitMode COUNT goes as VI comes nearer; within it Timer stands still,   *)
(* and idled says by how much COUNT has gone on.                           *)
FrozenNear(q, k, c, w, i, d) ==
    Frozen(q, CompareTimer) /\ ~q.endless =>
        IF w /\ q.Timer < 0
        THEN Ahead(k, c) + d + i >= Never - MaxOvershoot
        ELSE Ahead(k, c) + d >= Never + Remaining(q)[ViTimer]

NearAt(q, k, c, w, i, d) ==
    /\ Spread(q, ViTimer, TimerType, d)
    /\ Spread(q, AiTimer, TimerType, AiSpread)
    /\ FrozenNear(q, k, c, w, i, d)

(* The inductive invariant. *)
FarInv ==
    /\ TimersInv
    /\ EndsElsewhere(timers, compare, count)
    /\ timers.overtaken \subseteq {CompareTimer}
    /\ timers.overtaken = {} =>
          \E d \in ViDelays : NearAt(timers, compare, count, waitMode, idled, d)

(* COUNT goes on by n: COMPARE is n less ahead, until they meet. *)
LEMMA AheadTick ==
    ASSUME NEW k \in Word, NEW c \in Word, NEW n \in Nat, n <= Ahead(k, c)
    PROVE  Unsigned(c + n) \in Word /\ Ahead(k, Unsigned(c + n)) = Ahead(k, c) - n
BY HalfFacts DEF Ahead, Unsigned, Word

LEMMA AheadNat ==
    ASSUME NEW k \in Word, NEW c \in Word
    PROVE  Ahead(k, c) \in Nat /\ k \in Nat /\ c \in Nat
BY HalfFacts DEF Ahead, Unsigned, Word

LEMMA SettledNear ==
    ASSUME NEW q \in SystemTimers, q.Active[ViTimer],
           NEW k \in Word, NEW c \in Word, NEW d \in Nat, NEW w, NEW i \in Nat,
           Settled(q, k, c, d)
    PROVE  NearAt(q, k, c, w, i, d)
<1>1. ViTimer \in TimerType
  BY DEF TimerType
<1>2. Remaining(q)[ViTimer] \in Int /\ Remaining(q)[ViTimer] <= d
  BY <1>1, RemainingWord, HalfFacts DEF Settled, Spread, Int32
<1>3. Ahead(k, c) \in Nat
  BY NextCompareRange, HalfFacts DEF Word
<1>4. ASSUME Frozen(q, CompareTimer), ~q.endless
      PROVE  IF w /\ q.Timer < 0
             THEN Ahead(k, c) + d + i >= Never - MaxOvershoot
             ELSE Ahead(k, c) + d >= Never + Remaining(q)[ViTimer]
  <2>1. Ahead(k, c) >= Never
    BY <1>4 DEF Frozen, Settled
  <2> QED
    BY <1>2, <1>3, <2>1, HalfFacts
<1> QED
  BY <1>4 DEF NearAt, Settled, FrozenNear

(* An instruction, or a fetch that misses, comes no closer than that.      *)
LEMMA DownNear ==
    ASSUME NEW n \in {0, 2}, TimersInv, Sound, ~atJump,
           Down(n).Timer >= -MaxOvershoot, Down(n).overtaken = {},
           NEW d \in ViDelays,
           NearAt(timers, compare, count, waitMode, idled, d),
           NEW w \in BOOLEAN, waitMode => w,
           NEW i \in Nat, waitMode => i = idled + n
    PROVE  /\ NearAt(Down(n), compare, Unsigned(count + n), w, i, d)
           /\ Frozen(Down(n), CompareTimer) =>
                 Ahead(compare, Unsigned(count + n)) + d
                    >= Never - 2 * MaxOvershoot
<1> DEFINE q == Down(n)
           a == Ahead(compare, count)
           l == Remaining(timers)[ViTimer]
<1>1. /\ timers \in SystemTimers /\ Good(timers) /\ ~timers.endless
      /\ count \in Word /\ compare \in Word /\ waitMode \in BOOLEAN
      /\ idled \in Nat
      /\ waitMode => idled + 2 <= MaxRun
  BY HalfFacts DEF TimersInv, TypeOK, Sound
<1>2. ViTimer \in TimerType /\ ~Frozen(timers, ViTimer) /\ n \in 0 .. 2
  BY DEF TimerType, Frozen, ViTimer, CompareTimer
<1>3. d \in Nat /\ d + 2 * MaxOvershoot < Half /\ d <= Never /\ AiSpread \in Int
      /\ AiSpread <= Never
  BY HalfFacts DEF AiSpread
<1>4. /\ q.NextTimer = timers.NextTimer /\ q.Active = timers.Active
      /\ q.endless = timers.endless
      /\ q.Timer = IF waitMode THEN -1 - n ELSE timers.Timer - n
      /\ Remaining(q)[ViTimer] = l - timers.Timer + q.Timer
  BY <1>1, <1>2, DownRemaining DEF Good
<1>5. /\ Spread(q, ViTimer, TimerType, d)
      /\ Spread(q, AiTimer, TimerType, AiSpread)
  <2>1. TimerType \ q.overtaken = TimerType
    OBVIOUS
  <2>2. d \in Int
    BY <1>3
  <2> HIDE DEF q
  <2>3. Spread(Down(n), ViTimer, TimerType \ Down(n).overtaken, d)
    BY <1>2, <1>3, <2>2, DownSpread DEF NearAt
  <2>4. Spread(Down(n), AiTimer, TimerType \ Down(n).overtaken, AiSpread)
    BY <1>2, <1>3, DownSpread DEF NearAt
  <2> QED
    BY <2>1, <2>3, <2>4 DEF q
<1>6. l \in Int /\ l >= timers.Timer /\ a \in Nat
      /\ timers.Timer \in Int /\ q.Timer >= -MaxOvershoot
  <2>1. l \in Int
    BY <1>1, <1>2, RemainingWord, HalfFacts DEF Int32
  <2>2. l >= timers.Timer
    BY <1>1, <1>2 DEF Good, Remaining
  <2>3. timers.Timer \in Int
    BY <1>1, HalfFacts DEF SystemTimers, Int32
  <2> QED
    BY <1>1, <2>1, <2>2, <2>3, AheadNat
<1>9. /\ Half \in Int /\ MaxOvershoot \in Int /\ Never = Half - 1
      /\ MaxOvershoot >= 7 /\ d \in Int /\ d + 2 * MaxOvershoot < Half
      /\ d > MaxOvershoot /\ n \in Int /\ 0 <= n /\ n <= 2 /\ idled \in Int
      /\ i \in Int
  BY <1>1, <1>2, HalfFacts
<1> HIDE DEF q, l
<1>7. ASSUME Frozen(q, CompareTimer)
      PROVE  /\ IF w /\ q.Timer < 0
                THEN Ahead(compare, Unsigned(count + n)) + d + i
                        >= Never - MaxOvershoot
                ELSE Ahead(compare, Unsigned(count + n)) + d
                        >= Never + Remaining(q)[ViTimer]
             /\ Ahead(compare, Unsigned(count + n)) + d
                    >= Never - 2 * MaxOvershoot
  <2>1. Frozen(timers, CompareTimer)
    BY <1>4, <1>7 DEF Frozen
  <2>2. IF waitMode /\ timers.Timer < 0
        THEN a + d + idled >= Never - MaxOvershoot
        ELSE a + d >= Never + l
    BY <1>1, <2>1 DEF NearAt, FrozenNear, l
  <2> HIDE DEF a
  <2>3. CASE waitMode
    <3>1. a + d + idled >= Never - MaxOvershoot
      BY <1>9, <1>6, <2>2, <2>3
    <3>2. idled + 2 <= MaxOvershoot - 4
      BY <1>1, <2>3 DEF MaxRun
    <3>3. a >= n
      BY <1>9, <1>6, <3>1, <3>2
    <3>4. Ahead(compare, Unsigned(count + n)) = a - n
      BY <1>1, <1>2, <3>3, AheadTick DEF a
    <3>5. w /\ q.Timer < 0 /\ i = idled + n
      BY <1>2, <1>4, <2>3
    <3> QED
      BY <1>9, <1>6, <3>1, <3>2, <3>4, <3>5
  <2>4. CASE ~waitMode
    <3>1. a + d >= Never + l /\ q.Timer = timers.Timer - n
      BY <1>4, <2>2, <2>4
    <3>2. a >= n
      BY <1>9, <1>6, <3>1
    <3>3. Ahead(compare, Unsigned(count + n)) = a - n
      BY <1>1, <1>2, <3>2, AheadTick DEF a
    <3>4. Remaining(q)[ViTimer] = l - n /\ l - n >= q.Timer
      BY <1>2, <1>4, <1>6, <3>1
    <3> QED
      BY <1>9, <1>6, <3>1, <3>3, <3>4
  <2> QED
    BY <2>3, <2>4
<1> QED
  BY <1>5, <1>7 DEF NearAt, FrozenNear, q

(* The skip of InPermLoop: COUNT goes on by what Timer loses. *)
LEMMA SkipNear ==
    ASSUME NEW q \in SystemTimers, Good(q), q.Timer >= 0, q.overtaken = {},
           NEW k \in Word, NEW c \in Word, NEW i \in Nat, NEW d \in ViDelays,
           NearAt(q, k, c, FALSE, i, d)
    PROVE  NearAt([q EXCEPT !.Timer = -1], k, Unsigned(c + q.Timer + 1),
                  FALSE, i, d)
<1> DEFINE s == [q EXCEPT !.Timer = -1]
           skip == q.Timer + 1
           rem == Remaining(q)
<1>1. /\ q.Timer \in Nat /\ skip \in Nat
      /\ \A t \in TimerType : q.NextTimer[t] \in Int32 /\ rem[t] \in Int
  BY RemainingWord, HalfFacts DEF Int32, SystemTimers
<1>2. /\ s.NextTimer = q.NextTimer /\ s.Active = q.Active
      /\ s.Timer = -1 /\ s.endless = q.endless
  BY DEF SystemTimers
<1>3. \A t : Frozen(s, t) <=> Frozen(q, t)
  BY <1>2 DEF Frozen
<1> HIDE DEF s
<1>4. ASSUME NEW t \in TimerType, q.Active[t], ~Frozen(q, t)
      PROVE  Remaining(s)[t] = rem[t] - skip /\ rem[t] >= q.Timer
  <2> DEFINE x == q.NextTimer[t]
             o == q.Timer
  <2>1. o <= Signed(x + o) /\ Signed(x + o) < Never
    BY <1>4 DEF Good
  <2>2. x \in Int32 /\ o \in Nat /\ o < Never
    BY <1>1 DEF Good, InWindow
  <2>3. rem[t] = Signed(x + o) /\ Remaining(s)[t] = Signed(x + -1)
    BY <1>2, <1>3, <1>4 DEF Remaining
  <2> HIDE DEF x, o
  <2>4. Signed(x + -1) = Signed(x + o) - (o + 1)
    BY <2>1, <2>2, HalfFacts DEF Signed, Int32
  <2> QED
    BY <2>1, <2>3, <2>4 DEF o
<1>5. ASSUME NEW u \in {ViTimer, AiTimer}, NEW b \in Int,
             Spread(q, u, TimerType, b)
      PROVE  Spread(s, u, TimerType, b)
  <2>1. u \in TimerType /\ ~Frozen(q, u)
    BY DEF TimerType, Frozen, ViTimer, AiTimer, CompareTimer
  <2>2. ASSUME s.Active[u]
        PROVE  Remaining(s)[u] = rem[u] - skip /\ rem[u] <= b
    BY <1>2, <1>4, <1>5, <2>1, <2>2 DEF Spread
  <2>3. ASSUME s.Active[u], NEW t \in TimerType, s.Active[t], ~Frozen(s, t)
        PROVE  Remaining(s)[t] = rem[t] - skip /\ rem[u] - rem[t] <= b
    BY <1>2, <1>3, <1>4, <1>5, <2>3 DEF Spread
  <2> HIDE DEF rem, skip
  <2>4. ASSUME s.Active[u]
        PROVE  Remaining(s)[u] <= b
    BY <1>1, <2>1, <2>2, <2>4
  <2>5. ASSUME s.Active[u], NEW t \in TimerType, s.Active[t], ~Frozen(s, t)
        PROVE  Remaining(s)[u] - Remaining(s)[t] <= b
    BY <1>1, <2>1, <2>2, <2>3, <2>5
  <2> QED
    BY <2>4, <2>5 DEF Spread
<1>6. d \in Nat /\ d + 2 * MaxOvershoot < Half /\ AiSpread \in Int
  BY HalfFacts DEF AiSpread
<1>7. ViTimer \in TimerType /\ ~Frozen(q, ViTimer) /\ q.Active[ViTimer]
  BY DEF TimerType, Frozen, ViTimer, CompareTimer, Good
<1>8. ASSUME Frozen(s, CompareTimer), ~s.endless
      PROVE  Ahead(k, Unsigned(c + q.Timer + 1)) + d
                >= Never + Remaining(s)[ViTimer]
  <2>1. Ahead(k, c) + d >= Never + rem[ViTimer]
    BY <1>2, <1>3, <1>8 DEF NearAt, FrozenNear
  <2>2. Ahead(k, c) \in Nat /\ c \in Int
    BY AheadNat
  <2>3. /\ Remaining(s)[ViTimer] = rem[ViTimer] - skip
        /\ rem[ViTimer] >= q.Timer /\ rem[ViTimer] \in Int
    BY <1>1, <1>4, <1>7
  <2>4. skip <= Ahead(k, c)
    BY <1>1, <1>6, <2>1, <2>2, <2>3, HalfFacts
  <2>5. Ahead(k, Unsigned(c + skip)) = Ahead(k, c) - skip
    BY <1>1, <2>4, AheadTick
  <2>6. c + skip = c + q.Timer + 1
    BY <1>1, <2>2
  <2> HIDE DEF skip, rem
  <2> QED
    BY <1>1, <1>6, <2>1, <2>2, <2>3, <2>5, <2>6, HalfFacts
<1> QED
  BY <1>5, <1>6, <1>8 DEF NearAt, FrozenNear, s

-----------------------------------------------------------------------------
(* What a step leaves, for a period d of VI. *)
FarStep(q, k, c, w, i) ==
    /\ EndsElsewhere(q, k, c)
    /\ q.overtaken \subseteq {CompareTimer}
    /\ q.overtaken = {} => \E d \in ViDelays : NearAt(q, k, c, w, i, d)

(* The bounds for VI and AI suit what the program arms them with. *)
LEMMA DelayBounds ==
    /\ AiSpread \in Int /\ AiSpread <= Never /\ AiSpread > 0
    /\ \A e \in AiDelays :
          /\ e \in 1 .. Never /\ e # Never /\ e <= AiSpread
          /\ e + MaxOvershoot <= AiSpread
    /\ \A d \in ViDelays : d \in 1 .. Never /\ d # Never /\ d \in Nat /\ d <= Never
BY HalfFacts DEF AiSpread

LEMMA TimerNames ==
    /\ CompareTimer \in TimerType /\ ViTimer \in TimerType /\ AiTimer \in TimerType
    /\ TimerType = {CompareTimer, ViTimer, AiTimer}
    /\ ViTimer # CompareTimer /\ AiTimer # CompareTimer /\ AiTimer # ViTimer
BY DEF TimerType, CompareTimer, ViTimer, AiTimer

(* What CheckTimer has settled, once nothing is overtaken. *)
LEMMA SettledFar ==
    ASSUME NEW q \in SystemTimers, q.Active[ViTimer],
           NEW k \in Word, NEW c \in Word, NEW d \in ViDelays,
           NEW w, NEW i \in Nat, Settled(q, k, c, d),
           EndsElsewhere(q, k, c), q.overtaken = {}
    PROVE  FarStep(q, k, c, w, i)
<1>1. d \in Nat
  BY DelayBounds
<1>2. NearAt(q, k, c, w, i, d)
  BY <1>1, SettledNear
<1> QED
  BY <1>2 DEF FarStep

(* Moving to COMPARE or COUNT arms Compare anew, perhaps after it has been *)
(* overtaken in the same instruction.                                      *)
LEMMA ChangeCompareFar ==
    ASSUME NEW q \in SystemTimers, q.Active[ViTimer], ~q.endless,
           \A u \in TimerType \ {CompareTimer} : InRange(q, u),
           q.overtaken \subseteq {CompareTimer},
           NEW k \in Word, NEW c \in Word, NEW d \in ViDelays,
           Spread(q, ViTimer, TimerType \ {CompareTimer}, d),
           Spread(q, AiTimer, TimerType \ {CompareTimer}, AiSpread)
    PROVE  /\ Settled(ChangeCompareTimer(q, k, c), k, c, d)
           /\ EndsElsewhere(ChangeCompareTimer(q, k, c), k, c)
           /\ ChangeCompareTimer(q, k, c).overtaken = {}
<1> DEFINE v == NextCompare(k, c)
           z == ChangeCompareTimer(q, k, c)
<1>1. v \in 1 .. Never /\ z = ChangeTimer(q, CompareTimer, v, k, c)
  BY NextCompareRange DEF ChangeCompareTimer
<1>2. EndsElsewhere(q, k, c)
  BY DEF EndsElsewhere
<1>3. z.overtaken = {}
  BY ChangeCompareTimerGood
<1>4. d \in Int
  BY DelayBounds
<1> HIDE DEF v, z
<1>5. \A u \in {ViTimer, AiTimer} \ {CompareTimer} :
         Spread(q, u, TimerType \ {CompareTimer},
                IF u = ViTimer THEN d ELSE AiSpread)
  BY TimerNames
<1>6. Settled(z, k, c, d)
  BY <1>1, <1>4, <1>5, TimerNames, ChangeSettled
<1>7. \A u \in TimerType \ {CompareTimer, CompareTimer} : InRange(q, u)
  OBVIOUS
<1>8. EndsElsewhere(z, k, c)
  BY <1>1, <1>2, <1>7, TimerNames, ChangeEnds
<1> QED
  BY <1>3, <1>6, <1>8 DEF z

(* Queueing a buffer arms AI.  If Compare has been overtaken in the same   *)
(* instruction it stays so.                                                *)
LEMMA ChangeAiFar ==
    ASSUME NEW q \in SystemTimers, q.Active[ViTimer], ~q.endless,
           \A u \in TimerType \ q.overtaken : InRange(q, u),
           q.overtaken \subseteq {CompareTimer},
           NEW k \in Word, NEW c \in Word, NEW d \in ViDelays,
           NEW e \in AiDelays, NEW w, NEW i \in Nat,
           Spread(q, ViTimer, TimerType \ q.overtaken, d)
    PROVE  FarStep(ChangeTimer(q, AiTimer, e, k, c), k, c, w, i)
<1> DEFINE z == ChangeTimer(q, AiTimer, e, k, c)
           s == SetTimer(q, AiTimer, e)
<1>1. e \in 1 .. Never /\ e # Never /\ e \in Int32 /\ e # 0
      /\ e + MaxOvershoot <= AiSpread /\ e <= AiSpread
  BY DelayBounds, HalfFacts DEF Int32
<1>2. z = CheckTimer(s, k, c)
  BY <1>1 DEF ChangeTimer
<1>3. s \in SystemTimers /\ s.overtaken = q.overtaken \ {AiTimer}
  BY <1>1, TimerNames, SetTimerTyped
<1>4. z \in SystemTimers /\ z.overtaken = q.overtaken
  <2>1. q.overtaken \ {AiTimer} = q.overtaken
    BY TimerNames
  <2> HIDE DEF s, z
  <2> QED
    BY <1>2, <1>3, <2>1, CheckTimerTyped
<1>5. EndsElsewhere(z, k, c)
  <2>1. EndsElsewhere(q, k, c)
    BY DEF EndsElsewhere
  <2>2. \A u \in TimerType \ {AiTimer, CompareTimer} : InRange(q, u)
    OBVIOUS
  <2> QED
    BY <1>1, <2>1, <2>2, TimerNames, ChangeEnds
<1>6. ASSUME q.overtaken = {}
      PROVE  FarStep(z, k, c, w, i)
  <2>1. \A u \in TimerType \ {AiTimer} : InRange(q, u)
    BY <1>6
  <2>2. \A u \in {ViTimer, AiTimer} \ {AiTimer} :
           Spread(q, u, TimerType \ {AiTimer},
                  IF u = ViTimer THEN d ELSE AiSpread)
    BY <1>6, TimerNames DEF Spread
  <2>3. ASSUME NEW x \in TimerType \ {AiTimer}, q.Active[x], ~Frozen(q, x)
        PROVE  e - Remaining(q)[x] <= AiSpread
    <3>1. Remaining(q)[x] \in Int
      BY RemainingWord, HalfFacts DEF Int32
    <3>2. Remaining(q)[x] >= -MaxOvershoot
      BY <2>1, <2>3, HalfFacts DEF InRange, InWindow
    <3>3. e \in Int /\ MaxOvershoot \in Int /\ AiSpread \in Int
      BY <1>1, DelayBounds, HalfFacts
    <3> QED
      BY <1>1, <3>1, <3>2, <3>3
  <2>4. d \in Int /\ AiSpread \in Int
    BY DelayBounds
  <2>5. \E b \in Int :
           /\ b = IF AiTimer = ViTimer THEN d ELSE AiSpread
           /\ e <= b
           /\ \A x \in TimerType \ {AiTimer} : q.Active[x] /\ ~Frozen(q, x) =>
                 e - Remaining(q)[x] <= b
    BY <1>1, <2>3, <2>4, TimerNames
  <2>6. Settled(z, k, c, d)
    BY <1>1, <2>1, <2>2, <2>4, <2>5, TimerNames, ChangeSettled
  <2>7. Good(z)
    BY <1>1, <2>1, TimerNames, ChangeTimerGood
  <2> HIDE DEF z
  <2> QED
    BY <1>4, <1>5, <1>6, <2>6, <2>7, SettledFar DEF Good
<1> HIDE DEF z
<1>7. ASSUME q.overtaken # {}
      PROVE  FarStep(z, k, c, w, i)
  BY <1>4, <1>5, <1>7 DEF FarStep
<1> QED
  BY <1>6, <1>7 DEF z

(* A DMA checks the timers. *)
LEMMA CheckFar ==
    ASSUME NEW q \in SystemTimers, q.Active[ViTimer],
           \A u \in TimerType \ q.overtaken : InRange(q, u),
           q.overtaken \subseteq {CompareTimer},
           NEW k \in Word, NEW c \in Word, NEW d \in ViDelays,
           NEW w, NEW i \in Nat, EndsElsewhere(q, k, c),
           Spread(q, ViTimer, TimerType \ q.overtaken, d),
           Spread(q, AiTimer, TimerType \ q.overtaken, AiSpread)
    PROVE  FarStep(CheckTimer(q, k, c), k, c, w, i)
<1> DEFINE z == CheckTimer(q, k, c)
<1>1. z \in SystemTimers /\ z.overtaken = q.overtaken
  BY CheckTimerTyped
<1>2. EndsElsewhere(z, k, c)
  BY CheckEnds
<1>3. ASSUME q.overtaken = {}
      PROVE  FarStep(z, k, c, w, i)
  <2>1. Ready(q)
    BY <1>3 DEF Ready
  <2>2. d \in Int /\ AiSpread \in Int /\ TimerType \ q.overtaken = TimerType
    BY <1>3, DelayBounds
  <2>3. Settled(z, k, c, d)
    BY <2>1, <2>2, CheckSettled
  <2>4. Good(z)
    BY <2>1, CheckTimerGood
  <2> HIDE DEF z
  <2> QED
    BY <1>1, <1>2, <1>3, <2>3, <2>4, SettledFar DEF Good
<1> HIDE DEF z
<1>4. ASSUME q.overtaken # {}
      PROVE  FarStep(z, k, c, w, i)
  BY <1>1, <1>2, <1>4 DEF FarStep
<1> QED
  BY <1>3, <1>4 DEF z

-----------------------------------------------------------------------------
(* StartEmulationFromSave settles the timers. *)
LEMMA InitFar == Init => FarInv
<1> SUFFICES ASSUME Init PROVE FarInv
  OBVIOUS
<1>1. TimersInv /\ waitMode = FALSE /\ idled = 0
  BY InitInv DEF Init
<1>2. timers \in SystemTimers /\ count \in Word /\ compare \in Word
  BY <1>1 DEF TimersInv, TypeOK
<1>3. PICK vi \in ViDelays, ai \in AiDelays \cup {0} :
        timers = Loaded(vi, ai, compare, count)
  BY DEF Init
<1> DEFINE blank == Blank
           a == ChangeTimer(blank, ViTimer, vi, compare, count)
           b == ChangeCompareTimer(a, compare, count)
<1>4. timers = ChangeTimer(b, AiTimer, ai, compare, count)
  BY <1>3 DEF Loaded
<1>5. /\ blank \in SystemTimers
      /\ \A t \in TimerType : ~blank.Active[t] /\ InRange(blank, t)
      /\ ~blank.endless /\ blank.overtaken = {}
  <2>1. 0 \in Int32
    BY HalfFacts DEF Int32
  <2>2. blank \in SystemTimers
    BY <2>1 DEF Blank, SystemTimers
  <2>3. /\ \A t \in TimerType : ~blank.Active[t]
        /\ ~blank.endless /\ blank.overtaken = {}
    BY DEF Blank
  <2> QED
    BY <2>2, <2>3 DEF InRange
<1>6. vi \in 1 .. Never /\ vi # Never /\ vi \in Int
  BY DelayBounds
<1> HIDE DEF blank
<1>7. /\ a \in SystemTimers /\ Good(a) /\ a.overtaken = {}
      /\ ~a.Active[AiTimer]
  <2>1. /\ a \in SystemTimers /\ Good(a)
        /\ a.overtaken = blank.overtaken \ {ViTimer}
        /\ a.Active[AiTimer] = blank.Active[AiTimer]
    BY <1>2, <1>5, <1>6, TimerNames, ChangeTimerGood
  <2> QED
    BY <1>5, <2>1, TimerNames
<1>8. Settled(a, compare, count, vi)
  <2>1. \A u \in {ViTimer, AiTimer} \ {ViTimer} :
           Spread(blank, u, TimerType \ {ViTimer},
                  IF u = ViTimer THEN vi ELSE AiSpread)
    BY <1>5, TimerNames DEF Spread
  <2>2. \E d \in Int :
           /\ d = IF ViTimer = ViTimer THEN vi ELSE AiSpread
           /\ vi <= d
           /\ \A x \in TimerType \ {ViTimer} :
                 blank.Active[x] /\ ~Frozen(blank, x) =>
                    vi - Remaining(blank)[x] <= d
    BY <1>5, <1>6
  <2> QED
    BY <1>2, <1>5, <1>6, <2>1, <2>2, TimerNames, ChangeSettled
<1>9. EndsElsewhere(a, compare, count)
  <2>1. EndsElsewhere(blank, compare, count)
    BY <1>5 DEF EndsElsewhere
  <2> QED
    BY <1>2, <1>5, <1>6, <2>1, TimerNames, ChangeEnds
<1> HIDE DEF a
<1>10. Ready(a) /\ a.Active[ViTimer]
  BY <1>7, GoodReady DEF Ready
<1> DEFINE v == NextCompare(compare, count)
<1>11. v \in 1 .. Never /\ b = ChangeTimer(a, CompareTimer, v, compare, count)
  BY <1>2, NextCompareRange DEF ChangeCompareTimer
<1>12. /\ b \in SystemTimers /\ Good(b) /\ b.overtaken = {}
       /\ ~b.Active[AiTimer]
  <2>1. /\ b \in SystemTimers /\ Good(b)
        /\ b.overtaken = a.overtaken \ {CompareTimer}
        /\ b.Active[AiTimer] = a.Active[AiTimer]
    BY <1>2, <1>7, <1>10, ChangeCompareTimerGood DEF Ready
  <2> QED
    BY <1>7, <2>1
<1> HIDE DEF v, b
<1>13. Settled(b, compare, count, vi)
  <2>1. \A u \in {ViTimer, AiTimer} \ {CompareTimer} :
           Spread(a, u, TimerType \ {CompareTimer},
                  IF u = ViTimer THEN vi ELSE AiSpread)
    BY <1>8, TimerNames DEF Settled, Spread
  <2> QED
    BY <1>2, <1>6, <1>7, <1>10, <1>11, <2>1, TimerNames, ChangeSettled
    DEF Ready
<1>14. EndsElsewhere(b, compare, count)
  BY <1>2, <1>7, <1>9, <1>10, <1>11, TimerNames, ChangeEnds DEF Ready
<1>15. FarStep(timers, compare, count, waitMode, idled)
  <2>1. CASE ai = 0
    <3>1. timers = SetTimer(b, AiTimer, 0)
      BY <1>4, <2>1 DEF ChangeTimer
    <3>2. 0 \in Int32
      BY HalfFacts DEF Int32
    <3>3. /\ timers.NextTimer[CompareTimer] = b.NextTimer[CompareTimer]
          /\ timers.Active[ViTimer] = b.Active[ViTimer]
          /\ timers.endless = b.endless
          /\ timers.overtaken = b.overtaken \ {AiTimer}
      <4>1. /\ \A u \in TimerType \ {AiTimer} :
                  /\ SetTimer(b, AiTimer, 0).NextTimer[u] = b.NextTimer[u]
                  /\ SetTimer(b, AiTimer, 0).Active[u] = b.Active[u]
            /\ SetTimer(b, AiTimer, 0).endless = b.endless
            /\ SetTimer(b, AiTimer, 0).overtaken = b.overtaken \ {AiTimer}
        BY <1>12, <3>2, TimerNames, SetTimerTyped
      <4> QED
        BY <3>1, <4>1, TimerNames
    <3>4. /\ Spread(timers, ViTimer, TimerType, vi)
          /\ Spread(timers, AiTimer, TimerType, AiSpread)
      BY <1>6, <1>12, <1>13, <3>1, DelayBounds, SetOffSpread DEF Settled
    <3>5. Settled(timers, compare, count, vi)
      BY <1>13, <3>3, <3>4 DEF Settled
    <3>6. EndsElsewhere(timers, compare, count)
      BY <1>14, <3>3 DEF EndsElsewhere
    <3>7. timers.Active[ViTimer] /\ timers.overtaken = {} /\ idled \in Nat
      BY <1>1, <1>12, <3>3 DEF Good
    <3> QED
      BY <1>2, <3>5, <3>6, <3>7, SettledFar
  <2>2. CASE ai # 0
    <3>1. ai \in AiDelays
      BY <2>2
    <3>2. ai \in 1 .. Never /\ ai # Never /\ ai <= AiSpread
          /\ ai + MaxOvershoot <= AiSpread /\ ai \in Int
      BY <3>1, DelayBounds
    <3>3. Ready(b) /\ b.Active[ViTimer]
      BY <1>12, GoodReady DEF Ready
    <3>4. \A u \in {ViTimer, AiTimer} \ {AiTimer} :
             Spread(b, u, TimerType \ {AiTimer},
                    IF u = ViTimer THEN vi ELSE AiSpread)
      BY <1>13, TimerNames DEF Settled, Spread
    <3>5. ASSUME NEW x \in TimerType \ {AiTimer}, b.Active[x], ~Frozen(b, x)
          PROVE  ai - Remaining(b)[x] <= AiSpread
      <4>1. Remaining(b)[x] \in Int
        BY <1>12, RemainingWord, HalfFacts DEF Int32
      <4>2. Remaining(b)[x] >= -MaxOvershoot
        BY <3>3, <3>5, HalfFacts DEF Ready, InRange, InWindow
      <4>3. MaxOvershoot \in Int /\ AiSpread \in Int
        BY DelayBounds, HalfFacts
      <4> QED
        BY <3>2, <4>1, <4>2, <4>3
    <3>6. \E d \in Int :
             /\ d = IF AiTimer = ViTimer THEN vi ELSE AiSpread
             /\ ai <= d
             /\ \A x \in TimerType \ {AiTimer} : b.Active[x] /\ ~Frozen(b, x) =>
                   ai - Remaining(b)[x] <= d
      BY <3>2, <3>5, DelayBounds, TimerNames
    <3>7. Settled(timers, compare, count, vi)
      BY <1>2, <1>4, <1>6, <1>12, <3>2, <3>3, <3>4, <3>6, TimerNames,
         ChangeSettled DEF Ready
    <3>8. EndsElsewhere(timers, compare, count)
      BY <1>2, <1>4, <1>12, <1>14, <3>2, <3>3, TimerNames, ChangeEnds DEF Ready
    <3>9. Good(timers) /\ timers.overtaken = b.overtaken \ {AiTimer}
      BY <1>2, <1>4, <1>12, <3>2, <3>3, TimerNames, ChangeTimerGood DEF Ready
    <3> QED
      BY <1>1, <1>2, <1>12, <3>7, <3>8, <3>9, SettledFar DEF Good
  <2> QED
    BY <2>1, <2>2
<1> QED
  BY <1>1, <1>15 DEF FarInv, FarStep

(* Every instruction keeps the invariant. *)
LEMMA InstructionFar == FarInv /\ Instruction => FarInv'
<1> SUFFICES ASSUME FarInv, Instruction
             PROVE  FarInv'
  OBVIOUS
<1>1. Fetch /\ (RoomForMore \/ atJump')
  BY DEF Instruction, Plain, Break, MoveToCompare, MoveToCount, AiLenChanged,
         StartDma, InPermLoop
<1>2. TimersInv /\ TimersInv' /\ Sound /\ ~atJump
  BY <1>1, InstructionInv DEF FarInv, Fetch
<1>3. /\ count \in Word /\ compare \in Word /\ waitMode \in BOOLEAN
      /\ timers \in SystemTimers /\ ~timers.endless /\ timers.overtaken = {}
      /\ idled \in Nat
  BY <1>2, HalfFacts DEF TimersInv, TypeOK, Sound
<1>4. PICK d \in ViDelays :
        NearAt(timers, compare, count, waitMode, idled, d)
  BY <1>3 DEF FarInv
<1>5. idled' = IF waitMode THEN idled + 2 ELSE 0
  BY <1>1 DEF Fetch
<1>6. idled' \in Nat
  BY <1>3, <1>5
<1> DEFINE T == Ticked
<1>7. /\ T \in SystemTimers /\ T.Active[ViTimer] /\ ~T.endless
      /\ \A u \in TimerType \ T.overtaken : InRange(T, u)
      /\ T.overtaken = {} => Good(T)
      /\ T.Timer = IF waitMode THEN -3 ELSE timers.Timer - 2
      /\ ~waitMode => T.overtaken = {}
  <2>1. Down(2).Timer >= -MaxOvershoot
    BY <1>1 DEF Fetch, Ticked
  <2>2. 2 \in 0 .. 2
    OBVIOUS
  <2>3. /\ Down(2).endless = timers.endless
        /\ Down(2).Timer = IF waitMode THEN -1 - 2 ELSE timers.Timer - 2
        /\ ~waitMode => Down(2).overtaken = {}
    BY <1>2, <2>1, <2>2, DownRemaining
  <2>4. /\ Down(2) \in SystemTimers /\ Down(2).Active[ViTimer]
        /\ \A u \in TimerType \ Down(2).overtaken : InRange(Down(2), u)
        /\ Down(2).overtaken = {} => Good(Down(2))
    BY <1>2, <2>1, <2>2, DownGood
  <2> QED
    BY <1>3, <2>3, <2>4 DEF Ticked
<1>8. /\ Spread(T, ViTimer, TimerType \ T.overtaken, d)
      /\ Spread(T, AiTimer, TimerType \ T.overtaken, AiSpread)
      /\ T.overtaken \subseteq {CompareTimer}
  <2>1. Down(2).Timer >= -MaxOvershoot /\ 2 \in 0 .. 2
    BY <1>1 DEF Fetch, Ticked
  <2>2. d \in Int /\ d <= Never /\ AiSpread \in Int /\ AiSpread <= Never
    BY DelayBounds
  <2>3. /\ Spread(Down(2), ViTimer, TimerType \ Down(2).overtaken, d)
        /\ ViTimer \notin Down(2).overtaken
    BY <1>2, <1>4, <2>1, <2>2, DownSpread DEF NearAt
  <2>4. /\ Spread(Down(2), AiTimer, TimerType \ Down(2).overtaken, AiSpread)
        /\ AiTimer \notin Down(2).overtaken
    BY <1>2, <1>4, <2>1, <2>2, DownSpread DEF NearAt
  <2>5. Down(2).overtaken \in SUBSET TimerType
    BY <1>7 DEF SystemTimers, Ticked
  <2> QED
    BY <2>3, <2>4, <2>5, TimerNames DEF Ticked
<1>9. TickedCount \in Word
  BY <1>3, HalfFacts DEF TickedCount, Unsigned, Word
<1>10. ASSUME NEW w \in BOOLEAN, waitMode => w, T.overtaken = {}
       PROVE  NearAt(T, compare, TickedCount, w, idled', d)
  <2>1. Down(2).Timer >= -MaxOvershoot /\ Down(2).overtaken = {}
    BY <1>1, <1>10 DEF Fetch, Ticked
  <2> DEFINE i == idled'
  <2>2. i \in Nat /\ (waitMode => i = idled + 2)
    BY <1>5, <1>6
  <2> HIDE DEF i
  <2>3. NearAt(Down(2), compare, Unsigned(count + 2), w, i, d)
    BY <1>2, <1>4, <1>10, <2>1, <2>2, DownNear
  <2> QED
    BY <2>3 DEF Ticked, TickedCount, i
<1> HIDE DEF T
<1>11. ASSUME NEW w \in BOOLEAN, waitMode => w
       PROVE  FarStep(T, compare, TickedCount, w, idled')
  BY <1>7, <1>8, <1>10, <1>11 DEF FarStep, EndsElsewhere
<1>12. /\ \A u \in TimerType \ {CompareTimer} : InRange(T, u)
       /\ Spread(T, ViTimer, TimerType \ {CompareTimer}, d)
       /\ Spread(T, AiTimer, TimerType \ {CompareTimer}, AiSpread)
  BY <1>7, <1>8 DEF Spread
<1>13. ASSUME NEW k \in Word, NEW c \in Word,
              timers' = ChangeCompareTimer(T, k, c)
       PROVE  FarStep(timers', k, c, waitMode', idled')
  <2> DEFINE z == ChangeCompareTimer(T, k, c)
  <2>1. Settled(z, k, c, d) /\ EndsElsewhere(z, k, c) /\ z.overtaken = {}
    BY <1>7, <1>8, <1>12, ChangeCompareFar
  <2>2. z \in SystemTimers /\ z.Active[ViTimer]
    BY <1>7, <1>12, ChangeCompareTimerGood DEF Good
  <2> HIDE DEF z
  <2> DEFINE w == waitMode'
             i == idled'
  <2>3. i \in Nat
    BY <1>6
  <2> HIDE DEF w, i
  <2>4. FarStep(z, k, c, w, i)
    BY <2>1, <2>2, <2>3, SettledFar
  <2> QED
    BY <1>13, <2>4 DEF z, w, i
<1>14. FarStep(timers', compare', count', waitMode', idled')
  <2>1. CASE Plain
    BY <2>1, <1>3, <1>11 DEF Plain, T
  <2>2. CASE Break
    BY <2>2, <1>3, <1>11 DEF Break, T
  <2>3. CASE MoveToCompare
    <3>1. PICK v \in CompareWrites :
            /\ compare' = v
            /\ timers' = ChangeCompareTimer(T, v, TickedCount)
      BY <2>3 DEF MoveToCompare, T
    <3>2. v \in Word
      BY TimersAssumption
    <3> QED
      BY <2>3, <3>1, <3>2, <1>9, <1>13 DEF MoveToCompare
  <2>4. CASE MoveToCount
    <3>1. PICK v \in CountWrites :
            /\ count' = v
            /\ timers' = ChangeCompareTimer(T, compare, v)
      BY <2>4 DEF MoveToCount, T
    <3>2. v \in Word
      BY TimersAssumption
    <3> QED
      BY <2>4, <3>1, <3>2, <1>3, <1>13 DEF MoveToCount
  <2>5. CASE AiLenChanged
    <3>1. PICK e \in AiDelays :
            timers' = ChangeTimer(T, AiTimer, e, compare, TickedCount)
      BY <2>5 DEF AiLenChanged, T
    <3> DEFINE w == waitMode'
               i == idled'
    <3>2. i \in Nat
      BY <1>6
    <3> HIDE DEF w, i
    <3>3. FarStep(ChangeTimer(T, AiTimer, e, compare, TickedCount),
                  compare, TickedCount, w, i)
      BY <1>3, <1>7, <1>8, <1>9, <3>2, ChangeAiFar
    <3> QED
      BY <2>5, <3>1, <3>3 DEF AiLenChanged, w, i
  <2>6. CASE StartDma
    <3> DEFINE w == waitMode'
               i == idled'
    <3>1. i \in Nat
      BY <1>6
    <3>2. EndsElsewhere(T, compare, TickedCount)
      BY <1>7 DEF EndsElsewhere
    <3> HIDE DEF w, i
    <3>3. FarStep(CheckTimer(T, compare, TickedCount), compare, TickedCount, w, i)
      BY <1>3, <1>7, <1>8, <1>9, <3>1, <3>2, CheckFar
    <3> QED
      BY <2>6, <3>3 DEF StartDma, T, w, i
  <2>7. CASE InPermLoop
    <3>1. CASE T.Timer >= 0
      <4>1. /\ timers' = [T EXCEPT !.Timer = -1]
            /\ count' = Unsigned(TickedCount + T.Timer + 1)
            /\ compare' = compare /\ waitMode' = waitMode
        BY <2>7, <3>1 DEF InPermLoop, T
      <4>2. waitMode = FALSE
        BY <1>3, <1>7, <3>1
      <4> DEFINE i == idled'
                 s == [T EXCEPT !.Timer = -1]
      <4>3. NearAt(T, compare, TickedCount, FALSE, i, d) /\ i \in Nat
        BY <1>6, <1>7, <1>10, <4>2
      <4>4. s.endless = T.endless /\ s.overtaken = T.overtaken
        BY <1>7 DEF SystemTimers
      <4> HIDE DEF i
      <4>5. NearAt(s, compare, Unsigned(TickedCount + T.Timer + 1), FALSE, i, d)
        BY <1>3, <1>7, <1>9, <3>1, <4>2, <4>3, SkipNear
      <4> HIDE DEF s
      <4>6. FarStep(s, compare, Unsigned(TickedCount + T.Timer + 1), FALSE, i)
        BY <1>7, <1>8, <4>4, <4>5 DEF FarStep, EndsElsewhere
      <4> QED
        BY <4>1, <4>2, <4>6 DEF s, i
    <3>2. CASE ~(T.Timer >= 0)
      BY <2>7, <3>2, <1>3, <1>11 DEF InPermLoop, T
    <3> QED
      BY <3>1, <3>2
  <2> QED
    BY <2>1, <2>2, <2>3, <2>4, <2>5, <2>6, <2>7 DEF Instruction
<1> QED
  BY <1>2, <1>14 DEF FarInv, FarStep

(* So does serving the timer that has expired. *)
LEMMA PollFar == FarInv /\ Poll => FarInv'
<1> SUFFICES ASSUME FarInv, Poll
             PROVE  FarInv'
  OBVIOUS
<1>1. /\ Sound /\ idled' = 0 /\ count' = count /\ compare' = compare
      /\ TimersInv /\ TimersInv'
  BY PollInv
     DEF Poll, NotExpired, CompareDone, ViDone, AiDone, Expired, FarInv
<1>2. /\ count \in Word /\ compare \in Word /\ timers \in SystemTimers
      /\ ~timers.endless /\ timers.overtaken = {} /\ Good(timers)
  BY <1>1 DEF TimersInv, TypeOK, Sound
<1>3. Ready(timers) /\ timers.Active[ViTimer]
  BY <1>2, GoodReady DEF Ready
<1>4. PICK d \in ViDelays :
        NearAt(timers, compare, count, waitMode, idled, d)
  BY <1>2 DEF FarInv
<1>5. /\ Spread(timers, ViTimer, TimerType, d)
      /\ Spread(timers, AiTimer, TimerType, AiSpread)
      /\ EndsElsewhere(timers, compare, count)
  BY <1>2, <1>4 DEF NearAt, EndsElsewhere
<1>6. ASSUME NEW q \in SystemTimers, Ready(q), NEW p \in ViDelays,
             Spread(q, ViTimer, TimerType, p),
             Spread(q, AiTimer, TimerType, AiSpread),
             EndsElsewhere(q, compare, count), q.overtaken = {},
             timers' = CheckTimer(q, compare, count)
      PROVE  FarStep(timers', compare, count, waitMode', idled')
  <2> DEFINE w == waitMode'
             i == idled'
  <2>1. i \in Nat
    BY <1>1
  <2> HIDE DEF w, i
  <2>2. /\ Spread(q, ViTimer, TimerType \ q.overtaken, p)
        /\ Spread(q, AiTimer, TimerType \ q.overtaken, AiSpread)
        /\ \A u \in TimerType \ q.overtaken : InRange(q, u)
        /\ q.overtaken \subseteq {CompareTimer} /\ q.Active[ViTimer]
    BY <1>6 DEF Ready, Spread
  <2>3. FarStep(CheckTimer(q, compare, count), compare, count, w, i)
    BY <1>2, <1>6, <2>1, <2>2, CheckFar
  <2> QED
    BY <1>6, <2>3 DEF w, i
<1>7. FarStep(timers', compare, count, waitMode', idled')
  <2>1. CASE NotExpired
    <3>1. timers' = timers /\ waitMode' = waitMode /\ ~(timers.Timer < 0)
      <4>1. timers.Timer \in Int
        BY <1>2, HalfFacts DEF SystemTimers, Int32
      <4> QED
        BY <2>1, <4>1 DEF NotExpired
    <3>2. NearAt(timers, compare, count, waitMode, 0, d)
      BY <1>4, <3>1 DEF NearAt, FrozenNear
    <3>3. FarStep(timers, compare, count, waitMode, 0)
      BY <1>2, <1>5, <3>2 DEF FarStep
    <3> QED
      BY <1>1, <3>1, <3>3
  <2>2. CASE CompareDone
    <3> DEFINE q == ChangeCompareTimer(timers, compare, count)
    <3>1. /\ q \in SystemTimers /\ Good(q)
      BY <1>2, <1>3, ChangeCompareTimerGood DEF Ready
    <3>2. /\ Settled(q, compare, count, d)
          /\ EndsElsewhere(q, compare, count) /\ q.overtaken = {}
      <4>1. /\ Spread(timers, ViTimer, TimerType \ {CompareTimer}, d)
            /\ Spread(timers, AiTimer, TimerType \ {CompareTimer}, AiSpread)
            /\ \A u \in TimerType \ {CompareTimer} : InRange(timers, u)
        BY <1>3, <1>5 DEF Ready, Spread
      <4> QED
        BY <1>2, <1>3, <4>1, ChangeCompareFar
    <3>3. timers' = CheckTimer(q, compare, count)
      BY <2>2 DEF CompareDone
    <3> HIDE DEF q
    <3> QED
      BY <1>6, <3>1, <3>2, <3>3, GoodReady DEF Settled
  <2>3. CASE ViDone
    <3>1. PICK period \in ViDelays :
            timers' = CheckTimer(
                          ChangeTimer(timers, ViTimer,
                              Signed(Signed(timers.Timer
                                            + timers.NextTimer[ViTimer])
                                     + period), compare, count),
                          compare, count)
      BY <2>3 DEF ViDone
    <3> DEFINE due == Signed(Signed(timers.Timer + timers.NextTimer[ViTimer])
                             + period)
               o == timers.Timer
               q == ChangeTimer(timers, ViTimer, due, compare, count)
    <3>2. o \in Int /\ o >= -MaxOvershoot /\ o < 0 /\ due = o + period
          /\ due \in 1 .. Never /\ due # Never /\ period \in Int /\ due <= period
      <4>1. timers.NextTimer[ViTimer] = 0 /\ timers.Timer < 0
        BY <2>3, <1>2 DEF ViDone, Expired, Good
      <4>2. timers.Timer \in Int /\ timers.Timer >= -MaxOvershoot
        BY <1>2, HalfFacts DEF SystemTimers, Int32, Good, InWindow
      <4>3. period \in Nat /\ period > MaxOvershoot
            /\ period + 2 * MaxOvershoot < Half
        BY HalfFacts
      <4>4. due = Signed(Signed(o + 0) + period)
        BY <4>1
      <4>5. o \in Int /\ o >= -MaxOvershoot /\ o < 0
        BY <4>1, <4>2
      <4> HIDE DEF o, due
      <4>6. Signed(Signed(o + 0) + period) = o + period
        BY <4>3, <4>5, HalfFacts DEF Signed
      <4> QED
        BY <4>3, <4>4, <4>5, <4>6, HalfFacts
    <3>3. timers' = CheckTimer(q, compare, count)
      BY <3>1
    <3>4. ASSUME NEW x \in TimerType \ {ViTimer}, timers.Active[x],
                 ~Frozen(timers, x)
          PROVE  due - Remaining(timers)[x] <= period
      <4>1. Remaining(timers)[x] \in Int
        BY <1>2, RemainingWord, HalfFacts DEF Int32
      <4>2. Remaining(timers)[x] >= o
        BY <1>2, <3>4 DEF Good, Remaining
      <4> HIDE DEF o, due
      <4> QED
        BY <3>2, <4>1, <4>2
    <3> HIDE DEF due, o
    <3>5. /\ q \in SystemTimers /\ Good(q)
          /\ q.overtaken = timers.overtaken \ {ViTimer}
      BY <1>2, <1>3, <3>2, TimerNames, ChangeTimerGood DEF Ready
    <3>6. Settled(q, compare, count, period)
      <4>1. \A u \in {ViTimer, AiTimer} \ {ViTimer} :
               Spread(timers, u, TimerType \ {ViTimer},
                      IF u = ViTimer THEN period ELSE AiSpread)
        BY <1>5, TimerNames DEF Spread
      <4>2. \E b \in Int :
               /\ b = IF ViTimer = ViTimer THEN period ELSE AiSpread
               /\ due <= b
               /\ \A x \in TimerType \ {ViTimer} :
                     timers.Active[x] /\ ~Frozen(timers, x) =>
                        due - Remaining(timers)[x] <= b
        BY <3>2, <3>4
      <4> QED
        BY <1>2, <1>3, <3>2, <4>1, <4>2, TimerNames, ChangeSettled DEF Ready
    <3>7. EndsElsewhere(q, compare, count)
      BY <1>2, <1>3, <1>5, <3>2, TimerNames, ChangeEnds DEF Ready
    <3>8. q.overtaken = {}
      BY <1>2, <3>5
    <3> HIDE DEF q
    <3> QED
      BY <1>6, <3>3, <3>5, <3>6, <3>7, <3>8, GoodReady DEF Settled
  <2>4. CASE AiDone
    <3> DEFINE q == SetTimer(timers, AiTimer, 0)
    <3>1. timers' = CheckTimer(q, compare, count)
      BY <2>4 DEF AiDone, ChangeTimer
    <3>2. q \in SystemTimers /\ Ready(q)
      BY <1>2, <1>3, TimerNames, SetTimerOffReady
    <3>3. 0 \in Int32 /\ d \in Int /\ AiSpread \in Int
      BY DelayBounds, HalfFacts DEF Int32
    <3>4. q.endless = timers.endless /\ q.overtaken = timers.overtaken \ {AiTimer}
      BY <1>2, <3>3, TimerNames, SetTimerTyped
    <3>5. /\ Spread(q, ViTimer, TimerType, d)
          /\ Spread(q, AiTimer, TimerType, AiSpread)
      BY <1>2, <1>5, <3>3, SetOffSpread
    <3>6. q.overtaken = {} /\ EndsElsewhere(q, compare, count)
      BY <1>2, <3>4 DEF EndsElsewhere
    <3> HIDE DEF q
    <3> QED
      BY <1>6, <3>1, <3>2, <3>5, <3>6
  <2> QED
    BY <2>1, <2>2, <2>3, <2>4 DEF Poll
<1> QED
  BY <1>1, <1>7 DEF FarInv, FarStep

(* A fetch that misses moves deadlines in WaitMode only, and not COUNT. *)
LEMMA FetchMissFar == FarInv /\ FetchMiss => FarInv'
<1> SUFFICES ASSUME FarInv, FetchMiss
             PROVE  FarInv'
  OBVIOUS
<1>1. /\ TimersInv /\ TimersInv' /\ Sound /\ ~atJump /\ timers' = Down(0)
      /\ count' = count /\ compare' = compare
      /\ waitMode' = waitMode /\ idled' = idled
  BY FetchMissInv DEF FarInv, FetchMiss
<1>2. /\ count \in Word /\ compare \in Word /\ waitMode \in BOOLEAN
      /\ timers \in SystemTimers /\ ~timers.endless /\ timers.overtaken = {}
      /\ idled \in Nat /\ Good(timers)
  BY <1>1, HalfFacts DEF TimersInv, TypeOK, Sound
<1>3. PICK d \in ViDelays :
        NearAt(timers, compare, count, waitMode, idled, d)
  BY <1>2 DEF FarInv
<1>4. Down(0).Timer >= -MaxOvershoot
  <2>1. Down(0).Timer = IF waitMode THEN -1 ELSE timers.Timer
    BY <1>2, HalfFacts DEF Down, SystemTimers, Int32
  <2> QED
    BY <1>2, <2>1, HalfFacts DEF Good, InWindow
<1>5. /\ d \in Int /\ d <= Never /\ AiSpread \in Int /\ AiSpread <= Never
      /\ 0 \in 0 .. 2
  BY DelayBounds
<1>6. Down(0).overtaken \subseteq {CompareTimer} /\ ~Down(0).endless
  <2>1. ViTimer \notin Down(0).overtaken
    BY <1>1, <1>3, <1>4, <1>5, DownSpread DEF NearAt
  <2>2. AiTimer \notin Down(0).overtaken
    BY <1>1, <1>3, <1>4, <1>5, DownSpread DEF NearAt
  <2>3. Down(0) \in SystemTimers
    BY <1>1, <1>4, <1>5, DownGood
  <2>4. Down(0).endless = timers.endless
    BY <1>1, <1>4, <1>5, DownRemaining
  <2> QED
    BY <1>2, <2>1, <2>2, <2>3, <2>4, TimerNames DEF SystemTimers
<1>7. Unsigned(count + 0) = count
  BY <1>2, HalfFacts DEF Unsigned, Word
<1>8. ASSUME Down(0).overtaken = {}
      PROVE  NearAt(Down(0), compare, count, waitMode, idled, d)
  <2>1. idled = idled + 0
    BY <1>2
  <2>2. NearAt(Down(0), compare, Unsigned(count + 0), waitMode, idled, d)
    BY <1>1, <1>2, <1>3, <1>4, <1>8, <2>1, DownNear
  <2> QED
    BY <1>7, <2>2
<1>9. FarStep(Down(0), compare, count, waitMode, idled)
  BY <1>6, <1>8 DEF FarStep, EndsElsewhere
<1> QED
  BY <1>1, <1>9 DEF FarInv, FarStep

LEMMA NextFar == FarInv /\ [Next]_vars => FarInv'
<1> SUFFICES ASSUME FarInv, [Next]_vars
             PROVE  FarInv'
  OBVIOUS
<1>1. CASE Instruction
  BY <1>1, InstructionFar
<1>2. CASE Poll
  BY <1>2, PollFar
<1>3. CASE FetchMiss
  BY <1>3, FetchMissFar
<1>4. CASE Halted \/ UNCHANGED vars
  <2>1. /\ count' = count /\ compare' = compare /\ timers' = timers
        /\ waitMode' = waitMode /\ idled' = idled
    BY <1>4 DEF Halted, vars
  <2>2. TimersInv'
    BY <1>4, NextInv DEF FarInv, Halted
  <2> QED
    BY <2>1, <2>2 DEF FarInv
<1> QED
  BY <1>1, <1>2, <1>3, <1>4 DEF Next

(* For every word size and all delays far below half a turn, a Compare     *)
(* deadline stored as Never (cpu.c, CheckTimer) is looked at again before  *)
(* a VI period, a late poll and what BREAK idles have gone by.             *)
THEOREM FrozenIsFar == Spec => []FrozenCompareIsFar
<1>1. FarInv => FrozenCompareIsFar
  <2> SUFFICES ASSUME FarInv, Frozen(timers, CompareTimer), Sound
               PROVE  \E d \in ViDelays :
                         Ahead(compare, count) + d + MaxOvershoot + idled
                            >= Never
    BY DEF FrozenCompareIsFar
  <2>1. /\ timers \in SystemTimers /\ ~timers.endless /\ timers.overtaken = {}
        /\ count \in Word /\ compare \in Word /\ idled \in Nat /\ Good(timers)
    BY HalfFacts DEF FarInv, TimersInv, TypeOK, Sound
  <2>2. PICK d \in ViDelays :
          NearAt(timers, compare, count, waitMode, idled, d)
    BY <2>1 DEF FarInv
  <2> DEFINE l == Remaining(timers)[ViTimer]
  <2>3. IF waitMode /\ timers.Timer < 0
        THEN Ahead(compare, count) + d + idled >= Never - MaxOvershoot
        ELSE Ahead(compare, count) + d >= Never + l
    BY <2>1, <2>2 DEF NearAt, FrozenNear
  <2>4. l \in Int /\ l >= timers.Timer
    BY <2>1, TimerNames, RemainingWord, HalfFacts
    DEF Good, Remaining, Frozen, Int32
  <2>5. /\ timers.Timer \in Int /\ timers.Timer >= -MaxOvershoot
        /\ d \in Int /\ Ahead(compare, count) \in Nat
    BY <2>1, DelayBounds, AheadNat, HalfFacts
    DEF Good, InWindow, SystemTimers, Int32
  <2> HIDE DEF l
  <2>6. Ahead(compare, count) + d + MaxOvershoot + idled >= Never
    BY <2>1, <2>3, <2>4, <2>5, HalfFacts
  <2> QED
    BY <2>6
<1> QED
  BY <1>1, InitFar, NextFar, PTL DEF Spec

(* For every word size and all delays far below half a turn: CheckTimer    *)
(* and ChangeCompareTimer call each other for ever only while COMPARE is   *)
(* half a turn ahead, and WaitMode never moves the deadline of VI or AI    *)
(* out of reach.                                                           *)
THEOREM AstrayAtHalfTurn == Spec => []AstrayOnlyAtHalfTurn
<1>1. FarInv => AstrayOnlyAtHalfTurn
  BY DEF FarInv, AstrayOnlyAtHalfTurn, EndsElsewhere
<1> QED
  BY <1>1, InitFar, NextFar, PTL DEF Spec

-----------------------------------------------------------------------------
(* III. The refinement of Deadlines, and the drift of Compare.             *)

(* Armed, for a value of *Timers. *)
ArmedIn(q) == {t \in TimerType : q.Active[t] /\ ~Frozen(q, t)}

(* From a to b, u counts on through d, or it is Compare and may be set.    *)
KeptFrom(a, b, u, d) ==
    /\ u \in ArmedIn(a) <=> u \in ArmedIn(b)
    /\ u \in ArmedIn(a) => Remaining(b)[u] = Remaining(a)[u] - d

(* Compare, where it is armed, is ahead of COUNT and within half a turn.   *)
CompareSet(b) ==
    CompareTimer \in ArmedIn(b) => Remaining(b)[CompareTimer] \in 1 .. Never - 1

FollowsFrom(a, b, u) ==
    /\ u = CompareTimer
    /\ u \in ArmedIn(a) => Remaining(a)[u] >= Never - MaxOvershoot
    /\ CompareSet(b)

SetsFrom(a, b, t, d) ==
    \A u \in TimerType \ {t} : KeptFrom(a, b, u, d) \/ FollowsFrom(a, b, u)

(* t has been set to v, or is Compare and follows its register. *)
SetTo(b, t, v) ==
    IF t = CompareTimer THEN CompareSet(b)
    ELSE t \in ArmedIn(b) /\ Remaining(b)[t] = v

(* No deadline is due before f. *)
Floor(q, f) == \A x \in ArmedIn(q) : Remaining(q)[x] >= f

-----------------------------------------------------------------------------
LEMMA RemainingInt ==
    ASSUME NEW q \in SystemTimers, NEW t \in TimerType
    PROVE  Remaining(q)[t] \in Int
BY RemainingWord, HalfFacts DEF Int32

(* Re-basing keeps every deadline, but for Compare's when its distance     *)
(* from one that is past comes out as Never.                               *)
LEMMA RebaseArmed ==
    ASSUME NEW q \in SystemTimers, Ready(q), NEW u \in TimerType,
           NEW f \in Int, f <= 0, Floor(q, f)
    PROVE  \/ KeptFrom(q, Rebase(q), u, 0)
           \/ /\ u = CompareTimer /\ u \notin ArmedIn(Rebase(q))
              /\ u \in ArmedIn(q) => Remaining(q)[u] >= Never + f
<1> DEFINE r == Remaining(q)
           p == Rebase(q)
           b == p.Timer
<1>1. p \in SystemTimers /\ Good(p) /\ p.Active = q.Active
  BY RebaseTyped, RebaseGood
<1>2. ASSUME u \in ArmedIn(p)
      PROVE  u \in ArmedIn(q) /\ Remaining(p)[u] = r[u] - 0
  <2>1. u \in ArmedIn(q) /\ Remaining(p)[u] = r[u]
    BY <1>2, RebaseKeeps DEF ArmedIn
  <2>2. r[u] \in Int
    BY RemainingInt
  <2> HIDE DEF r, p
  <2> QED
    BY <2>1, <2>2
<1>3. ASSUME u \in ArmedIn(q), u \notin ArmedIn(p)
      PROVE  u = CompareTimer /\ r[u] >= Never + f
  <2>1. u = CompareTimer /\ q.Active[u] /\ p.NextTimer[u] = Never
    BY <1>1, <1>3 DEF ArmedIn, Frozen
  <2>2. p.NextTimer[u] = IF ~(u = CompareTimer /\ r[u] = Never)
                         THEN Signed(r[u] - b) ELSE r[u]
    BY <2>1 DEF Rebase
  <2>3. r[u] \in Int /\ (InWindow(r[u]) \/ r[u] = Never)
    BY <1>3, RemainingInt DEF Ready, InRange, ArmedIn
  <2>4. b \in Int /\ InWindow(b)
    BY <1>1, HalfFacts DEF Good, SystemTimers, Int32
  <2>5. b >= f
    <3> DEFINE cur == p.CurrentTimerType
    <3>1. cur \in TimerType /\ p.Active[cur] /\ p.NextTimer[cur] = 0
          /\ Never # 0
      BY <1>1, HalfFacts DEF Good
    <3>2. ~Frozen(p, cur)
      BY <3>1 DEF Frozen
    <3>3. Remaining(p)[cur] = Signed(0 + b)
      BY <3>1, <3>2 DEF Remaining
    <3>4. Signed(0 + b) = b
      BY <2>4, HalfFacts DEF Signed, InWindow
    <3>5. cur \in ArmedIn(q) /\ Remaining(p)[cur] = r[cur]
      BY <3>1, <3>2, RebaseKeeps DEF ArmedIn
    <3> QED
      BY <3>3, <3>4, <3>5 DEF Floor
  <2>8. r[u] # Never => b <= r[u]
    <3> SUFFICES ASSUME r[u] # Never PROVE b <= r[u]
      OBVIOUS
    <3>1. u \in Candidates(q)
      BY <2>1, <2>3 DEF Candidates, InWindow
    <3>2. b = r[Earliest(q)]
      BY <3>1, EarliestChosen, TimerNames
      DEF Rebase, Candidates, TimerType, NoTimer, CompareTimer, ViTimer, AiTimer
    <3> QED
      BY <3>1, <3>2, EarliestChosen
  <2> HIDE DEF r, b
  <2>6. CASE r[u] = Never
    <3>1. Never >= Never + f
      BY HalfFacts
    <3> QED
      BY <2>1, <2>6, <3>1
  <2>7. CASE r[u] # Never
    <3>1. Signed(r[u] - b) = Never /\ InWindow(r[u]) /\ r[u] \in Int
      BY <2>1, <2>2, <2>3, <2>7
    <3>2. r[u] - b = Never
      BY <2>4, <2>7, <2>8, <3>1, HalfFacts DEF Signed, InWindow
    <3> QED
      BY <2>1, <2>4, <2>5, <3>1, <3>2, HalfFacts
  <2> QED
    BY <2>6, <2>7
<1> QED
  BY <1>2, <1>3 DEF KeptFrom

(* So does CheckTimer: Compare is kept, or it may be set anew, and where   *)
(* it is, it is on COUNT or one count later.                               *)
LEMMA CheckArmed ==
    ASSUME NEW q \in SystemTimers, Ready(q), NEW u \in TimerType,
           NEW f \in Int, f <= 0, Floor(q, f),
           NEW k \in Word, NEW c \in Word
    PROVE  \/ KeptFrom(q, CheckTimer(q, k, c), u, 0)
           \/ /\ u = CompareTimer
              /\ u \in ArmedIn(q) => Remaining(q)[u] >= Never + f
              /\ u \in ArmedIn(CheckTimer(q, k, c)) =>
                    /\ Remaining(CheckTimer(q, k, c))[u] = NextCompare(k, c)
                    /\ NextCompare(k, c) # Never
<1> DEFINE p == Rebase(q)
           v == NextCompare(k, c)
           s == SetTimer(p, CompareTimer, v)
           revived == Rebase(s)
           z == CheckTimer(q, k, c)
<1>1. p \in SystemTimers /\ Good(p)
  BY RebaseTyped, RebaseGood
<1>2. z = IF ~Revives(p, k, c) THEN p
          ELSE [revived EXCEPT !.endless = @ \/ Revives(revived, k, c),
                               !.overtaken = p.overtaken]
  BY DEF CheckTimer
<1>3. \/ KeptFrom(q, p, u, 0)
      \/ /\ u = CompareTimer /\ u \notin ArmedIn(p)
         /\ u \in ArmedIn(q) => Remaining(q)[u] >= Never + f
  BY RebaseArmed
<1> HIDE DEF p, z
<1>4. CASE ~Revives(p, k, c)
  BY <1>2, <1>3, <1>4 DEF z
<1>5. CASE Revives(p, k, c)
  <2>1. v \in 1 .. Never /\ v # Never
    BY <1>5, NextCompareRange, HalfFacts DEF Revives
  <2>2. Ready(p)
    BY <1>1, GoodReady
  <2> HIDE DEF v
  <2>3. s \in SystemTimers /\ Ready(s)
    BY <1>1, <2>1, <2>2, TimerNames, SetTimerReady DEF Ready
  <2>4. /\ s.Active[CompareTimer]
        /\ ~Frozen(s, CompareTimer) => Remaining(s)[CompareTimer] = v
        /\ \A x \in TimerType \ {CompareTimer} :
              /\ s.Active[x] = p.Active[x]
              /\ Frozen(s, x) <=> Frozen(p, x)
              /\ Remaining(s)[x] = Remaining(p)[x]
    BY <1>1, <2>1, TimerNames, SetTimerRemaining
  <2> HIDE DEF s
  <2>5. revived \in SystemTimers /\ revived.Active = s.Active
    BY <2>3, RebaseTyped
  <2>6. \A x \in ArmedIn(revived) :
           x \in ArmedIn(s) /\ Remaining(revived)[x] = Remaining(s)[x]
    BY <2>3, RebaseKeeps DEF ArmedIn
  <2> HIDE DEF revived
  <2>7. /\ z.NextTimer = revived.NextTimer /\ z.Active = revived.Active
        /\ z.Timer = revived.Timer
    BY <1>2, <1>5, <2>5 DEF SystemTimers
  <2>8. \A t : Frozen(z, t) <=> Frozen(revived, t)
    BY <2>7 DEF Frozen
  <2>9. Remaining(z) = Remaining(revived) /\ ArmedIn(z) = ArmedIn(revived)
    BY <2>7, <2>8 DEF Remaining, ArmedIn
  <2>10. CompareTimer \notin ArmedIn(p)
    BY <1>5 DEF Revives, ArmedIn, Frozen
  <2>11. CASE u = CompareTimer
    <3>1. u \in ArmedIn(q) => Remaining(q)[u] >= Never + f
      BY <1>3, <2>10, <2>11 DEF KeptFrom
    <3>2. u \in ArmedIn(z) => Remaining(z)[u] = v /\ v # Never
      BY <2>1, <2>4, <2>6, <2>9, <2>11 DEF ArmedIn
    <3> QED
      BY <2>11, <3>1, <3>2 DEF z, v
  <2>12. CASE u # CompareTimer
    <3>1. KeptFrom(q, p, u, 0)
      BY <1>3, <2>12
    <3>2. u \in ArmedIn(z) <=> u \in ArmedIn(p)
      <4>1. Frozen(z, u) = FALSE /\ Frozen(p, u) = FALSE /\ Frozen(s, u) = FALSE
        BY <2>12 DEF Frozen
      <4> QED
        BY <2>4, <2>5, <2>7, <2>12, <4>1 DEF ArmedIn
    <3>3. u \in ArmedIn(z) => Remaining(z)[u] = Remaining(p)[u]
      BY <2>4, <2>6, <2>9, <2>12
    <3> QED
      BY <3>1, <3>2, <3>3 DEF KeptFrom, z
  <2> QED
    BY <2>11, <2>12
<1> QED
  BY <1>4, <1>5

(* CheckTimer makes no deadline earlier than those there were, or now. *)
LEMMA CheckFloor ==
    ASSUME NEW q \in SystemTimers, Ready(q),
           NEW f \in Int, f <= 0, Floor(q, f),
           NEW k \in Word, NEW c \in Word
    PROVE  Floor(CheckTimer(q, k, c), f)
<1> DEFINE z == CheckTimer(q, k, c)
<1> SUFFICES ASSUME NEW x \in ArmedIn(z)
             PROVE  Remaining(z)[x] >= f
  BY DEF Floor
<1>1. x \in TimerType
  BY DEF ArmedIn
<1>2. CASE KeptFrom(q, z, x, 0)
  <2>1. x \in ArmedIn(q) /\ Remaining(z)[x] = Remaining(q)[x] - 0
    BY <1>2 DEF KeptFrom
  <2>2. Remaining(q)[x] \in Int
    BY <1>1, RemainingInt
  <2> HIDE DEF z
  <2> QED
    BY <2>1, <2>2 DEF Floor
<1>3. CASE ~KeptFrom(q, z, x, 0)
  <2>1. Remaining(z)[x] = NextCompare(k, c)
    BY <1>1, <1>3, CheckArmed
  <2>2. NextCompare(k, c) \in Int /\ NextCompare(k, c) >= 1
    BY NextCompareRange, HalfFacts
  <2> HIDE DEF z
  <2> QED
    BY <2>1, <2>2
<1> QED
  BY <1>2, <1>3

(* What has been set just before a CheckTimer, to at most half a turn for  *)
(* Compare, is still set after it.                                         *)
LEMMA CheckSetTo ==
    ASSUME NEW q \in SystemTimers, Ready(q),
           NEW f \in Int, f <= 0, Floor(q, f),
           NEW k \in Word, NEW c \in Word, NEW t \in TimerType, NEW v \in Int,
           IF t = CompareTimer
           THEN t \in ArmedIn(q) => Remaining(q)[t] \in 1 .. Never
           ELSE t \in ArmedIn(q) /\ Remaining(q)[t] = v
    PROVE  SetTo(CheckTimer(q, k, c), t, v)
<1> DEFINE z == CheckTimer(q, k, c)
<1>1. z \in SystemTimers /\ Good(z)
  BY CheckTimerGood
<1>2. \/ KeptFrom(q, z, t, 0)
      \/ /\ t = CompareTimer
         /\ t \in ArmedIn(z) =>
              Remaining(z)[t] = NextCompare(k, c) /\ NextCompare(k, c) # Never
  BY CheckArmed
<1>3. NextCompare(k, c) \in 1 .. Never
  BY NextCompareRange
<1>4. t \in ArmedIn(z) => Remaining(z)[t] < Never
  BY <1>1 DEF Good, ArmedIn, Remaining
<1>5. Remaining(q)[t] \in Int /\ Never \in Int
  BY RemainingInt, HalfFacts
<1> HIDE DEF z
<1>6. CASE t # CompareTimer
  BY <1>2, <1>5, <1>6 DEF SetTo, KeptFrom, z
<1>7. CASE t = CompareTimer
  <2> SUFFICES ASSUME t \in ArmedIn(z)
               PROVE  Remaining(z)[t] \in 1 .. Never - 1
    BY <1>7 DEF SetTo, CompareSet, z
  <2>1. Remaining(z)[t] \in 1 .. Never
    BY <1>2, <1>3, <1>5, <1>7 DEF KeptFrom
  <2> QED
    BY <1>4, <1>5, <2>1
<1> QED
  BY <1>6, <1>7

(* CheckTimer after d units of time, with t armed or not. *)
LEMMA CheckSets ==
    ASSUME NEW a \in SystemTimers, NEW s \in SystemTimers, Ready(s),
           NEW t \in TimerType, NEW d \in Int, SetsFrom(a, s, t, d),
           NEW f \in Int, f <= 0, Floor(s, f), f + d >= -MaxOvershoot,
           NEW k \in Word, NEW c \in Word
    PROVE  SetsFrom(a, CheckTimer(s, k, c), t, d)
<1> DEFINE z == CheckTimer(s, k, c)
<1> SUFFICES ASSUME NEW u \in TimerType \ {t}, ~KeptFrom(a, z, u, d)
             PROVE  FollowsFrom(a, z, u)
  BY DEF SetsFrom
<1>1. Remaining(a)[u] \in Int /\ Remaining(s)[u] \in Int
      /\ Never \in Int /\ MaxOvershoot \in Int
  BY RemainingInt, HalfFacts
<1>2. CASE FollowsFrom(a, s, u)
  <2>1. u \in ArmedIn(s) => Remaining(s)[u] \in 1 .. Never
    BY <1>1, <1>2 DEF FollowsFrom, CompareSet
  <2>2. SetTo(z, u, 0)
    BY <1>2, <2>1, CheckSetTo DEF FollowsFrom
  <2> QED
    BY <1>2, <2>2 DEF FollowsFrom, SetTo
<1>3. CASE KeptFrom(a, s, u, d)
  <2>1. ~KeptFrom(s, z, u, 0)
    <3> SUFFICES ASSUME KeptFrom(s, z, u, 0) PROVE FALSE
      OBVIOUS
    <3> HIDE DEF z
    <3> QED
      BY <1>1, <1>3 DEF KeptFrom
  <2>2. /\ u = CompareTimer
        /\ u \in ArmedIn(s) => Remaining(s)[u] >= Never + f
        /\ u \in ArmedIn(z) =>
              Remaining(z)[u] = NextCompare(k, c) /\ NextCompare(k, c) # Never
    BY <2>1, CheckArmed
  <2>3. u \in ArmedIn(a) => Remaining(a)[u] >= Never - MaxOvershoot
    <3> SUFFICES ASSUME u \in ArmedIn(a)
                 PROVE  Remaining(a)[u] >= Never - MaxOvershoot
      OBVIOUS
    <3>1. Remaining(s)[u] = Remaining(a)[u] - d /\ Remaining(s)[u] >= Never + f
      BY <1>3, <2>2 DEF KeptFrom
    <3> QED
      BY <1>1, <3>1
  <2>4. NextCompare(k, c) \in 1 .. Never
    BY NextCompareRange
  <2> HIDE DEF z
  <2>5. CompareSet(z)
    BY <1>1, <2>2, <2>4 DEF CompareSet
  <2> QED
    BY <2>2, <2>3, <2>5 DEF FollowsFrom
<1> QED
  BY <1>2, <1>3 DEF SetsFrom
-----------------------------------------------------------------------------
(* Setting t to v leaves the others on their way, and none due before f.   *)
LEMMA ChangeSets ==
    ASSUME NEW a \in SystemTimers, NEW q \in SystemTimers,
           NEW t \in TimerType, NEW v \in 1 .. Never,
           v = Never => t = CompareTimer,
           t = ViTimer \/ q.Active[ViTimer],
           \A x \in TimerType \ {t} : InRange(q, x),
           NEW d \in Int, SetsFrom(a, q, t, d),
           NEW f \in Int, f <= 0, f + d >= -MaxOvershoot,
           \A x \in ArmedIn(q) \ {t} : Remaining(q)[x] >= f,
           NEW k \in Word, NEW c \in Word
    PROVE  /\ SetsFrom(a, ChangeTimer(q, t, v, k, c), t, d)
           /\ Floor(ChangeTimer(q, t, v, k, c), f)
           /\ SetTo(ChangeTimer(q, t, v, k, c), t, v)
<1> DEFINE s == SetTimer(q, t, v)
<1>1. s \in SystemTimers /\ Ready(s)
  BY SetTimerReady
<1>2. /\ s.Active[t]
      /\ ~Frozen(s, t) => Remaining(s)[t] = v
      /\ \A x \in TimerType \ {t} :
            /\ s.Active[x] = q.Active[x]
            /\ Frozen(s, x) <=> Frozen(q, x)
            /\ Remaining(s)[x] = Remaining(q)[x]
  BY SetTimerRemaining
<1>3. ChangeTimer(q, t, v, k, c) = CheckTimer(s, k, c)
  BY HalfFacts DEF ChangeTimer
<1> HIDE DEF s
<1>4. ASSUME NEW x \in TimerType \ {t}
      PROVE  x \in ArmedIn(s) <=> x \in ArmedIn(q)
  BY <1>2 DEF ArmedIn
<1>5. SetsFrom(a, s, t, d)
  BY <1>2, <1>4 DEF SetsFrom, KeptFrom, FollowsFrom, CompareSet
<1>6. Floor(s, f)
  <2> SUFFICES ASSUME NEW x \in ArmedIn(s)
               PROVE  Remaining(s)[x] >= f
    BY DEF Floor
  <2>1. CASE x = t
    <3>1. Remaining(s)[x] = v
      BY <1>2, <2>1 DEF ArmedIn
    <3>2. v >= f
      BY HalfFacts
    <3> QED
      BY <3>1, <3>2
  <2>2. CASE x # t
    BY <1>2, <1>4, <2>2 DEF ArmedIn
  <2> QED
    BY <2>1, <2>2
<1>7. IF t = CompareTimer
      THEN t \in ArmedIn(s) => Remaining(s)[t] \in 1 .. Never
      ELSE t \in ArmedIn(s) /\ Remaining(s)[t] = v
  BY <1>2 DEF ArmedIn, Frozen
<1>8. v \in Int
  BY HalfFacts
<1>9. SetTo(CheckTimer(s, k, c), t, v)
  BY <1>1, <1>6, <1>7, <1>8, CheckSetTo
<1> QED
  BY <1>1, <1>3, <1>5, <1>6, <1>9, CheckSets, CheckFloor

(* So does disarming the AI timer. *)
LEMMA DisarmSets ==
    ASSUME NEW q \in SystemTimers, NEW f \in Int, Floor(q, f)
    PROVE  /\ SetsFrom(q, SetTimer(q, AiTimer, 0), AiTimer, 0)
           /\ Floor(SetTimer(q, AiTimer, 0), f)
<1> DEFINE s == SetTimer(q, AiTimer, 0)
<1>1. 0 \in Int32
  BY HalfFacts DEF Int32
<1>2. /\ s \in SystemTimers /\ s.Timer = q.Timer /\ ~s.Active[AiTimer]
      /\ \A u \in TimerType \ {AiTimer} :
            s.NextTimer[u] = q.NextTimer[u] /\ s.Active[u] = q.Active[u]
  BY <1>1, TimerNames, SetTimerTyped
<1> HIDE DEF s
<1>3. ASSUME NEW u \in TimerType \ {AiTimer}
      PROVE  /\ u \in ArmedIn(s) <=> u \in ArmedIn(q)
             /\ Remaining(s)[u] = Remaining(q)[u]
  BY <1>2 DEF ArmedIn, Frozen, Remaining
<1>4. AiTimer \notin ArmedIn(s)
  BY <1>2 DEF ArmedIn
<1>5. SetsFrom(q, s, AiTimer, 0)
  <2> SUFFICES ASSUME NEW u \in TimerType \ {AiTimer}
               PROVE  KeptFrom(q, s, u, 0)
    BY DEF SetsFrom
  <2>1. Remaining(q)[u] \in Int
    BY RemainingInt
  <2> QED
    BY <1>3, <2>1 DEF KeptFrom
<1>6. Floor(s, f)
  BY <1>3, <1>4 DEF Floor, ArmedIn
<1> QED
  BY <1>5, <1>6 DEF s

(* Deadlines as Promise sees them. *)
LEMMA ArmedLeft ==
    /\ Armed = ArmedIn(timers)
    /\ \A u \in Armed : Left(u) = Remaining(timers)[u]
BY DEF Armed, ArmedIn, Left, Remaining

LEMMA PromiseClock == Promise!Clock = TimerType
BY TimerNames DEF Promise!Clock

(* Compare follows its register. *)
LEMMA FollowsPromise ==
    ASSUME CompareSet(timers')
    PROVE  Promise!Set(CompareTimer)
<1>1. /\ Armed' = ArmedIn(timers')
      /\ \A u \in Armed' : Left(u)' = Remaining(timers')[u]
  BY DEF Armed, ArmedIn, Left, Remaining
<1>2. Delays[CompareTimer] = 1 .. Never - 1 /\ CompareTimer \in TimerType
  BY TimerNames DEF Delays
<1> QED
  BY <1>1, <1>2 DEF CompareSet, Promise!Set

LEMMA SetsPromise ==
    ASSUME NEW t \in TimerType, NEW d, SetsFrom(timers, timers', t, d)
    PROVE  Promise!MovesAllBut(t, d)
<1>1. /\ Armed = ArmedIn(timers)
      /\ \A u \in Armed : Left(u) = Remaining(timers)[u]
  BY ArmedLeft
<1>2. /\ Armed' = ArmedIn(timers')
      /\ \A u \in Armed' : Left(u)' = Remaining(timers')[u]
  BY DEF Armed, ArmedIn, Left, Remaining
<1> SUFFICES ASSUME NEW u \in TimerType \ {t}
             PROVE  Promise!Moves(u, d)
  BY PromiseClock DEF Promise!MovesAllBut
<1>3. CASE KeptFrom(timers, timers', u, d)
  BY <1>1, <1>2, <1>3 DEF KeptFrom, Promise!Kept, Promise!Moves
<1>4. CASE FollowsFrom(timers, timers', u)
  <2>1. Promise!Set(CompareTimer) /\ u = CompareTimer
    BY <1>4, FollowsPromise DEF FollowsFrom
  <2> QED
    BY <1>1, <1>4, <2>1 DEF FollowsFrom, Promise!Follows, Promise!Moves
<1> QED
  BY <1>3, <1>4 DEF SetsFrom

(* The program has set t. *)
LEMMA SetPromise ==
    ASSUME NEW t \in TimerType, NEW v, SetTo(timers', t, v),
           t # CompareTimer => v \in Delays[t]
    PROVE  Promise!Set(t)
<1>1. CASE t = CompareTimer
  BY <1>1, FollowsPromise DEF SetTo
<1>2. CASE t # CompareTimer
  <2>1. /\ Armed' = ArmedIn(timers')
        /\ \A u \in Armed' : Left(u)' = Remaining(timers')[u]
    BY DEF Armed, ArmedIn, Left, Remaining
  <2> QED
    BY <1>2, <2>1 DEF SetTo, Promise!Set
<1> QED
  BY <1>1, <1>2
-----------------------------------------------------------------------------
(* How far an instruction is from the deadlines, and how long it takes. *)
LEMMA TimerBounds ==
    ASSUME FarInv, Sound
    PROVE  /\ timers.Timer \in Int /\ timers.Timer >= -MaxOvershoot
           /\ timers.Timer + 2 * MaxOvershoot < Half
<1>1. /\ timers \in SystemTimers /\ Good(timers) /\ timers.overtaken = {}
  BY DEF FarInv, TimersInv, TypeOK, Sound
<1>2. PICK e \in ViDelays : NearAt(timers, compare, count, waitMode, idled, e)
  BY <1>1 DEF FarInv
<1>3. Remaining(timers)[ViTimer] <= e
  BY <1>1, <1>2 DEF NearAt, Spread, Good
<1>4. timers.Timer <= Remaining(timers)[ViTimer]
  BY <1>1, TimerNames DEF Good, Remaining, Frozen
<1>5. Remaining(timers)[ViTimer] \in Int
  BY <1>1, TimerNames, RemainingInt
<1>6. timers.Timer \in Int /\ timers.Timer >= -MaxOvershoot
  BY <1>1, HalfFacts DEF Good, InWindow, SystemTimers, Int32
<1>7. e \in Int /\ e + 2 * MaxOvershoot < Half
  BY HalfFacts
<1> QED
  BY <1>3, <1>4, <1>5, <1>6, <1>7, HalfFacts

(* A tick takes as long as Timer moves, and is the same for all deadlines  *)
(* but those that are overtaken.                                           *)
LEMMA DownKept ==
    ASSUME FarInv, Sound, NEW n \in 0 .. 2, Down(n).Timer >= -MaxOvershoot
    PROVE  \E d \in -MaxOvershoot .. Half :
             /\ d = timers.Timer - Down(n).Timer
             /\ \A u \in TimerType \ Down(n).overtaken :
                   KeptFrom(timers, Down(n), u, d)
<1> DEFINE T == Down(n)
           d == timers.Timer - T.Timer
<1>1. TimersInv /\ timers \in SystemTimers
  BY DEF FarInv, TimersInv, TypeOK
<1>2. /\ T.NextTimer = timers.NextTimer /\ T.Active = timers.Active
      /\ T.Timer = IF waitMode THEN -1 - n ELSE timers.Timer - n
      /\ \A t \in TimerType \ T.overtaken :
            timers.Active[t] /\ ~Frozen(timers, t) =>
               Remaining(T)[t] = Remaining(timers)[t] - timers.Timer + T.Timer
  BY <1>1, DownRemaining
<1>3. /\ timers.Timer \in Int /\ timers.Timer >= -MaxOvershoot
      /\ timers.Timer + 2 * MaxOvershoot < Half
  BY TimerBounds
<1> HIDE DEF T
<1>4. d \in -MaxOvershoot .. Half /\ T.Timer \in Int
  BY <1>2, <1>3, HalfFacts
<1>5. ASSUME NEW u \in TimerType \ T.overtaken
      PROVE  KeptFrom(timers, T, u, d)
  <2>1. u \in ArmedIn(timers) <=> u \in ArmedIn(T)
    BY <1>2 DEF ArmedIn, Frozen
  <2>2. Remaining(timers)[u] \in Int
    BY <1>1, RemainingInt
  <2>3. u \in ArmedIn(timers) => Remaining(T)[u] = Remaining(timers)[u] - d
    BY <1>2, <1>3, <1>4, <2>2 DEF ArmedIn
  <2> QED
    BY <2>1, <2>3 DEF KeptFrom
<1> QED
  BY <1>4, <1>5 DEF T

(* The timer that Timer counts down to is the earliest.                    *)
LEMMA CurrentEarliest ==
    ASSUME FarInv, Sound
    PROVE  /\ timers.CurrentTimerType \in ArmedIn(timers)
           /\ Remaining(timers)[timers.CurrentTimerType] = timers.Timer
           /\ \A u \in ArmedIn(timers) : timers.Timer <= Remaining(timers)[u]
           /\ timers.CurrentTimerType \in Promise!Earliest
           /\ Left(timers.CurrentTimerType) = timers.Timer
<1> DEFINE f == timers.Timer
           cur == timers.CurrentTimerType
<1>1. timers \in SystemTimers /\ Good(timers)
  BY DEF FarInv, TimersInv, TypeOK, Sound
<1>2. f \in Int /\ f >= -MaxOvershoot /\ f + 2 * MaxOvershoot < Half
  BY TimerBounds
<1>3. \A u \in ArmedIn(timers) : f <= Remaining(timers)[u]
  BY <1>1 DEF Good, ArmedIn, Remaining
<1>4. cur \in TimerType /\ timers.Active[cur] /\ timers.NextTimer[cur] = 0
  BY <1>1 DEF Good
<1>5. ~Frozen(timers, cur)
  BY <1>4, HalfFacts DEF Frozen
<1>6. Remaining(timers)[cur] = Signed(0 + f) /\ cur \in ArmedIn(timers)
  BY <1>4, <1>5 DEF Remaining, ArmedIn
<1> HIDE DEF f
<1>7. Signed(0 + f) = f
  BY <1>2, HalfFacts DEF Signed
<1> HIDE DEF cur
<1>8. cur \in Armed /\ Left(cur) = f /\ \A u \in Armed : Left(cur) <= Left(u)
  BY <1>3, <1>6, <1>7, ArmedLeft
<1>9. cur \in Promise!Earliest
  <2>1. Armed \subseteq TimerType
    BY DEF Armed
  <2> QED
    BY <1>8, <2>1 DEF Promise!Earliest
<1> QED
  BY <1>3, <1>6, <1>7, <1>8, <1>9 DEF f, cur

LEMMA PassingTimes ==
    ASSUME FarInv, Sound
    PROVE  /\ 0 \in Promise!Passing /\ 2 \in Promise!Passing
           /\ timers.Timer + 1 \in Promise!Passing
           /\ timers.Timer + 3 \in Promise!Passing
<1> DEFINE cur == timers.CurrentTimerType
<1>1. cur \in Promise!Earliest /\ Left(cur) = timers.Timer
      /\ cur \in Armed /\ cur \in TimerType
  BY CurrentEarliest, ArmedLeft DEF ArmedIn
<1> HIDE DEF cur
<1>2. 1 \in {1, 2 + 1} /\ 3 \in {1, 2 + 1}
  OBVIOUS
<1> QED
  BY <1>1, <1>2 DEF Promise!Passing

(* The program runs for d, and may set t. *)
RunsFrom(a, b, t, d) ==
    /\ t \in {CompareTimer, AiTimer}
    /\ SetsFrom(a, b, t, d)
    /\ \/ KeptFrom(a, b, t, d)
       \/ \E v \in Int : SetTo(b, t, v) /\ (t # CompareTimer => v \in Delays[t])

LEMMA RunPromise ==
    ASSUME FarInv, Sound, ~atJump, atJump' \in BOOLEAN,
           NEW t \in TimerType, NEW d \in Promise!Passing,
           RunsFrom(timers, timers', t, d)
    PROVE  Promise!DeadlinesNext
<1>1. /\ Armed = ArmedIn(timers)
      /\ \A u \in Armed : Left(u) = Remaining(timers)[u]
  BY ArmedLeft
<1>2. /\ Armed' = ArmedIn(timers')
      /\ \A u \in Armed' : Left(u)' = Remaining(timers')[u]
  BY DEF Armed, ArmedIn, Left, Remaining
<1>3. Promise!MovesAllBut(t, d)
  BY SetsPromise DEF RunsFrom
<1>4. Promise!Moves(t, d) \/ Promise!Set(t)
  <2>1. CASE KeptFrom(timers, timers', t, d)
    BY <1>1, <1>2, <2>1 DEF KeptFrom, Promise!Kept, Promise!Moves
  <2>2. CASE ~KeptFrom(timers, timers', t, d)
    BY <2>2, SetPromise DEF RunsFrom
  <2> QED
    BY <2>1, <2>2
<1>5. Promise!Run(t, d)
  BY <1>3, <1>4 DEF Promise!Run
<1>6. t \in Promise!Clock \ {ViTimer}
  BY PromiseClock, TimerNames DEF RunsFrom
<1> QED
  BY <1>5, <1>6 DEF Promise!DeadlinesNext

LEMMA InstructionRuns ==
    FarInv /\ Instruction => Promise!DeadlinesNext
<1> SUFFICES ASSUME FarInv, Instruction
             PROVE  Promise!DeadlinesNext
  OBVIOUS
<1>1. Fetch /\ Sound
  BY DEF Instruction, Plain, Break, MoveToCompare, MoveToCount, AiLenChanged,
         StartDma, InPermLoop, Fetch
<1> DEFINE T == Ticked
<1>2. T = Down(2) /\ 2 \in 0 .. 2 /\ Down(2).Timer >= -MaxOvershoot
  BY <1>1 DEF Fetch, Ticked
<1>3. /\ TimersInv /\ timers \in SystemTimers /\ timers.overtaken = {}
      /\ count \in Word /\ compare \in Word
  BY <1>1 DEF FarInv, TimersInv, TypeOK, Sound
<1>4. PICK d \in -MaxOvershoot .. Half :
        /\ d = timers.Timer - T.Timer
        /\ \A u \in TimerType \ T.overtaken : KeptFrom(timers, T, u, d)
  BY <1>1, <1>2, DownKept
<1>5. /\ T \in SystemTimers /\ T.Active[ViTimer]
      /\ \A u \in TimerType \ T.overtaken : InRange(T, u)
      /\ T.overtaken = {} => Good(T)
  BY <1>1, <1>2, <1>3, DownGood
<1>6. /\ timers.Timer \in Int /\ timers.Timer >= -MaxOvershoot
      /\ timers.Timer + 2 * MaxOvershoot < Half
  BY <1>1, TimerBounds
<1>7. T.Timer \in Int /\ T.Timer >= -MaxOvershoot
      /\ T.Timer = IF waitMode THEN -3 ELSE timers.Timer - 2
  <2>1. Down(2).Timer = IF waitMode THEN -1 - 2 ELSE timers.Timer - 2
    BY <1>1, <1>2, <1>3, DownRemaining
  <2> QED
    BY <1>2, <1>6, <2>1
<1>8. ViTimer \notin T.overtaken /\ AiTimer \notin T.overtaken
      /\ T.overtaken \subseteq {CompareTimer}
  <2>1. PICK e \in ViDelays : NearAt(timers, compare, count, waitMode, idled, e)
    BY <1>3 DEF FarInv
  <2>2. e \in Int /\ e <= Never /\ AiSpread \in Int /\ AiSpread <= Never
    BY DelayBounds
  <2>3. ViTimer \notin Down(2).overtaken
    BY <1>1, <1>2, <1>3, <2>1, <2>2, DownSpread DEF NearAt
  <2>4. AiTimer \notin Down(2).overtaken
    BY <1>1, <1>2, <1>3, <2>1, <2>2, DownSpread DEF NearAt
  <2>5. T.overtaken \in SUBSET TimerType
    BY <1>5 DEF SystemTimers
  <2> QED
    BY <1>2, <2>3, <2>4, <2>5, TimerNames
<1> DEFINE f == IF T.Timer < 0 THEN T.Timer ELSE 0
<1>9. f \in Int /\ f <= 0 /\ f + d >= -MaxOvershoot /\ d \in Int
  BY <1>4, <1>6, <1>7, HalfFacts
<1>13. d \in Promise!Passing
  <2>1. d = 2 \/ d = timers.Timer + 3
    BY <1>4, <1>6, <1>7
  <2> QED
    BY <1>1, <2>1, PassingTimes
<1>14. ~atJump /\ atJump' \in BOOLEAN
  BY <1>1 DEF Fetch
<1> HIDE DEF T
<1>10. ASSUME NEW x \in ArmedIn(T), x \notin T.overtaken
       PROVE  Remaining(T)[x] >= f
  <2>1. x \in TimerType /\ x \in ArmedIn(timers)
    BY <1>4, <1>10 DEF ArmedIn, KeptFrom
  <2>2. Remaining(T)[x] = Remaining(timers)[x] - d
    BY <1>4, <1>10, <2>1 DEF KeptFrom
  <2>3. Remaining(timers)[x] >= timers.Timer
    BY <1>1, <1>3, <2>1 DEF TimersInv, Good, Remaining, ArmedIn
  <2>4. Remaining(timers)[x] \in Int
    BY <1>3, <2>1, RemainingInt
  <2>5. Remaining(T)[x] >= T.Timer
    BY <1>4, <1>6, <1>7, <2>2, <2>3, <2>4
  <2>6. Remaining(T)[x] \in Int
    BY <1>5, <2>1, RemainingInt
  <2> QED
    BY <2>5, <2>6, <1>7
<1>11. CASE T.overtaken = {}
  <2>1. Good(T) /\ Ready(T) /\ T.Active[ViTimer]
    BY <1>5, <1>11, GoodReady
  <2>2. Floor(T, f)
    BY <1>10, <1>11 DEF Floor
  <2>3. \A t \in TimerType : SetsFrom(timers, T, t, d) /\ KeptFrom(timers, T, t, d)
    BY <1>4, <1>11 DEF SetsFrom
  <2>4. SUFFICES \E t \in TimerType, e \in Promise!Passing :
                    RunsFrom(timers, timers', t, e)
    BY <1>1, <1>14, RunPromise
  <2> HIDE DEF f
  <2>5. CASE timers' = T
    BY <1>13, <2>3, <2>5, TimerNames DEF RunsFrom
  <2>6. ASSUME NEW k \in Word, NEW c \in Word,
               timers' = ChangeCompareTimer(T, k, c)
        PROVE  RunsFrom(timers, timers', CompareTimer, d)
    <3>1. NextCompare(k, c) \in 1 .. Never /\ NextCompare(k, c) \in Int
      BY NextCompareRange, HalfFacts
    <3>2. \A x \in TimerType \ {CompareTimer} : InRange(T, x)
      BY <2>1 DEF Ready
    <3>3. \A x \in ArmedIn(T) \ {CompareTimer} : Remaining(T)[x] >= f
      BY <2>2 DEF Floor
    <3>4. /\ SetsFrom(timers, timers', CompareTimer, d)
          /\ SetTo(timers', CompareTimer, NextCompare(k, c))
      BY <1>3, <1>5, <1>9, <2>1, <2>3, <2>6, <3>1, <3>2, <3>3, TimerNames,
         ChangeSets DEF ChangeCompareTimer
    <3> QED
      BY <3>1, <3>4 DEF RunsFrom
  <2>7. TickedCount \in Word
    BY <1>3, HalfFacts DEF TickedCount, Unsigned, Word
  <2>8. CASE MoveToCompare
    <3>1. PICK v \in CompareWrites :
            timers' = ChangeCompareTimer(T, v, TickedCount)
      BY <2>8 DEF MoveToCompare, T
    <3> QED
      BY <1>13, <2>6, <2>7, <3>1, TimersAssumption, TimerNames
  <2>9. CASE MoveToCount
    <3>1. PICK v \in CountWrites : timers' = ChangeCompareTimer(T, compare, v)
      BY <2>9 DEF MoveToCount, T
    <3> QED
      BY <1>3, <1>13, <2>6, <3>1, TimersAssumption, TimerNames
  <2>10. CASE AiLenChanged
    <3>1. PICK e \in AiDelays :
            timers' = ChangeTimer(T, AiTimer, e, compare, TickedCount)
      BY <2>10 DEF AiLenChanged, T
    <3>2. e \in 1 .. Never /\ e # Never
      BY DelayBounds
    <3>3. \A x \in TimerType \ {AiTimer} : InRange(T, x)
      BY <2>1 DEF Ready
    <3>4. \A x \in ArmedIn(T) \ {AiTimer} : Remaining(T)[x] >= f
      BY <2>2 DEF Floor
    <3>5. SetsFrom(timers, timers', AiTimer, d) /\ SetTo(timers', AiTimer, e)
      BY <1>3, <1>5, <1>9, <2>1, <2>3, <2>7, <3>1, <3>2, <3>3, <3>4,
         TimerNames, ChangeSets
    <3>6. e \in Delays[AiTimer] /\ e \in Int
      BY <3>2, HalfFacts, TimerNames DEF Delays
    <3> QED
      BY <1>13, <3>5, <3>6, TimerNames DEF RunsFrom
  <2>11. CASE StartDma
    <3>1. timers' = CheckTimer(T, compare, TickedCount)
      BY <2>11 DEF StartDma, T
    <3>2. /\ SetsFrom(timers, timers', CompareTimer, d)
          /\ SetsFrom(timers, timers', AiTimer, d)
      BY <1>3, <1>5, <1>9, <2>1, <2>2, <2>3, <2>7, <3>1, TimerNames, CheckSets
    <3>3. KeptFrom(timers, timers', AiTimer, d)
      BY <3>2, TimerNames DEF SetsFrom, FollowsFrom
    <3> QED
      BY <1>13, <3>2, <3>3, TimerNames DEF RunsFrom
  <2>12. CASE InPermLoop
    <3>1. CASE T.Timer >= 0
      <4> DEFINE s == [T EXCEPT !.Timer = -1]
                 e == timers.Timer + 1
      <4>1. timers' = s
        BY <2>12, <3>1 DEF InPermLoop, T
      <4>2. s.Active = T.Active /\ s.NextTimer = T.NextTimer /\ s.Timer = -1
        BY <1>5 DEF SystemTimers
      <4>3. e \in Promise!Passing
        BY <1>1, PassingTimes
      <4>4. ASSUME NEW u \in TimerType
            PROVE  KeptFrom(timers, s, u, e)
        <5>1. u \in ArmedIn(s) <=> u \in ArmedIn(T)
          BY <4>2 DEF ArmedIn, Frozen
        <5>2. u \in ArmedIn(timers) <=> u \in ArmedIn(T)
          BY <1>4, <1>11 DEF KeptFrom
        <5>3. ASSUME u \in ArmedIn(timers)
              PROVE  Remaining(s)[u] = Remaining(timers)[u] - e
          <6>1. Remaining(T)[u] = Remaining(timers)[u] - d
            BY <1>4, <1>11, <5>3 DEF KeptFrom
          <6>2. /\ Remaining(T)[u] = Signed(T.NextTimer[u] + T.Timer)
                /\ Remaining(s)[u] = Signed(T.NextTimer[u] + -1)
            BY <4>2, <5>1, <5>2, <5>3 DEF Remaining, ArmedIn
          <6>3. T.Timer <= Remaining(T)[u] /\ Remaining(T)[u] < Never
            BY <2>1, <5>2, <5>3, <6>2 DEF Good, ArmedIn
          <6>4. T.NextTimer[u] \in Int32 /\ Remaining(timers)[u] \in Int
            BY <1>3, <1>5, RemainingInt DEF SystemTimers
          <6> DEFINE x == T.NextTimer[u]
                     o == T.Timer
          <6>5. x \in Int32 /\ o \in Int /\ o >= 0 /\ o < Half
                /\ o <= Signed(x + o) /\ Signed(x + o) < Never
            BY <1>6, <1>7, <3>1, <6>2, <6>3, <6>4, HalfFacts
          <6> HIDE DEF x, o
          <6>6. Signed(x + -1) = Signed(x + o) - o - 1
            BY <6>5, HalfFacts DEF Signed, Int32
          <6>7. Signed(x + o) \in Int
            BY <6>5, HalfFacts DEF Signed, Int32
          <6> QED
            BY <1>4, <1>6, <1>7, <6>1, <6>2, <6>4, <6>5, <6>6, <6>7 DEF x, o
        <5> QED
          BY <5>1, <5>2, <5>3 DEF KeptFrom
      <4>5. RunsFrom(timers, s, CompareTimer, e)
        BY <4>4, TimerNames DEF SetsFrom, RunsFrom
      <4> QED
        BY <4>1, <4>3, <4>5, TimerNames
    <3>2. CASE ~(T.Timer >= 0)
      BY <2>5, <2>12, <3>2 DEF InPermLoop, T
    <3> QED
      BY <3>1, <3>2
  <2> QED
    BY <2>5, <2>8, <2>9, <2>10, <2>11, <2>12 DEF Instruction, Plain, Break, T
<1>12. CASE T.overtaken # {}
  <2>1. T.overtaken = {CompareTimer} /\ waitMode
    <3>1. ~waitMode => Down(2).overtaken = {}
      BY <1>1, <1>2, <1>3, DownRemaining
    <3> QED
      BY <1>2, <1>8, <1>12, <3>1
  <2>2. TickedCount \in Word
    BY <1>3, HalfFacts DEF TickedCount, Unsigned, Word
  <2>3. CASE timers'.overtaken # {}
    BY <1>1, <2>3 DEF Promise!DeadlinesNext, Promise!GoAstray, Sound
  <2>4. CASE timers' = T
    BY <1>12, <2>3, <2>4
  <2>5. CASE MoveToCompare \/ MoveToCount
    <3>1. PICK k \in Word, c \in Word : timers' = ChangeCompareTimer(T, k, c)
      BY <1>3, <2>2, <2>5, TimersAssumption DEF MoveToCompare, MoveToCount, T
    <3>2. NextCompare(k, c) \in 1 .. Never /\ NextCompare(k, c) \in Int
      BY NextCompareRange, HalfFacts
    <3>3. \A x \in TimerType \ {CompareTimer} : InRange(T, x)
      BY <1>5, <2>1
    <3>4. \A x \in ArmedIn(T) \ {CompareTimer} : Remaining(T)[x] >= f
      BY <1>10, <2>1
    <3>5. SetsFrom(timers, T, CompareTimer, d)
      BY <1>4, <2>1 DEF SetsFrom
    <3> HIDE DEF f
    <3>6. /\ SetsFrom(timers, timers', CompareTimer, d)
          /\ SetTo(timers', CompareTimer, NextCompare(k, c))
      BY <1>3, <1>5, <1>9, <3>1, <3>2, <3>3, <3>4, <3>5, TimerNames,
         ChangeSets DEF ChangeCompareTimer
    <3>7. RunsFrom(timers, timers', CompareTimer, d)
      BY <3>2, <3>6 DEF RunsFrom
    <3> QED
      BY <1>1, <1>13, <1>14, <3>7, TimerNames, RunPromise
  <2>6. CASE AiLenChanged
    <3>1. PICK e \in AiDelays :
            timers' = ChangeTimer(T, AiTimer, e, compare, TickedCount)
      BY <2>6 DEF AiLenChanged, T
    <3> DEFINE s == SetTimer(T, AiTimer, e)
    <3>2. e \in Int32 /\ e # 0
      BY DelayBounds, HalfFacts DEF Int32
    <3>3. s \in SystemTimers /\ s.overtaken = T.overtaken \ {AiTimer}
      BY <1>5, <3>2, TimerNames, SetTimerTyped
    <3>4. timers' = CheckTimer(s, compare, TickedCount)
      BY <3>1, <3>2 DEF ChangeTimer
    <3> HIDE DEF s
    <3>5. timers'.overtaken = {CompareTimer}
      BY <1>3, <2>1, <2>2, <3>3, <3>4, TimerNames, CheckTimerTyped
    <3> QED
      BY <2>3, <3>5
  <2>7. CASE StartDma
    <3>1. timers' = CheckTimer(T, compare, TickedCount)
      BY <2>7 DEF StartDma, T
    <3>2. timers'.overtaken = T.overtaken
      BY <1>3, <1>5, <2>2, <3>1, CheckTimerTyped
    <3> QED
      BY <1>12, <2>3, <3>2
  <2>8. CASE InPermLoop
    <3>1. ~(T.Timer >= 0)
      BY <1>7, <2>1
    <3> QED
      BY <2>4, <2>8, <3>1 DEF InPermLoop, T
  <2> QED
    BY <2>4, <2>5, <2>6, <2>7, <2>8 DEF Instruction, Plain, Break, T
<1> QED
  BY <1>11, <1>12

(* An instruction that cannot be fetched takes no time, or ends WaitMode.  *)
LEMMA FetchMissRuns == FarInv /\ FetchMiss => Promise!DeadlinesNext
<1> SUFFICES ASSUME FarInv, FetchMiss
             PROVE  Promise!DeadlinesNext
  OBVIOUS
<1>1. /\ TimersInv /\ TimersInv' /\ Sound /\ timers' = Down(0)
      /\ timers' \in SystemTimers
  BY FetchMissInv DEF FarInv, FetchMiss, TimersInv, TypeOK
<1>2. timers.Timer \in Int /\ timers.Timer >= -MaxOvershoot
  BY <1>1, TimerBounds
<1>3. Down(0).Timer = IF waitMode THEN -1 ELSE timers.Timer
  <2>1. timers \in SystemTimers
    BY <1>1 DEF TimersInv, TypeOK
  <2> QED
    BY <1>2, <2>1, HalfFacts DEF Down, SystemTimers, Int32
<1>4. Down(0).Timer >= -MaxOvershoot /\ 0 \in 0 .. 2
  BY <1>2, <1>3, HalfFacts
<1>5. PICK d \in -MaxOvershoot .. Half :
        /\ d = timers.Timer - Down(0).Timer
        /\ \A u \in TimerType \ Down(0).overtaken :
              KeptFrom(timers, Down(0), u, d)
  BY <1>1, <1>4, DownKept
<1>6. CASE Down(0).overtaken = {}
  <2>1. RunsFrom(timers, timers', CompareTimer, d)
    BY <1>1, <1>5, <1>6, TimerNames DEF SetsFrom, RunsFrom
  <2>2. d \in Promise!Passing
    <3>1. d = 0 \/ d = timers.Timer + 1
      BY <1>5, <1>2, <1>3
    <3> QED
      BY <1>1, <3>1, PassingTimes
  <2>3. ~atJump /\ atJump' \in BOOLEAN
    BY <1>1 DEF FetchMiss, TimersInv, TypeOK
  <2> QED
    BY <1>1, <2>1, <2>2, <2>3, TimerNames, RunPromise
<1>7. CASE Down(0).overtaken # {}
  BY <1>1, <1>7 DEF Promise!DeadlinesNext, Promise!GoAstray, Sound
<1> QED
  BY <1>6, <1>7

(* The timer that is served is due, and none is due before it. *)
LEMMA PollFires == FarInv /\ Poll /\ ~NotExpired => Promise!DeadlinesNext
<1> SUFFICES ASSUME FarInv, Poll, ~NotExpired
             PROVE  Promise!DeadlinesNext
  OBVIOUS
<1>1. Sound /\ timers.Timer < 0
  BY DEF Poll, CompareDone, ViDone, AiDone, Expired
<1>2. /\ timers \in SystemTimers /\ Good(timers) /\ Ready(timers)
      /\ timers.Active[ViTimer] /\ count \in Word /\ compare \in Word
  BY <1>1, GoodReady DEF FarInv, TimersInv, TypeOK, Sound, Ready
<1> DEFINE f == timers.Timer
           cur == timers.CurrentTimerType
<1>3. f \in Int /\ f <= 0 /\ f < 0 /\ 0 \in Int /\ f + 0 >= -MaxOvershoot
  BY <1>1, TimerBounds
<1>4. \A x \in ArmedIn(timers) : timers.Timer <= Remaining(timers)[x]
  BY <1>1, CurrentEarliest
<1>5. /\ cur \in ArmedIn(timers) /\ Remaining(timers)[cur] = f
      /\ cur \in Promise!Earliest /\ Left(cur) = f
  BY <1>1, CurrentEarliest
<1>6. Floor(timers, f)
  BY <1>3, <1>4 DEF Floor
<1>7. \A t \in TimerType : SetsFrom(timers, timers, t, 0)
  <2> SUFFICES ASSUME NEW u \in TimerType
               PROVE  KeptFrom(timers, timers, u, 0)
    BY DEF SetsFrom
  <2>1. Remaining(timers)[u] \in Int
    BY <1>2, RemainingInt
  <2> QED
    BY <2>1 DEF KeptFrom
<1> HIDE DEF f
<1>8. ASSUME NEW s \in SystemTimers, Ready(s), Floor(s, f),
             NEW t \in TimerType, SetsFrom(timers, s, t, 0),
             timers' = CheckTimer(s, compare, count)
      PROVE  /\ SetsFrom(timers, timers', t, 0)
             /\ \A v \in Int : SetTo(s, t, v) => SetTo(timers', t, v)
  <2>1. SetsFrom(timers, timers', t, 0)
    BY <1>2, <1>3, <1>8, CheckSets
  <2>2. ASSUME NEW v \in Int, SetTo(s, t, v)
        PROVE  SetTo(timers', t, v)
    <3>1. 1 .. Never - 1 \subseteq 1 .. Never
      BY HalfFacts
    <3>2. IF t = CompareTimer
          THEN t \in ArmedIn(s) => Remaining(s)[t] \in 1 .. Never
          ELSE t \in ArmedIn(s) /\ Remaining(s)[t] = v
      BY <2>2, <3>1 DEF SetTo, CompareSet
    <3> QED
      BY <1>2, <1>3, <1>8, <3>2, CheckSetTo
  <2> QED
    BY <2>1, <2>2
<1>9. /\ SetsFrom(timers, timers', cur, 0)
      /\ \/ cur = ViTimer
            /\ \E p \in ViDelays : SetTo(timers', ViTimer, f + p)
         \/ cur = AiTimer /\ AiTimer \notin ArmedIn(timers')
         \/ cur = CompareTimer /\ CompareSet(timers')
  <2>1. CASE CompareDone
    <3> DEFINE s == ChangeCompareTimer(timers, compare, count)
               v == NextCompare(compare, count)
    <3>1. cur = CompareTimer /\ timers' = CheckTimer(s, compare, count)
      BY <2>1 DEF CompareDone, Expired
    <3>2. s \in SystemTimers /\ Ready(s)
      BY <1>2, ChangeCompareTimerGood, GoodReady DEF Ready
    <3>3. v \in 1 .. Never /\ v \in Int
      BY <1>2, NextCompareRange, HalfFacts
    <3>4. s = ChangeTimer(timers, CompareTimer, v, compare, count)
      BY DEF ChangeCompareTimer
    <3>5. \A x \in TimerType \ {CompareTimer} : InRange(timers, x)
      BY <1>2 DEF Ready
    <3>6. \A x \in ArmedIn(timers) \ {CompareTimer} : Remaining(timers)[x] >= f
      BY <1>6 DEF Floor
    <3> HIDE DEF s, v
    <3>7. /\ SetsFrom(timers, s, CompareTimer, 0) /\ Floor(s, f)
          /\ SetTo(s, CompareTimer, v)
      BY <1>2, <1>3, <1>7, <3>3, <3>4, <3>5, <3>6, TimerNames, ChangeSets
    <3> QED
      BY <1>8, <3>1, <3>2, <3>3, <3>7, TimerNames DEF SetTo
  <2>2. CASE ViDone
    <3>1. PICK period \in ViDelays :
            timers' = CheckTimer(
                          ChangeTimer(timers, ViTimer,
                              Signed(Signed(timers.Timer
                                            + timers.NextTimer[ViTimer])
                                     + period), compare, count),
                          compare, count)
      BY <2>2 DEF ViDone
    <3> DEFINE due == Signed(Signed(timers.Timer + timers.NextTimer[ViTimer])
                             + period)
               s == ChangeTimer(timers, ViTimer, due, compare, count)
    <3>2. cur = ViTimer /\ timers.NextTimer[ViTimer] = 0
      BY <1>2, <2>2 DEF ViDone, Expired, Good
    <3>3. due \in 1 .. Never /\ due # Never /\ due = f + period /\ due \in Int
      <4>1. period \in Nat /\ period > MaxOvershoot
            /\ period + 2 * MaxOvershoot < Half
        BY HalfFacts
      <4>2. due = Signed(Signed(f + 0) + period)
        BY <3>2 DEF f
      <4> HIDE DEF due
      <4>3. Signed(Signed(f + 0) + period) = f + period
        BY <1>3, <4>1, HalfFacts DEF Signed
      <4> QED
        BY <1>3, <4>1, <4>2, <4>3, HalfFacts
    <3>4. timers' = CheckTimer(s, compare, count)
      BY <3>1
    <3> HIDE DEF due
    <3>5. \A x \in TimerType \ {ViTimer} : InRange(timers, x)
      BY <1>2 DEF Ready
    <3>6. \A x \in ArmedIn(timers) \ {ViTimer} : Remaining(timers)[x] >= f
      BY <1>6 DEF Floor
    <3>7. s \in SystemTimers /\ Ready(s)
      BY <1>2, <3>3, <3>5, TimerNames, ChangeTimerGood, GoodReady
    <3>8. /\ SetsFrom(timers, s, ViTimer, 0) /\ Floor(s, f)
          /\ SetTo(s, ViTimer, due)
      BY <1>2, <1>3, <1>7, <3>3, <3>5, <3>6, TimerNames, ChangeSets
    <3> HIDE DEF s
    <3> QED
      BY <1>8, <3>1, <3>2, <3>3, <3>4, <3>7, <3>8, TimerNames
  <2>3. CASE AiDone
    <3> DEFINE s == SetTimer(timers, AiTimer, 0)
    <3>1. cur = AiTimer /\ timers' = CheckTimer(s, compare, count)
      BY <2>3 DEF AiDone, ChangeTimer, Expired
    <3>2. s \in SystemTimers /\ Ready(s)
      BY <1>2, TimerNames, SetTimerOffReady
    <3>3. SetsFrom(timers, s, AiTimer, 0) /\ Floor(s, f)
      BY <1>2, <1>3, <1>6, DisarmSets
    <3>4. AiTimer \notin ArmedIn(s)
      <4>1. 0 \in Int32
        BY HalfFacts DEF Int32
      <4> QED
        BY <1>2, <4>1, TimerNames, SetTimerTyped DEF ArmedIn
    <3> HIDE DEF s
    <3>5. SetsFrom(timers, timers', AiTimer, 0)
      BY <1>8, <3>1, <3>2, <3>3, TimerNames
    <3>6. KeptFrom(s, CheckTimer(s, compare, count), AiTimer, 0)
      BY <1>2, <1>3, <3>2, <3>3, TimerNames, CheckArmed
    <3>7. AiTimer \notin ArmedIn(timers')
      BY <3>1, <3>4, <3>6 DEF KeptFrom
    <3> QED
      BY <3>1, <3>5, <3>7
  <2> QED
    BY <2>1, <2>2, <2>3 DEF Poll
<1>10. cur \in TimerType
  BY <1>5 DEF ArmedIn
<1>11. PICK t \in TimerType : t = cur
  BY <1>10
<1> HIDE DEF cur
<1>12. Promise!Fire(t)
  <2>1. Promise!MovesAllBut(t, 0)
    BY <1>9, <1>11, SetsPromise
  <2>2. /\ Armed' = ArmedIn(timers')
        /\ \A u \in Armed' : Left(u)' = Remaining(timers')[u]
    BY DEF Armed, ArmedIn, Left, Remaining
  <2>3. t \in Armed /\ t \in Promise!Earliest /\ Left(t) = f
    BY <1>5, <1>11, ArmedLeft
  <2>4. \/ t = ViTimer /\ t \in Armed' /\ Left(t)' - f \in Delays[t]
        \/ t = AiTimer /\ t \notin Armed'
        \/ t = CompareTimer /\ Promise!Set(t)
    <3>1. CASE t = ViTimer
      <4>1. PICK p \in ViDelays : SetTo(timers', ViTimer, f + p)
        BY <1>9, <1>11, <3>1, TimerNames
      <4>2. t \in Armed' /\ Left(t)' = f + p
        BY <2>2, <3>1, <4>1, TimerNames DEF SetTo
      <4>3. Delays[ViTimer] = ViDelays
        BY TimerNames DEF Delays
      <4>4. Left(t)' - f = p
        BY <1>3, <4>2, HalfFacts
      <4> QED
        BY <3>1, <4>2, <4>3, <4>4
    <3>2. CASE t = AiTimer
      BY <1>9, <1>11, <2>2, <3>2, TimerNames
    <3>3. CASE t = CompareTimer
      BY <1>9, <1>11, <3>3, TimerNames, FollowsPromise
    <3> QED
      BY <3>1, <3>2, <3>3, TimerNames
  <2>5. atJump /\ ~atJump'
    BY DEF Poll, CompareDone, ViDone, AiDone, Expired
  <2> QED
    BY <1>3, <2>1, <2>3, <2>4, <2>5 DEF Promise!Fire
<1> QED
  <2>1. t \in Promise!Clock
    BY PromiseClock
  <2> QED
    BY <1>1, <1>12, <2>1 DEF Promise!DeadlinesNext

(* A poll that serves no timer passes over none that is due.               *)
LEMMA PollPasses == FarInv /\ NotExpired => Promise!DeadlinesNext
<1> SUFFICES ASSUME FarInv, NotExpired
             PROVE  Promise!DeadlinesNext
  OBVIOUS
<1>1. Sound /\ timers.Timer >= 0 /\ timers' = timers /\ atJump /\ ~atJump'
  BY DEF NotExpired
<1>2. \A u \in Armed : timers.Timer <= Left(u)
  BY <1>1, CurrentEarliest, ArmedLeft
<1>3. timers.Timer \in Int
  BY <1>1, TimerBounds
<1>4. \A u \in Armed : Left(u) \in Int
  <2>1. timers \in SystemTimers
    BY DEF FarInv, TimersInv, TypeOK
  <2> QED
    BY <2>1, ArmedLeft, RemainingInt DEF ArmedIn
<1>5. \A u \in Armed : Left(u) >= 0
  BY <1>1, <1>2, <1>3, <1>4
<1>6. Armed' = Armed /\ \A u \in TimerType : Left(u)' = Left(u)
  BY <1>1 DEF Armed, Left
<1>7. Armed \subseteq TimerType
  BY DEF Armed
<1>8. Promise!Pass
  BY <1>1, <1>5, <1>6, <1>7 DEF Promise!Pass
<1> QED
  BY <1>1, <1>8 DEF Promise!DeadlinesNext
-----------------------------------------------------------------------------
(* While nothing is due, CheckTimer returns.                               *)
FarNever(q, k, c) ==
    \/ Ahead(k, c) >= Never
    \/ /\ ~Frozen(q, CompareTimer)
       /\ CompareTimer \in ArmedIn(q) => Remaining(q)[CompareTimer] # Never

LEMMA CheckReturns ==
    ASSUME NEW q \in SystemTimers, Ready(q), Floor(q, 0),
           NEW k \in Word, NEW c \in Word, FarNever(q, k, c)
    PROVE  CheckTimer(q, k, c).endless = q.endless
<1> DEFINE p == Rebase(q)
<1>1. /\ p \in SystemTimers /\ Good(p) /\ p.Active = q.Active
      /\ p.endless = q.endless
  BY RebaseTyped, RebaseGood
<1>2. ~Revives(p, k, c)
  <2> SUFFICES ASSUME p.NextTimer[CompareTimer] = Never, Ahead(k, c) < Never
               PROVE  FALSE
    BY DEF Revives
  <2>1. /\ ~Frozen(q, CompareTimer)
        /\ CompareTimer \in ArmedIn(q) => Remaining(q)[CompareTimer] # Never
    BY AheadNat, HalfFacts DEF FarNever
  <2>2. CASE q.Active[CompareTimer]
    <3>1. CompareTimer \in ArmedIn(q) /\ CompareTimer \notin ArmedIn(p)
      BY <2>1, <2>2, TimerNames DEF ArmedIn, Frozen
    <3>2. Remaining(q)[CompareTimer] >= Never + 0
      BY <3>1, RebaseArmed, TimerNames DEF KeptFrom
    <3>3. /\ Remaining(q)[CompareTimer] \in Int
          /\ Remaining(q)[CompareTimer] # Never
      BY <2>1, <3>1, TimerNames, RemainingInt
    <3>4. Remaining(q)[CompareTimer] < Never
      BY <2>2, <2>1, <3>3, TimerNames DEF Ready, InRange, InWindow
    <3> QED
      BY <3>2, <3>3, <3>4, HalfFacts
  <2>3. CASE ~q.Active[CompareTimer]
    <3>1. p.NextTimer[CompareTimer] = q.NextTimer[CompareTimer]
      BY <2>3, TimerNames DEF Rebase, Remaining
    <3> QED
      BY <2>1, <3>1 DEF Frozen
  <2> QED
    BY <2>2, <2>3
<1> QED
  BY <1>1, <1>2 DEF CheckTimer

(* So the timers are sound once a track has been loaded. *)
LEMMA ChangeReturns ==
    ASSUME NEW q \in SystemTimers, ~q.endless, q.overtaken = {}, q.Timer >= 0,
           NEW t \in TimerType, NEW v \in 1 .. Never,
           v = Never => t = CompareTimer,
           t = ViTimer \/ q.Active[ViTimer],
           \A x \in TimerType \ {t} : InRange(q, x),
           \A x \in ArmedIn(q) \ {t} : Remaining(q)[x] >= 0,
           NEW k \in Word, NEW c \in Word,
           IF t = CompareTimer THEN v = Never => Ahead(k, c) >= Never
                               ELSE FarNever(q, k, c)
    PROVE  LET z == ChangeTimer(q, t, v, k, c)
           IN  /\ z \in SystemTimers /\ Good(z) /\ ~z.endless
               /\ z.overtaken = {}
               /\ Floor(z, 0) /\ FarNever(z, k, c) /\ z.Timer >= 0
<1> DEFINE z == ChangeTimer(q, t, v, k, c)
           s == SetTimer(q, t, v)
<1>1. z \in SystemTimers /\ Good(z) /\ z.overtaken = {}
  <2>1. z.overtaken = q.overtaken \ {t}
    BY ChangeTimerGood
  <2> QED
    BY <2>1, ChangeTimerGood
<1>2. s \in SystemTimers /\ Ready(s) /\ z = CheckTimer(s, k, c)
  BY SetTimerReady, HalfFacts DEF ChangeTimer
<1>3. /\ ~Frozen(s, t) => Remaining(s)[t] = v
      /\ \A x \in TimerType \ {t} :
            /\ s.Active[x] = q.Active[x]
            /\ Frozen(s, x) <=> Frozen(q, x)
            /\ Remaining(s)[x] = Remaining(q)[x]
  BY SetTimerRemaining
<1>4. ~s.endless
  <2>1. v \in Int32
    BY HalfFacts DEF Int32
  <2> QED
    BY <2>1, SetTimerTyped
<1> HIDE DEF s, z
<1>5. \A x \in TimerType \ {t} : x \in ArmedIn(s) <=> x \in ArmedIn(q)
  BY <1>3 DEF ArmedIn
<1>6. Floor(s, 0)
  <2> SUFFICES ASSUME NEW x \in ArmedIn(s)
               PROVE  Remaining(s)[x] >= 0
    BY DEF Floor
  <2>1. CASE x = t
    <3>1. Remaining(s)[x] = v
      BY <1>3, <2>1 DEF ArmedIn
    <3>2. v >= 0
      BY HalfFacts
    <3> QED
      BY <3>1, <3>2
  <2>2. CASE x # t
    BY <1>3, <1>5, <2>2 DEF ArmedIn
  <2> QED
    BY <2>1, <2>2
<1>7. FarNever(s, k, c)
  <2>1. CASE t = CompareTimer
    <3> SUFFICES ASSUME Ahead(k, c) < Never
                 PROVE  ~Frozen(s, t) /\ Remaining(s)[t] # Never
      BY <2>1, AheadNat, HalfFacts DEF FarNever
    <3>1. v # Never /\ v \in Int /\ 1 <= v /\ v < Never
      BY <2>1, AheadNat, HalfFacts
    <3>2. s.NextTimer[t] = Signed(v - q.Timer)
      <4>1. v \in Int32 /\ v # 0
        BY <3>1, HalfFacts DEF Int32
      <4> QED
        BY <4>1, SetTimerTyped DEF s
    <3>3. q.Timer \in Int /\ q.Timer < Half
      BY HalfFacts DEF SystemTimers, Int32
    <3> DEFINE o == q.Timer
    <3>4. Signed(v - o) # Never
      <4>1. o \in Int /\ 0 <= o /\ o < Half
        BY <3>3
      <4> HIDE DEF o
      <4> QED
        BY <3>1, <4>1, HalfFacts DEF Signed
    <3>5. ~Frozen(s, t)
      BY <3>2, <3>4 DEF Frozen
    <3> QED
      BY <1>3, <3>1, <3>5
  <2>2. CASE t # CompareTimer
    BY <1>3, <1>5, <2>2, TimerNames DEF FarNever
  <2> QED
    BY <2>1, <2>2
<1>8. ~z.endless /\ Floor(z, 0)
  BY <1>2, <1>4, <1>6, <1>7, CheckReturns, CheckFloor
<1>9. FarNever(z, k, c)
  <2>1. CASE z.NextTimer[CompareTimer] = Never
    BY <1>2, <1>8, <2>1, CheckLeavesFar DEF FarNever
  <2>2. CASE z.NextTimer[CompareTimer] # Never
    <3>1. ~Frozen(z, CompareTimer)
      BY <2>2 DEF Frozen
    <3>2. CompareTimer \in ArmedIn(z) => Remaining(z)[CompareTimer] < Never
      BY <1>1, <3>1, TimerNames DEF ArmedIn, Good, Remaining
    <3> QED
      BY <3>1, <3>2, HalfFacts DEF FarNever
  <2> QED
    BY <2>1, <2>2
<1>10. z.Timer >= 0
  <2> DEFINE cur == z.CurrentTimerType
             o == z.Timer
  <2>1. /\ cur \in TimerType /\ z.Active[cur] /\ z.NextTimer[cur] = 0
        /\ o \in Int /\ InWindow(o)
    BY <1>1, HalfFacts DEF Good, SystemTimers, Int32
  <2>2. ~Frozen(z, cur)
    BY <2>1, HalfFacts DEF Frozen
  <2>3. Remaining(z)[cur] = Signed(0 + o) /\ Remaining(z)[cur] >= 0
    BY <1>8, <2>1, <2>2 DEF Remaining, Floor, ArmedIn
  <2> HIDE DEF o
  <2>4. Signed(0 + o) = o
    BY <2>1, HalfFacts DEF Signed, InWindow
  <2> QED
    BY <2>3, <2>4 DEF o
<1> QED
  BY <1>1, <1>8, <1>9, <1>10 DEF z

LEMMA LoadedSound == Init => Sound /\ Floor(timers, 0)
<1> SUFFICES ASSUME Init PROVE Sound /\ Floor(timers, 0)
  OBVIOUS
<1>1. TimersInv /\ timers \in SystemTimers /\ count \in Word /\ compare \in Word
  BY InitInv DEF TimersInv, TypeOK
<1>2. PICK vi \in ViDelays, ai \in AiDelays \cup {0} :
        timers = Loaded(vi, ai, compare, count)
  BY DEF Init
<1> DEFINE blank == Blank
           a == ChangeTimer(blank, ViTimer, vi, compare, count)
           v == NextCompare(compare, count)
           b == ChangeTimer(a, CompareTimer, v, compare, count)
<1>3. timers = ChangeTimer(b, AiTimer, ai, compare, count)
  BY <1>2 DEF Loaded, ChangeCompareTimer
<1>4. /\ blank \in SystemTimers /\ blank.Timer >= 0
      /\ \A t \in TimerType : InRange(blank, t)
      /\ ArmedIn(blank) = {}
      /\ ~blank.endless /\ blank.overtaken = {} /\ ~Frozen(blank, CompareTimer)
  <2>1. 0 \in Int32
    BY HalfFacts DEF Int32
  <2>2. blank \in SystemTimers
    BY <2>1 DEF Blank, SystemTimers
  <2>3. /\ \A t \in TimerType : ~blank.Active[t]
        /\ ~blank.endless /\ blank.overtaken = {} /\ blank.Timer >= 0
        /\ blank.NextTimer[CompareTimer] = 0
    BY TimerNames DEF Blank
  <2> QED
    BY <2>2, <2>3, HalfFacts DEF InRange, ArmedIn, Frozen
<1>5. vi \in 1 .. Never /\ vi # Never
  BY DelayBounds
<1>6. v \in 1 .. Never /\ (v = Never => Ahead(compare, count) >= Never)
  <2>1. v \in 1 .. Never /\ (Ahead(compare, count) < Never => v < Never)
    BY <1>1, NextCompareRange
  <2>2. Ahead(compare, count) \in Nat
    BY <1>1, AheadNat
  <2> HIDE DEF v
  <2> QED
    BY <2>1, <2>2, HalfFacts
<1> HIDE DEF blank, v
<1>7. /\ a \in SystemTimers /\ Good(a) /\ ~a.endless /\ a.overtaken = {}
      /\ Floor(a, 0) /\ FarNever(a, compare, count) /\ a.Timer >= 0
  <2>1. FarNever(blank, compare, count)
    BY <1>4, TimerNames DEF FarNever
  <2> QED
    BY <1>1, <1>4, <1>5, <2>1, TimerNames, ChangeReturns, Zenon
<1> HIDE DEF a
<1>8. a.Active[ViTimer] /\ (\A x \in TimerType : InRange(a, x))
      /\ (\A x \in ArmedIn(a) : Remaining(a)[x] >= 0)
  BY <1>7, GoodReady DEF Ready, Floor
<1>9. /\ b \in SystemTimers /\ Good(b) /\ ~b.endless /\ b.overtaken = {}
      /\ Floor(b, 0) /\ FarNever(b, compare, count) /\ b.Timer >= 0
  BY <1>1, <1>6, <1>7, <1>8, TimerNames, ChangeReturns
<1> HIDE DEF b
<1>10. b.Active[ViTimer] /\ (\A x \in TimerType : InRange(b, x))
       /\ (\A x \in ArmedIn(b) : Remaining(b)[x] >= 0)
  BY <1>9, GoodReady DEF Ready, Floor
<1>11. ~timers.endless /\ timers.overtaken = {} /\ Floor(timers, 0)
  <2>1. CASE ai = 0
    <3>1. timers = SetTimer(b, AiTimer, 0) /\ 0 \in Int32
      BY <1>3, <2>1, HalfFacts DEF ChangeTimer, Int32
    <3>2. /\ timers.endless = b.endless
          /\ timers.overtaken = b.overtaken \ {AiTimer}
      BY <1>9, <3>1, TimerNames, SetTimerTyped
    <3>3. Floor(timers, 0)
      BY <1>9, <3>1, DisarmSets
    <3> QED
      BY <1>9, <3>2, <3>3
  <2>2. CASE ai # 0
    <3>1. ai \in 1 .. Never /\ ai # Never
      BY <2>2, DelayBounds
    <3> QED
      BY <1>1, <1>3, <1>9, <1>10, <3>1, TimerNames, ChangeReturns
  <2> QED
    BY <2>1, <2>2
<1> QED
  BY <1>1, <1>11 DEF Sound, TimersInv

(* For every word size and all delays far below half a turn: the           *)
(* delta-encoded timers of cpu.c keep the promises of Deadlines, until     *)
(* they go astray.  Each poll serves the timer that was due first, if one  *)
(* is due; VI runs in step with the times at which it was due; what the    *)
(* program does to one timer does not move another.                        *)
THEOREM KeepsDeadlines == Spec => ImplementsDeadlines
<1>1. Init => Promise!DeadlinesInit
  <2> SUFFICES ASSUME Init PROVE Promise!DeadlinesInit
    OBVIOUS
  <2>1. timers \in SystemTimers /\ Sound /\ Floor(timers, 0) /\ atJump = FALSE
    BY InitInv, LoadedSound DEF TimersInv, TypeOK, Init
  <2>2. Armed \subseteq TimerType /\ Promise!Clock = TimerType
    BY PromiseClock DEF Armed
  <2>3. \A u \in Armed : Left(u) \in Int /\ Left(u) >= 0
    BY <2>1, <2>2, ArmedLeft, RemainingInt DEF Floor
  <2>4. ViTimer \in Armed
    BY <2>1, InitInv, InvEarliest DEF EarliestFirst, Sound
  <2> QED
    BY <2>1, <2>2, <2>3, <2>4 DEF Promise!DeadlinesInit
<1>2. FarInv /\ [Next]_vars =>
        [Promise!DeadlinesNext]_(Promise!deadlineVars)
  <2> SUFFICES ASSUME FarInv, [Next]_vars
               PROVE  Promise!DeadlinesNext \/ UNCHANGED Promise!deadlineVars
    OBVIOUS
  <2>1. CASE Instruction
    BY <2>1, InstructionRuns
  <2>2. CASE FetchMiss
    BY <2>2, FetchMissRuns
  <2>3. CASE NotExpired
    BY <2>3, PollPasses
  <2>4. CASE Poll /\ ~NotExpired
    BY <2>4, PollFires
  <2>5. CASE Halted \/ UNCHANGED vars
    <3>1. timers' = timers /\ atJump' = atJump
      BY <2>5 DEF Halted, vars
    <3> QED
      BY <3>1 DEF Promise!deadlineVars, Armed, Left, Sound
  <2> QED
    BY <2>1, <2>2, <2>3, <2>4, <2>5 DEF Next
<1> QED
  BY <1>1, <1>2, InitFar, NextFar, PTL
  DEF Spec, ImplementsDeadlines, Promise!Deadlines
-----------------------------------------------------------------------------
(* The deadline of Compare and COUNT.                                      *)
DriftAt(r, a) == Unsigned(Unsigned(r - a))

LEMMA DriftMoves ==
    ASSUME NEW r \in Int32, NEW k \in Word, NEW c \in Word, NEW n \in 0 .. Half,
           r - n \in Int32
    PROVE  /\ Unsigned(c + n) \in Word
           /\ DriftAt(r - n, Ahead(k, Unsigned(c + n)))
                 = DriftAt(r, Ahead(k, c))
<1> DEFINE x == Unsigned(c + n)
           a == Ahead(k, c)
           b == Ahead(k, x)
<1>1. x \in Int /\ 0 <= x /\ x < 2 * Half
      /\ (x = c + n \/ x = c + n - 2 * Half)
  BY HalfFacts DEF Unsigned, Word
<1>2. x \in Word
  BY <1>1, HalfFacts DEF Word
<1> HIDE DEF x
<1>3. a \in Int /\ 0 <= a /\ a < 2 * Half /\ (a = k - c \/ a = k - c + 2 * Half)
  BY HalfFacts DEF Ahead, Unsigned, Word
<1>4. b \in Int /\ 0 <= b /\ b < 2 * Half /\ (b = k - x \/ b = k - x + 2 * Half)
  BY <1>1, HalfFacts DEF Ahead, Unsigned, Word
<1> HIDE DEF a, b
<1>5. b = a - n \/ b = a - n + 2 * Half
  BY <1>1, <1>3, <1>4, HalfFacts DEF Word
<1>6. DriftAt(r - n, b) = DriftAt(r, a)
  BY <1>3, <1>4, <1>5, HalfFacts DEF DriftAt, Unsigned, Int32
<1> QED
  BY <1>2, <1>6 DEF x, a, b

LEMMA DriftSet ==
    ASSUME NEW k \in Word, NEW c \in Word, NextCompare(k, c) # Never
    PROVE  DriftAt(NextCompare(k, c), Ahead(k, c)) \in {0, 1}
<1> DEFINE a == Ahead(k, c)
<1>1. a \in Nat
  BY AheadNat
<1>2. a < Half /\ NextCompare(k, c) = IF a = 0 THEN 1 ELSE a
  BY <1>1, HalfFacts DEF NextCompare
<1> HIDE DEF a
<1>3. DriftAt(IF a = 0 THEN 1 ELSE a, a) \in {0, 1}
  BY <1>1, <1>2, HalfFacts DEF DriftAt, Unsigned
<1> QED
  BY <1>2, <1>3 DEF a

(* While Compare is armed it is x away from COUNT, or has just been set.   *)
Drifts(q, k, c, x) ==
    CompareTimer \in ArmedIn(q) =>
        DriftAt(Remaining(q)[CompareTimer], Ahead(k, c)) \in {x, 0, 1}

LEMMA ReadyFloor ==
    ASSUME NEW q \in SystemTimers, Ready(q)
    PROVE  Floor(q, -MaxOvershoot)
BY HalfFacts DEF Floor, ArmedIn, Ready, InRange, InWindow

LEMMA CheckDrifts ==
    ASSUME NEW q \in SystemTimers, Ready(q),
           NEW k \in Word, NEW c \in Word, NEW x, Drifts(q, k, c, x)
    PROVE  Drifts(CheckTimer(q, k, c), k, c, x)
<1> DEFINE z == CheckTimer(q, k, c)
           u == CompareTimer
<1> SUFFICES ASSUME u \in ArmedIn(z)
             PROVE  DriftAt(Remaining(z)[u], Ahead(k, c)) \in {x, 0, 1}
  BY DEF Drifts
<1>1. -MaxOvershoot \in Int /\ -MaxOvershoot <= 0 /\ Floor(q, -MaxOvershoot)
  BY ReadyFloor, HalfFacts
<1>2. CASE KeptFrom(q, z, u, 0)
  <2>1. u \in ArmedIn(q) /\ Remaining(z)[u] = Remaining(q)[u] - 0
    BY <1>2 DEF KeptFrom
  <2>2. Remaining(q)[u] \in Int
    BY TimerNames, RemainingInt
  <2>3. Remaining(z)[u] = Remaining(q)[u]
    <3> HIDE DEF z, u
    <3> QED
      BY <2>1, <2>2
  <2> QED
    BY <2>1, <2>3 DEF Drifts
<1>3. CASE ~KeptFrom(q, z, u, 0)
  <2>1. Remaining(z)[u] = NextCompare(k, c) /\ NextCompare(k, c) # Never
    BY <1>1, <1>3, CheckArmed, TimerNames
  <2> QED
    BY <2>1, DriftSet
<1> QED
  BY <1>2, <1>3

(* Arming Compare puts it on COUNT. *)
LEMMA ChangeCompareDrifts ==
    ASSUME NEW q \in SystemTimers, q.Active[ViTimer],
           \A u \in TimerType \ {CompareTimer} : InRange(q, u),
           NEW k \in Word, NEW c \in Word, NEW x
    PROVE  Drifts(ChangeCompareTimer(q, k, c), k, c, x)
<1> DEFINE v == NextCompare(k, c)
           s == SetTimer(q, CompareTimer, v)
           z == CheckTimer(s, k, c)
           u == CompareTimer
<1>1. v \in 1 .. Never
  BY NextCompareRange
<1>2. ChangeCompareTimer(q, k, c) = z
  BY <1>1, HalfFacts DEF ChangeCompareTimer, ChangeTimer
<1>3. s \in SystemTimers /\ Ready(s)
  BY <1>1, TimerNames, SetTimerReady
<1>4. u \in ArmedIn(s) => Remaining(s)[u] = v
  BY <1>1, TimerNames, SetTimerRemaining DEF ArmedIn
<1> HIDE DEF s
<1>5. Good(z)
  BY <1>3, CheckTimerGood
<1> SUFFICES ASSUME u \in ArmedIn(z)
             PROVE  DriftAt(Remaining(z)[u], Ahead(k, c)) \in {x, 0, 1}
  BY <1>2 DEF Drifts
<1>6. Remaining(z)[u] < Never
  BY <1>5 DEF Good, Remaining, ArmedIn
<1>7. -MaxOvershoot \in Int /\ -MaxOvershoot <= 0 /\ Floor(s, -MaxOvershoot)
  BY <1>3, ReadyFloor, HalfFacts
<1>8. Remaining(z)[u] = v
  <2>1. CASE KeptFrom(s, z, u, 0)
    <3>1. Remaining(z)[u] = v - 0
      BY <1>4, <2>1 DEF KeptFrom
    <3> HIDE DEF z, v, u
    <3> QED
      BY <1>1, <3>1
  <2>2. CASE ~KeptFrom(s, z, u, 0)
    BY <1>3, <1>7, <2>2, CheckArmed, TimerNames
  <2> QED
    BY <2>1, <2>2
<1>9. v # Never
  BY <1>6, <1>8, HalfFacts
<1> HIDE DEF z
<1> QED
  BY <1>8, <1>9, DriftSet

LEMMA ChangeDrifts ==
    ASSUME NEW q \in SystemTimers, NEW t \in TimerType \ {CompareTimer},
           NEW v \in 1 .. Never, v # Never, t = ViTimer \/ q.Active[ViTimer],
           \A u \in TimerType \ {t} : InRange(q, u),
           NEW k \in Word, NEW c \in Word, NEW x, Drifts(q, k, c, x)
    PROVE  Drifts(ChangeTimer(q, t, v, k, c), k, c, x)
<1> DEFINE s == SetTimer(q, t, v)
<1>1. s \in SystemTimers /\ Ready(s)
  BY SetTimerReady
<1>2. /\ CompareTimer \in ArmedIn(s) <=> CompareTimer \in ArmedIn(q)
      /\ Remaining(s)[CompareTimer] = Remaining(q)[CompareTimer]
  BY TimerNames, SetTimerRemaining DEF ArmedIn
<1>3. ChangeTimer(q, t, v, k, c) = CheckTimer(s, k, c)
  BY HalfFacts DEF ChangeTimer
<1> HIDE DEF s
<1>4. Drifts(s, k, c, x)
  BY <1>2 DEF Drifts
<1> QED
  BY <1>1, <1>3, <1>4, CheckDrifts

(* Outside of WaitMode a tick moves the deadline and COUNT alike.          *)
LEMMA DownDrifts ==
    ASSUME FarInv, Sound, ~waitMode, NEW n \in 0 .. 2,
           Down(n).Timer >= -MaxOvershoot
    PROVE  Drifts(Down(n), compare, Unsigned(count + n), Drift)
<1> DEFINE T == Down(n)
           u == CompareTimer
<1>1. TimersInv /\ timers \in SystemTimers /\ count \in Word /\ compare \in Word
  BY DEF FarInv, TimersInv, TypeOK
<1>2. T.overtaken = {} /\ T.Timer = timers.Timer - n /\ T \in SystemTimers
  BY <1>1, DownRemaining, DownGood
<1>3. timers.Timer \in Int
  BY TimerBounds
<1>4. KeptFrom(timers, T, u, n)
  <2>1. PICK d \in -MaxOvershoot .. Half :
          /\ d = timers.Timer - T.Timer
          /\ \A x \in TimerType \ T.overtaken : KeptFrom(timers, T, x, d)
    BY DownKept
  <2>2. d = n
    <3> HIDE DEF T
    <3> QED
      BY <1>2, <1>3, <2>1
  <2> QED
    BY <1>2, <2>1, <2>2, TimerNames
<1> HIDE DEF T
<1> SUFFICES ASSUME u \in ArmedIn(T)
             PROVE  DriftAt(Remaining(T)[u],
                            Ahead(compare, Unsigned(count + n))) = Drift
  BY DEF Drifts, T
<1>5. u \in ArmedIn(timers) /\ Remaining(T)[u] = Remaining(timers)[u] - n
  BY <1>4 DEF KeptFrom
<1>6. Remaining(timers)[u] \in Int32 /\ Remaining(T)[u] \in Int32
  BY <1>1, <1>2, TimerNames, RemainingWord
<1>7. n \in 0 .. Half
  BY HalfFacts
<1>8. Drift = DriftAt(Remaining(timers)[u], Ahead(compare, count))
  BY <1>5, ArmedLeft DEF Drift, DriftAt
<1> DEFINE r == Remaining(timers)[u]
<1>9. DriftAt(r - n, Ahead(compare, Unsigned(count + n)))
         = DriftAt(r, Ahead(compare, count))
  BY <1>1, <1>5, <1>6, <1>7, DriftMoves
<1> QED
  BY <1>5, <1>8, <1>9
LEMMA InstructionDrifts ==
    FarInv /\ Instruction /\ ~waitMode =>
        Drifts(timers', compare', count', Drift)
<1> SUFFICES ASSUME FarInv, Instruction, ~waitMode
             PROVE  Drifts(timers', compare', count', Drift)
  OBVIOUS
<1>1. Fetch /\ Sound
  BY DEF Instruction, Plain, Break, MoveToCompare, MoveToCount, AiLenChanged,
         StartDma, InPermLoop, Fetch
<1> DEFINE T == Ticked
<1>2. T = Down(2) /\ 2 \in 0 .. 2 /\ Down(2).Timer >= -MaxOvershoot
  BY <1>1 DEF Fetch, Ticked
<1>3. TimersInv /\ count \in Word /\ compare \in Word
  BY DEF FarInv, TimersInv, TypeOK
<1>4. T \in SystemTimers /\ Good(T) /\ Ready(T) /\ T.Active[ViTimer]
  <2>1. Down(2).overtaken = {}
    BY <1>1, <1>2, <1>3, DownRemaining
  <2> QED
    BY <1>1, <1>2, <1>3, <2>1, DownGood, GoodReady
<1>5. TickedCount \in Word
  BY <1>3, HalfFacts DEF TickedCount, Unsigned, Word
<1>6. Drifts(T, compare, TickedCount, Drift)
  BY <1>1, <1>2, DownDrifts DEF TickedCount
<1> HIDE DEF T
<1>7. ASSUME NEW k \in Word, NEW c \in Word
      PROVE  Drifts(ChangeCompareTimer(T, k, c), k, c, Drift)
  BY <1>4, ChangeCompareDrifts DEF Ready
<1>8. CASE Plain \/ Break
  BY <1>6, <1>8 DEF Plain, Break, T
<1>9. CASE MoveToCompare
  <2>1. PICK v \in CompareWrites :
          compare' = v /\ timers' = ChangeCompareTimer(T, v, TickedCount)
          /\ count' = TickedCount
    BY <1>9 DEF MoveToCompare, T
  <2>2. v \in Word
    BY TimersAssumption
  <2> QED
    BY <1>5, <1>7, <2>1, <2>2
<1>10. CASE MoveToCount
  <2>1. PICK v \in CountWrites :
          count' = v /\ timers' = ChangeCompareTimer(T, compare, v)
          /\ compare' = compare
    BY <1>10 DEF MoveToCount, T
  <2>2. v \in Word
    BY TimersAssumption
  <2> QED
    BY <1>3, <1>7, <2>1, <2>2
<1>11. CASE AiLenChanged
  <2>1. PICK e \in AiDelays :
          /\ timers' = ChangeTimer(T, AiTimer, e, compare, TickedCount)
          /\ compare' = compare /\ count' = TickedCount
    BY <1>11 DEF AiLenChanged, T
  <2>2. e \in 1 .. Never /\ e # Never
    BY DelayBounds
  <2>3. AiTimer \in TimerType \ {CompareTimer}
    BY TimerNames
  <2>4. \A u \in TimerType \ {AiTimer} : InRange(T, u)
    BY <1>4 DEF Ready
  <2> QED
    BY <1>3, <1>4, <1>5, <1>6, <2>1, <2>2, <2>3, <2>4, ChangeDrifts
<1>12. CASE StartDma
  <2>1. /\ timers' = CheckTimer(T, compare, TickedCount)
        /\ compare' = compare /\ count' = TickedCount
    BY <1>12 DEF StartDma, T
  <2> QED
    BY <1>3, <1>4, <1>5, <1>6, <2>1, CheckDrifts
<1>13. CASE InPermLoop /\ T.Timer >= 0
  <2> DEFINE o == T.Timer
             u == CompareTimer
             s == [T EXCEPT !.Timer = -1]
  <2>1. timers' = s /\ compare' = compare
        /\ count' = Unsigned(TickedCount + o + 1)
    BY <1>13 DEF InPermLoop, T
  <2>2. s.Active = T.Active /\ s.NextTimer = T.NextTimer /\ s.Timer = -1
    BY <1>4 DEF SystemTimers
  <2>3. o \in Int /\ o >= 0 /\ o < Never
    BY <1>4, <1>13, HalfFacts DEF Good, InWindow, SystemTimers, Int32
  <2> SUFFICES ASSUME u \in ArmedIn(s)
               PROVE  DriftAt(Remaining(s)[u], Ahead(compare, count'))
                         \in {Drift, 0, 1}
    BY <2>1 DEF Drifts
  <2>4. u \in ArmedIn(T) /\ u \in TimerType
    BY <2>2 DEF ArmedIn, Frozen
  <2>5. /\ Remaining(T)[u] = Signed(T.NextTimer[u] + o)
        /\ Remaining(s)[u] = Signed(T.NextTimer[u] + -1)
        /\ o <= Remaining(T)[u] /\ Remaining(T)[u] < Never
    BY <1>4, <2>2, <2>4 DEF Remaining, ArmedIn, Frozen, Good
  <2>6. Remaining(T)[u] \in Int32 /\ T.NextTimer[u] \in Int32
    BY <1>4, <2>4, RemainingWord DEF SystemTimers
  <2> DEFINE r == Remaining(T)[u]
             x == T.NextTimer[u]
             n == o + 1
  <2>7. n \in 0 .. Half /\ r - n \in Int32 /\ Remaining(s)[u] = r - n
    <3>1. /\ r \in Int32 /\ x \in Int32 /\ r = Signed(x + o)
          /\ Remaining(s)[u] = Signed(x + -1) /\ o <= r /\ r < Never
      BY <2>5, <2>6
    <3> HIDE DEF r, x, o
    <3>2. n \in 0 .. Half /\ r - n \in Int32
      BY <2>3, <3>1, HalfFacts DEF Int32
    <3>3. Signed(x + -1) = r - n
      BY <2>3, <3>1, HalfFacts DEF Signed, Int32
    <3> QED
      BY <3>1, <3>2, <3>3
  <2>8. count' = Unsigned(TickedCount + n)
    <3> HIDE DEF o
    <3>1. TickedCount + o + 1 = TickedCount + (o + 1)
      BY <1>5, <2>3, AheadNat, <1>3
    <3> QED
      BY <2>1, <3>1
  <2>9. DriftAt(r - n, Ahead(compare, Unsigned(TickedCount + n)))
           = DriftAt(r, Ahead(compare, TickedCount))
    BY <1>3, <1>5, <2>6, <2>7, DriftMoves
  <2>10. DriftAt(r, Ahead(compare, TickedCount)) \in {Drift, 0, 1}
    BY <1>6, <2>4 DEF Drifts
  <2> QED
    BY <2>7, <2>8, <2>9, <2>10
<1>14. CASE InPermLoop /\ ~(T.Timer >= 0)
  BY <1>6, <1>14 DEF InPermLoop, T
<1> QED
  BY <1>8, <1>9, <1>10, <1>11, <1>12, <1>13, <1>14 DEF Instruction

LEMMA PollDrifts ==
    FarInv /\ Poll => Drifts(timers', compare', count', Drift)
<1> SUFFICES ASSUME FarInv, Poll
             PROVE  Drifts(timers', compare', count', Drift)
  OBVIOUS
<1>1. Sound /\ count' = count /\ compare' = compare
  BY DEF Poll, NotExpired, CompareDone, ViDone, AiDone, Expired
<1>2. /\ timers \in SystemTimers /\ Good(timers) /\ Ready(timers)
      /\ timers.Active[ViTimer] /\ count \in Word /\ compare \in Word
  BY <1>1, GoodReady DEF FarInv, TimersInv, TypeOK, Sound, Ready
<1>3. Drifts(timers, compare, count, Drift)
  BY ArmedLeft DEF Drifts, Drift, DriftAt
<1>4. ASSUME NEW s \in SystemTimers, Ready(s),
             Drifts(s, compare, count, Drift),
             timers' = CheckTimer(s, compare, count)
      PROVE  Drifts(timers', compare, count, Drift)
  BY <1>2, <1>4, CheckDrifts
<1>5. Drifts(timers', compare, count, Drift)
  <2>1. CASE NotExpired
    BY <1>3, <2>1 DEF NotExpired
  <2>2. CASE CompareDone
    <3> DEFINE s == ChangeCompareTimer(timers, compare, count)
    <3>1. timers' = CheckTimer(s, compare, count)
      BY <2>2 DEF CompareDone
    <3>2. s \in SystemTimers /\ Ready(s)
      BY <1>2, ChangeCompareTimerGood, GoodReady DEF Ready
    <3>3. Drifts(s, compare, count, Drift)
      BY <1>2, ChangeCompareDrifts DEF Ready
    <3> HIDE DEF s
    <3> QED
      BY <1>4, <3>1, <3>2, <3>3
  <2>3. CASE ViDone
    <3>1. PICK period \in ViDelays :
            timers' = CheckTimer(
                          ChangeTimer(timers, ViTimer,
                              Signed(Signed(timers.Timer
                                            + timers.NextTimer[ViTimer])
                                     + period), compare, count),
                          compare, count)
      BY <2>3 DEF ViDone
    <3> DEFINE f == timers.Timer
               due == Signed(Signed(timers.Timer + timers.NextTimer[ViTimer])
                             + period)
               s == ChangeTimer(timers, ViTimer, due, compare, count)
    <3>2. /\ timers.NextTimer[ViTimer] = 0
          /\ f \in Int /\ f < 0 /\ f >= -MaxOvershoot
      BY <1>1, <1>2, <2>3, TimerBounds DEF ViDone, Expired, Good
    <3>3. due \in 1 .. Never /\ due # Never
      <4>1. period \in Nat /\ period > MaxOvershoot
            /\ period + 2 * MaxOvershoot < Half
        BY HalfFacts
      <4>2. due = Signed(Signed(f + 0) + period)
        BY <3>2
      <4> HIDE DEF due, f
      <4>3. Signed(Signed(f + 0) + period) = f + period
        BY <3>2, <4>1, HalfFacts DEF Signed
      <4> QED
        BY <3>2, <4>1, <4>2, <4>3, HalfFacts
    <3>4. timers' = CheckTimer(s, compare, count)
      BY <3>1
    <3> HIDE DEF due
    <3>5. /\ \A x \in TimerType \ {ViTimer} : InRange(timers, x)
          /\ ViTimer \in TimerType \ {CompareTimer}
      BY <1>2, TimerNames DEF Ready
    <3>6. s \in SystemTimers /\ Ready(s)
      BY <1>2, <3>3, <3>5, TimerNames, ChangeTimerGood, GoodReady
    <3>7. Drifts(s, compare, count, Drift)
      BY <1>2, <1>3, <3>3, <3>5, ChangeDrifts
    <3> HIDE DEF s
    <3> QED
      BY <1>4, <3>4, <3>6, <3>7
  <2>4. CASE AiDone
    <3> DEFINE s == SetTimer(timers, AiTimer, 0)
    <3>1. timers' = CheckTimer(s, compare, count)
      BY <2>4 DEF AiDone, ChangeTimer
    <3>2. s \in SystemTimers /\ Ready(s)
      BY <1>2, TimerNames, SetTimerOffReady
    <3>3. 0 \in Int32
      BY HalfFacts DEF Int32
    <3>4. /\ s.Timer = timers.Timer
          /\ s.NextTimer[CompareTimer] = timers.NextTimer[CompareTimer]
          /\ s.Active[CompareTimer] = timers.Active[CompareTimer]
      BY <1>2, <3>3, TimerNames, SetTimerTyped
    <3> HIDE DEF s
    <3>5. Drifts(s, compare, count, Drift)
      BY <1>3, <3>4, TimerNames DEF Drifts, ArmedIn, Frozen, Remaining
    <3> QED
      BY <1>4, <3>1, <3>2, <3>5
  <2> QED
    BY <2>1, <2>2, <2>3, <2>4 DEF Poll
<1> QED
  BY <1>1, <1>5

LEMMA FetchMissDrifts ==
    FarInv /\ FetchMiss /\ ~waitMode => Drifts(timers', compare', count', Drift)
<1> SUFFICES ASSUME FarInv, FetchMiss, ~waitMode
             PROVE  Drifts(timers', compare', count', Drift)
  OBVIOUS
<1>1. /\ Sound /\ timers' = Down(0) /\ count' = count /\ compare' = compare
  BY DEF FetchMiss
<1>2. timers \in SystemTimers /\ count \in Word
  BY DEF FarInv, TimersInv, TypeOK
<1>3. Down(0).Timer = timers.Timer - 0
  BY <1>2 DEF Down, SystemTimers
<1>4. Down(0).Timer >= -MaxOvershoot /\ 0 \in 0 .. 2
  BY <1>1, <1>3, TimerBounds
<1>5. Unsigned(count + 0) = count
  BY <1>2, HalfFacts DEF Unsigned, Word
<1>6. Drifts(Down(0), compare, Unsigned(count + 0), Drift)
  BY <1>1, <1>4, DownDrifts
<1> QED
  BY <1>1, <1>5, <1>6

(* For every word size and all delays far below half a turn, nothing but   *)
(* WaitMode (BREAK) lets the deadline of Compare drift from COUNT.         *)
THEOREM NoDrift == Spec => NoDriftOutsideWait
<1>1. FarInv /\ [Next]_vars =>
        [(CompareTimer \in Armed /\ CompareTimer \in Armed' /\ ~waitMode)
            => Drift' \in {Drift, 0, 1}]_vars
  <2> SUFFICES ASSUME FarInv, Next, CompareTimer \in Armed,
                      CompareTimer \in Armed', ~waitMode
               PROVE  Drift' \in {Drift, 0, 1} \/ UNCHANGED vars
    OBVIOUS
  <2>1. ASSUME Drifts(timers', compare', count', Drift)
        PROVE  Drift' \in {Drift, 0, 1}
    <3>1. /\ Armed' = ArmedIn(timers')
          /\ \A u \in Armed' : Left(u)' = Remaining(timers')[u]
      BY DEF Armed, ArmedIn, Left, Remaining
    <3>2. Drift' = DriftAt(Left(CompareTimer)', Ahead(compare', count'))
      BY DEF Drift, DriftAt, Left, Ahead, Unsigned, Signed
    <3> QED
      BY <2>1, <3>1, <3>2 DEF Drifts
  <2>2. CASE Instruction
    BY <2>1, <2>2, InstructionDrifts
  <2>3. CASE Poll
    BY <2>1, <2>3, PollDrifts
  <2>4. CASE FetchMiss
    BY <2>1, <2>4, FetchMissDrifts
  <2>5. CASE Halted
    BY <2>5 DEF Halted
  <2> QED
    BY <2>2, <2>3, <2>4, <2>5 DEF Next
<1> QED
  BY <1>1, InitFar, NextFar, PTL DEF Spec, NoDriftOutsideWait
=============================================================================
