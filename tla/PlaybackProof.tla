----------------------------- MODULE PlaybackProof ---------------------------
(***************************************************************************)
(* Proofs about Playback: the volume stays in range and tracks end neither *)
(* early nor late, whenever signals arrive.                                *)
(***************************************************************************)
EXTENDS Playback, TLAPS

Base == IF skipped THEN track ELSE 0

Finished == phase \in {"running", "closed"} /\ ~running
Live == phase \in {"loaded", "opening"} \/ (phase = "running" /\ running)

(* Before the track is played, and after it has ended. *)
Fresh ==
    phase \in {"loaded", "opening"} =>
        at = "program" /\ since = 0 /\ ~busy /\ ~full /\ (phase = "loaded" => ~lost)

Done == Finished => at \in {"program", "schedule"} /\ ~Forever(track)

(* play_time is what has been played since the last signal; while it is    *)
(* being changed the sum is.                                               *)
Counts(p) == p >= Base + since /\ (since = Enough \/ p = Base + since)

Counting == Live /\ ~lost => Counts(IF at = "store" THEN sum ELSE play)

(* What AddBuffer begins with has not passed the end. *)
NotOver == Live /\ ~Forever(track) /\ at \notin {"store", "end"} => play <= track + fade

FadingPoint ==
    at = "volume" =>
        /\ ~Forever(track)
        /\ track < seen /\ seen <= track + fade
        /\ play \in {seen, track}

PlayedOut ==
    Finished /\ ~lost /\ track + fade < Word =>
        since > (IF skipped THEN 0 ELSE track) + (IF fades THEN fade ELSE 0)

BusyHasTimer == busy \/ full => armed \/ hollow

Closed == phase = "closed" => ~running

PlaybackInv ==
    /\ TypeOK /\ Fresh /\ Done /\ Counting /\ NotOver /\ FadingPoint /\ PlayedOut
    /\ BusyHasTimer /\ Closed /\ VolumeInRange /\ SignalsHeeded

(* What the proofs use of the words. *)
LEMMA ClearForeverFacts ==
  ASSUME NEW t \in 0 .. Word - 1
  PROVE  /\ ClearForever(t) \in 0 .. Word - 1 /\ ~Forever(ClearForever(t))
         /\ ~Forever(t) => ClearForever(t) = t
<1>1. t \in Nat /\ Half \in Nat /\ Half > 0 /\ Word = 2 * Half
  BY PlaybackAssumption
<1> HIDE DEF Half
<1>2. t % Half \in 0 .. Half - 1 /\ (t < Half => t % Half = t)
  BY <1>1
<1> QED
  BY <1>1, <1>2 DEF ClearForever, Forever

LEMMA OverFacts ==
  ASSUME TypeOK
  PROVE  /\ ~Over /\ ~Forever(track) => play <= track + fade
         /\ Over => ~Forever(track)
         /\ Over /\ track + fade < Word => play > track + fade
<1> DEFINE n == track + fade
<1>1. n \in Nat /\ play \in Nat /\ Word \in Nat /\ Word > 0
  BY PlaybackAssumption DEF TypeOK
<1>2. Over <=> ~Forever(track) /\ play > n % Word
  BY DEF Over
<1> HIDE DEF n
<1>3. n % Word <= n /\ (n < Word => n % Word = n) /\ n % Word \in Nat
  BY <1>1
<1> QED
  BY <1>1, <1>2, <1>3 DEF n

(* The type, with the flags apart from the numbers. *)
Flags ==
    /\ running \in BOOLEAN /\ fades \in BOOLEAN /\ oneShot \in BOOLEAN
    /\ busy \in BOOLEAN /\ full \in BOOLEAN /\ armed \in BOOLEAN /\ hollow \in BOOLEAN
    /\ firstTime \in BOOLEAN /\ skipped \in BOOLEAN /\ lost \in BOOLEAN
    /\ scrambled \in BOOLEAN
    /\ swapped \subseteq Buffers /\ handled \subseteq {SigUsr1, SigInt}
    /\ buffer \in [addr : Buffers, ms : 0 .. Longest]

Numbers ==
    /\ phase \in {"loaded", "opening", "running", "closed", "exited"}
    /\ at \in {"program", "fade", "volume", "output", "load", "store", "end", "schedule"}
    /\ play \in Nat /\ since \in Nat /\ sum \in Nat /\ seen \in Nat
    /\ track \in 0 .. Word - 1 /\ fade \in 0 .. Word - 1
    /\ past \in Int /\ signals \in Nat

LEMMA TypeParts == (TypeOK <=> Flags /\ Numbers) /\ (TypeOK' <=> Flags' /\ Numbers')
  BY DEF TypeOK, Flags, Numbers

LEMMA InitInv == Init => PlaybackInv
<1> SUFFICES ASSUME Init PROVE PlaybackInv
  OBVIOUS
<1>1. TypeOK
  <2>1. Flags
    <3>1. buffer \in [addr : Buffers, ms : 0 .. Longest]
      <4>1. 0 \in 0 .. Longest
        BY PlaybackAssumption
      <4> QED
        BY <4>1 DEF Init
    <3> QED
      BY <3>1 DEF Init, Flags
  <2>2. Numbers
    BY PlaybackAssumption DEF Init, Numbers, NoFade
  <2> QED
    BY <2>1, <2>2, TypeParts
<1>2. PlaybackInv
  BY <1>1, PlaybackAssumption
     DEF PlaybackInv, Init, Fresh, Done, Counting, Counts, Base, NotOver, FadingPoint,
         PlayedOut, BusyHasTimer, Closed, VolumeInRange, SignalsHeeded, Live,
         Finished, TypeOK, NoFade
<1> QED
  BY <1>2

LEMMA NextInv == PlaybackInv /\ [Next]_vars => PlaybackInv'
<1> SUFFICES ASSUME PlaybackInv, [Next]_vars PROVE PlaybackInv'
  OBVIOUS
<1> USE DEF settings, signalled, device, adding, samples
<1>1. TypeOK
  BY DEF PlaybackInv
<1>2. CASE Play
  <2>1. TypeOK'
    BY <1>1, <1>2, PlaybackAssumption DEF TypeOK, Play
  <2>2. Fresh' /\ Done' /\ Counting'
    BY <1>2
       DEF PlaybackInv, Play, Fresh, Done, Counting, Counts, Base, Finished
  <2>3. NotOver' /\ FadingPoint' /\ PlayedOut'
    BY <1>2
       DEF PlaybackInv, TypeOK, Play, Fresh, NotOver, FadingPoint, PlayedOut, Finished
  <2>4. BusyHasTimer' /\ Closed' /\ VolumeInRange' /\ SignalsHeeded'
    BY <1>2
       DEF PlaybackInv, Play, BusyHasTimer, Closed, VolumeInRange, SignalsHeeded
  <2> QED
    BY <2>1, <2>2, <2>3, <2>4 DEF PlaybackInv
<1>3. CASE Open
  <2>1. TypeOK'
    <3>1. Flags'
      BY <1>1, <1>3, TypeParts, Zenon DEF Flags, Open
    <3>2. Numbers'
      BY <1>1, <1>3, TypeParts, PlaybackAssumption DEF Numbers, Open
    <3> QED
      BY <3>1, <3>2, TypeParts
  <2>2. Fresh' /\ Done' /\ Counting'
    BY <1>3
       DEF PlaybackInv, Open, Fresh, Done, Counting, Counts, Base, Live, Finished
  <2>3. NotOver' /\ FadingPoint' /\ PlayedOut'
    BY <1>3
       DEF PlaybackInv, Open, NotOver, FadingPoint, PlayedOut, Live, Finished
  <2>4. BusyHasTimer' /\ Closed' /\ VolumeInRange' /\ SignalsHeeded'
    BY <1>3, PlaybackAssumption
       DEF PlaybackInv, Open, BusyHasTimer, Closed, VolumeInRange, SignalsHeeded
  <2> QED
    BY <2>1, <2>2, <2>3, <2>4 DEF PlaybackInv
<1>4. CASE OpenFails
  <2>1. TypeOK'
    <3>1. Flags'
      BY <1>1, <1>4, TypeParts, Zenon DEF Flags, OpenFails
    <3>2. Numbers'
      BY <1>1, <1>4, TypeParts, PlaybackAssumption DEF Numbers, OpenFails
    <3> QED
      BY <3>1, <3>2, TypeParts
  <2>2. Fresh' /\ Done' /\ Counting'
    BY <1>4
       DEF PlaybackInv, OpenFails, Fresh, Done, Counting, Live, Finished
  <2>3. NotOver' /\ FadingPoint' /\ PlayedOut'
    BY <1>4
       DEF PlaybackInv, OpenFails, NotOver, FadingPoint, PlayedOut, Live, Finished
  <2>4. BusyHasTimer' /\ Closed' /\ VolumeInRange' /\ SignalsHeeded'
    BY <1>4
       DEF PlaybackInv, OpenFails, BusyHasTimer, Closed, VolumeInRange, SignalsHeeded
  <2> QED
    BY <2>1, <2>2, <2>3, <2>4 DEF PlaybackInv
<1>5. CASE \E b \in Buffers : Refill(b)
  <2>1. TypeOK'
    BY <1>1, <1>5, PlaybackAssumption DEF TypeOK, Refill
  <2>2. Fresh' /\ Done' /\ Counting'
    BY <1>5
       DEF PlaybackInv, Refill, Fresh, Done, Counting, Counts, Base, Live, Finished
  <2>3. NotOver' /\ FadingPoint' /\ PlayedOut'
    BY <1>5
       DEF PlaybackInv, Refill, NotOver, FadingPoint, PlayedOut, Live, Finished
  <2>4. BusyHasTimer' /\ Closed' /\ VolumeInRange' /\ SignalsHeeded'
    BY <1>5
       DEF PlaybackInv, Refill, BusyHasTimer, Closed, VolumeInRange, SignalsHeeded
  <2> QED
    BY <2>1, <2>2, <2>3, <2>4 DEF PlaybackInv
<1>6. CASE \E b \in Buffers, d \in Durations : Send(b, d)
  <2>1. TypeOK'
    BY <1>1, <1>6, PlaybackAssumption DEF TypeOK, Send
  <2>2. Fresh' /\ Done' /\ Counting'
    BY <1>6
       DEF PlaybackInv, Send, Fresh, Done, Counting, Counts, Base, Live, Finished
  <2>3. NotOver' /\ FadingPoint' /\ PlayedOut'
    BY <1>6
       DEF PlaybackInv, Send, NotOver, FadingPoint, PlayedOut, Live, Finished
  <2>4. BusyHasTimer' /\ Closed' /\ VolumeInRange' /\ SignalsHeeded'
    BY <1>6
       DEF PlaybackInv, Send, BusyHasTimer, Closed, VolumeInRange, SignalsHeeded
  <2> QED
    BY <2>1, <2>2, <2>3, <2>4 DEF PlaybackInv
<1>7. CASE Fade
  <2>1. TypeOK'
    BY <1>1, <1>7, PlaybackAssumption DEF TypeOK, Fade, Adding
  <2>2. Fresh' /\ Done' /\ Counting'
    BY <1>7
       DEF PlaybackInv, Fade, Adding, Fresh, Done, Counting, Counts, Base, Live,
           Finished
  <2>3. NotOver' /\ FadingPoint' /\ PlayedOut'
    BY <1>7, PlaybackAssumption
       DEF PlaybackInv, TypeOK, Fade, Adding, Done, Counting, NotOver, FadingPoint,
           PlayedOut, Counts, Base, Live, Finished, Enough
  <2>4. BusyHasTimer' /\ Closed' /\ VolumeInRange' /\ SignalsHeeded'
    BY <1>7
       DEF PlaybackInv, Fade, BusyHasTimer, Closed, VolumeInRange, SignalsHeeded
  <2> QED
    BY <2>1, <2>2, <2>3, <2>4 DEF PlaybackInv
<1>8. CASE Volume
  <2>1. TypeOK'
    BY <1>1, <1>8, PlaybackAssumption DEF TypeOK, Volume, Adding
  <2>2. Fresh' /\ Done' /\ Counting'
    BY <1>8
       DEF PlaybackInv, Volume, Adding, Fresh, Done, Counting, Counts, Base, Live,
           Finished
  <2>3. NotOver' /\ FadingPoint' /\ PlayedOut'
    BY <1>8
       DEF PlaybackInv, Volume, Adding, NotOver, FadingPoint, PlayedOut, Live, Finished
  <2>4. BusyHasTimer' /\ Closed' /\ VolumeInRange' /\ SignalsHeeded'
    BY <1>8
       DEF PlaybackInv, TypeOK, Volume, Adding, FadingPoint, BusyHasTimer, Closed,
           VolumeInRange, SignalsHeeded
  <2> QED
    BY <2>1, <2>2, <2>3, <2>4 DEF PlaybackInv
<1>9. CASE Output
  <2>1. TypeOK'
    BY <1>1, <1>9, PlaybackAssumption DEF TypeOK, Output, Adding
  <2>2. Fresh' /\ Done' /\ Counting'
    BY <1>9
       DEF PlaybackInv, Output, Adding, Fresh, Done, Counting, Counts, Base, Live,
           Finished
  <2>3. NotOver' /\ FadingPoint' /\ PlayedOut'
    BY <1>9
       DEF PlaybackInv, Output, Adding, NotOver, FadingPoint, PlayedOut, Live, Finished
  <2>4. BusyHasTimer' /\ Closed' /\ VolumeInRange' /\ SignalsHeeded'
    BY <1>9
       DEF PlaybackInv, Output, BusyHasTimer, Closed, VolumeInRange, SignalsHeeded
  <2> QED
    BY <2>1, <2>2, <2>3, <2>4 DEF PlaybackInv
<1>10. CASE Load
  <2>1. TypeOK'
    BY <1>1, <1>10, PlaybackAssumption DEF TypeOK, Load, Adding, Enough
  <2>2. Fresh' /\ Done' /\ Counting'
    BY <1>10, <2>1
       DEF PlaybackInv, TypeOK, Load, Adding, Fresh, Done, Counting, Counts, Base, Live,
           Finished
  <2>3. NotOver' /\ FadingPoint' /\ PlayedOut'
    BY <1>10
       DEF PlaybackInv, Load, Adding, Done, NotOver, FadingPoint, PlayedOut, Finished
  <2>4. BusyHasTimer' /\ Closed' /\ VolumeInRange' /\ SignalsHeeded'
    BY <1>10, <2>1, PlaybackAssumption
       DEF PlaybackInv, TypeOK, Load, Adding, Done, Counting, NotOver, BusyHasTimer,
           Closed, VolumeInRange, SignalsHeeded, Counts, Base, Live, Finished
  <2> QED
    BY <2>1, <2>2, <2>3, <2>4 DEF PlaybackInv
<1>11. CASE Store
  <2>1. TypeOK'
    BY <1>1, <1>11, PlaybackAssumption DEF TypeOK, Store, Adding, Counted
  <2>2. Fresh' /\ Done' /\ Counting'
    BY <1>11
       DEF PlaybackInv, Store, Adding, Counted, Fresh, Done, Counting, Counts, Base,
           Live, Finished
  <2>3. NotOver' /\ FadingPoint' /\ PlayedOut'
    BY <1>11
       DEF PlaybackInv, Store, NotOver, FadingPoint, PlayedOut, Finished
  <2>4. BusyHasTimer' /\ Closed' /\ VolumeInRange' /\ SignalsHeeded'
    BY <1>11
       DEF PlaybackInv, Store, BusyHasTimer, Closed, VolumeInRange, SignalsHeeded
  <2> QED
    BY <2>1, <2>2, <2>3, <2>4 DEF PlaybackInv
<1>12. CASE End
  <2>1. TypeOK'
    BY <1>1, <1>12, PlaybackAssumption DEF TypeOK, End, Adding
  <2>2. Fresh' /\ Done' /\ Counting'
    BY <1>12, OverFacts
       DEF PlaybackInv, End, Adding, Fresh, Done, Counting, Counts, Base, Live, Finished
  <2>3. NotOver' /\ FadingPoint' /\ PlayedOut'
    BY <1>12, PlaybackAssumption, OverFacts
       DEF PlaybackInv, TypeOK, End, Adding, Counting, NotOver, FadingPoint, PlayedOut,
           Counts, Base, Live, Finished, Enough
  <2>4. BusyHasTimer' /\ Closed' /\ VolumeInRange' /\ SignalsHeeded'
    BY <1>12
       DEF PlaybackInv, End, BusyHasTimer, Closed, VolumeInRange, SignalsHeeded
  <2> QED
    BY <2>1, <2>2, <2>3, <2>4 DEF PlaybackInv
<1>13. CASE Schedule
  <2>1. TypeOK'
    BY <1>1, <1>13, PlaybackAssumption DEF TypeOK, Schedule, Adding, NoFade
  <2>2. Fresh' /\ Done' /\ Counting'
    BY <1>13
       DEF PlaybackInv, Schedule, Adding, Fresh, Done, Counting, Counts, Base, Live,
           Finished
  <2>3. NotOver' /\ FadingPoint' /\ PlayedOut'
    BY <1>13
       DEF PlaybackInv, Schedule, Adding, NotOver, FadingPoint, PlayedOut, Live,
           Finished
  <2>4. BusyHasTimer' /\ Closed' /\ VolumeInRange' /\ SignalsHeeded'
    BY <1>1, <1>13, <2>1, PlaybackAssumption
       DEF PlaybackInv, TypeOK, Schedule, Adding, Fresh, Done, Counting, NotOver,
           FadingPoint, PlayedOut, BusyHasTimer, Closed, VolumeInRange, SignalsHeeded,
           Counts, Base, Live, Finished, Forever, Enough, NoFade
  <2> QED
    BY <2>1, <2>2, <2>3, <2>4 DEF PlaybackInv
<1>14. CASE AiDone
  <2>1. TypeOK'
    BY <1>1, <1>14, PlaybackAssumption DEF TypeOK, AiDone, Emptied
  <2>2. Fresh' /\ Done' /\ Counting'
    BY <1>14
       DEF PlaybackInv, AiDone, Fresh, Done, Counting, Counts, Base, Live, Finished
  <2>3. NotOver' /\ FadingPoint' /\ PlayedOut'
    BY <1>14
       DEF PlaybackInv, AiDone, NotOver, FadingPoint, PlayedOut, Live, Finished
  <2>4. BusyHasTimer' /\ Closed' /\ VolumeInRange' /\ SignalsHeeded'
    BY <1>14
       DEF PlaybackInv, AiDone, Emptied, BusyHasTimer, Closed, VolumeInRange,
           SignalsHeeded
  <2> QED
    BY <2>1, <2>2, <2>3, <2>4 DEF PlaybackInv
<1>15. CASE LeaveLoop
  <2>1. TypeOK'
    BY <1>1, <1>15, PlaybackAssumption DEF TypeOK, LeaveLoop
  <2>2. Fresh' /\ Done' /\ Counting'
    BY <1>15
       DEF PlaybackInv, LeaveLoop, Fresh, Done, Counting, Live, Finished
  <2>3. NotOver' /\ FadingPoint' /\ PlayedOut'
    BY <1>15
       DEF PlaybackInv, LeaveLoop, NotOver, FadingPoint, PlayedOut, Live, Finished
  <2>4. BusyHasTimer' /\ Closed' /\ VolumeInRange' /\ SignalsHeeded'
    BY <1>15
       DEF PlaybackInv, LeaveLoop, BusyHasTimer, Closed, VolumeInRange, SignalsHeeded
  <2> QED
    BY <2>1, <2>2, <2>3, <2>4 DEF PlaybackInv
<1>16. CASE Skip
  <2>1. TypeOK'
    <3>1. Flags'
      BY <1>1, <1>16, TypeParts, Zenon DEF Flags, Skip, Arrives, Skipped
    <3>2. Numbers'
      BY <1>1, <1>16, TypeParts, PlaybackAssumption DEF Numbers, Skip, Arrives, Skipped
    <3> QED
      BY <3>1, <3>2, TypeParts
  <2>2. Fresh' /\ Done' /\ Counting'
    <3>1. CASE phase = "running" /\ ~running
      BY <1>1, <1>16, <3>1 DEF PlaybackInv, Skip, Arrives, Skipped, Fresh, Done,
         Counting,
                               Live, Finished
    <3>2. CASE ~(phase = "running" /\ ~running)
      <4>1. skipped' /\ since' = 0 /\ play' = track /\ track' = track
            /\ (lost' <=> at = "store") /\ at' = at /\ phase' = phase /\ running' = running
        BY <1>16, <3>2 DEF Skip, Arrives, Skipped
      <4>2. Base' = track /\ track \in Nat
        BY <1>1, <4>1, PlaybackAssumption DEF Base, TypeOK
      <4>3. Counting'
        BY <4>1, <4>2 DEF Counting, Counts
      <4>4. Fresh' /\ Done'
        BY <1>16, <4>1, <3>2 DEF PlaybackInv, Skip, Arrives, Skipped, Fresh, Done,
           Finished
      <4> QED
        BY <4>3, <4>4
    <3> QED
      BY <3>1, <3>2
  <2>3. NotOver' /\ FadingPoint' /\ PlayedOut'
    BY <1>16
       DEF PlaybackInv, TypeOK, Skip, Arrives, Skipped, NotOver, FadingPoint, PlayedOut,
           Finished
  <2>4. BusyHasTimer' /\ Closed' /\ VolumeInRange' /\ SignalsHeeded'
    BY <1>16, PlaybackAssumption
       DEF PlaybackInv, TypeOK, Skip, Skipped, BusyHasTimer, Closed, VolumeInRange,
           SignalsHeeded
  <2> QED
    BY <2>1, <2>2, <2>3, <2>4 DEF PlaybackInv
<1>17. CASE Interrupt
  <2>1. TypeOK'
    <3>1. Flags'
      BY <1>1, <1>17, TypeParts, Zenon DEF Flags, Interrupt, Arrives, Skipped, SkipTo
    <3>2. Numbers'
      BY <1>1, <1>17, TypeParts, PlaybackAssumption, ClearForeverFacts DEF Numbers,
         Interrupt, Arrives, Skipped, SkipTo
    <3> QED
      BY <3>1, <3>2, TypeParts
  <2>2. Fresh' /\ Done' /\ Counting'
    BY <1>17, ClearForeverFacts
       DEF PlaybackInv, TypeOK, Interrupt, Skipped, SkipTo, Fresh, Done, Counting,
           Counts, Base, Live, Finished
  <2>3. NotOver' /\ FadingPoint' /\ PlayedOut'
    BY <1>17, ClearForeverFacts
       DEF PlaybackInv, TypeOK, Interrupt, Arrives, Skipped, SkipTo, Done, NotOver,
           FadingPoint, PlayedOut, Finished
  <2>4. BusyHasTimer' /\ Closed' /\ VolumeInRange' /\ SignalsHeeded'
    BY <1>17, PlaybackAssumption
       DEF PlaybackInv, TypeOK, Interrupt, Skipped, Done, BusyHasTimer, Closed,
           VolumeInRange, SignalsHeeded, Finished
  <2> QED
    BY <2>1, <2>2, <2>3, <2>4 DEF PlaybackInv
<1>18. CASE InterruptAgain
  <2>1. TypeOK'
    <3>1. Flags'
      BY <1>1, <1>18, TypeParts, Zenon DEF Flags, InterruptAgain, Arrives
    <3>2. Numbers'
      BY <1>1, <1>18, TypeParts, PlaybackAssumption DEF Numbers, InterruptAgain, Arrives
    <3> QED
      BY <3>1, <3>2, TypeParts
  <2>2. Fresh' /\ Done' /\ Counting'
    BY <1>18
       DEF PlaybackInv, InterruptAgain, Fresh, Done, Counting, Live, Finished
  <2>3. NotOver' /\ FadingPoint' /\ PlayedOut'
    BY <1>18
       DEF PlaybackInv, InterruptAgain, NotOver, FadingPoint, PlayedOut, Live, Finished
  <2>4. BusyHasTimer' /\ Closed' /\ VolumeInRange' /\ SignalsHeeded'
    BY <1>18
       DEF PlaybackInv, InterruptAgain, BusyHasTimer, Closed, VolumeInRange,
           SignalsHeeded
  <2> QED
    BY <2>1, <2>2, <2>3, <2>4 DEF PlaybackInv
<1>19. CASE Killed
  <2>1. TypeOK'
    BY <1>1, <1>19, PlaybackAssumption DEF TypeOK, Killed
  <2>2. Fresh' /\ Done' /\ Counting'
    BY <1>19
       DEF PlaybackInv, Killed, Fresh, Done, Counting, Live, Finished
  <2>3. NotOver' /\ FadingPoint' /\ PlayedOut'
    BY <1>19
       DEF PlaybackInv, Killed, NotOver, FadingPoint, PlayedOut, Live, Finished
  <2>4. BusyHasTimer' /\ Closed' /\ VolumeInRange' /\ SignalsHeeded'
    BY <1>19
       DEF PlaybackInv, Killed, BusyHasTimer, Closed, VolumeInRange, SignalsHeeded
  <2> QED
    BY <2>1, <2>2, <2>3, <2>4 DEF PlaybackInv
<1>20. CASE Ended \/ UNCHANGED vars
  <2>1. TypeOK'
    BY <1>1, <1>20, PlaybackAssumption DEF TypeOK, Ended, vars
  <2>2. Fresh' /\ Done' /\ Counting'
    BY <1>1, <1>20, <2>1, PlaybackAssumption
       DEF PlaybackInv, TypeOK, Ended, vars, Fresh, Done, Counting, NotOver,
           FadingPoint, PlayedOut, BusyHasTimer, Closed, VolumeInRange, SignalsHeeded,
           Counts, Base, Live, Finished, Forever, Enough, NoFade
  <2>3. NotOver' /\ FadingPoint' /\ PlayedOut'
    BY <1>1, <1>20, <2>1, PlaybackAssumption
       DEF PlaybackInv, TypeOK, Ended, vars, Fresh, Done, Counting, NotOver,
           FadingPoint, PlayedOut, BusyHasTimer, Closed, VolumeInRange, SignalsHeeded,
           Counts, Base, Live, Finished, Forever, Enough, NoFade
  <2>4. BusyHasTimer' /\ Closed' /\ VolumeInRange' /\ SignalsHeeded'
    BY <1>1, <1>20, <2>1, PlaybackAssumption
       DEF PlaybackInv, TypeOK, Ended, vars, Fresh, Done, Counting, NotOver,
           FadingPoint, PlayedOut, BusyHasTimer, Closed, VolumeInRange, SignalsHeeded,
           Counts, Base, Live, Finished, Forever, Enough, NoFade
  <2> QED
    BY <2>1, <2>2, <2>3, <2>4 DEF PlaybackInv
<1> QED
  BY <1>2, <1>3, <1>4, <1>5, <1>6, <1>7, <1>8, <1>9, <1>10, <1>11, <1>12, <1>13, <1>14,
     <1>15, <1>16, <1>17, <1>18, <1>19, <1>20 DEF Next, AddBuffer

LEMMA Invariant == Spec => []PlaybackInv
  BY InitInv, NextInv, PTL DEF Spec

-----------------------------------------------------------------------------
(* The state keeps its type, track_time its word, whatever signals arrive. *)
THEOREM PlaybackTypeCorrect == Spec => []TypeOK
<1>1. PlaybackInv => TypeOK
  BY DEF PlaybackInv
<1> QED
  BY <1>1, Invariant, PTL

(* The volume stays between 0 and 1 for all track and fade times, also     *)
(* when a signal comes between the test and the volume (AddBuffer, sig).   *)
THEOREM VolumeStaysInRange == Spec => []VolumeInRange
<1>1. PlaybackInv => VolumeInRange
  BY DEF PlaybackInv
<1> QED
  BY <1>1, Invariant, PTL

(* A signal that is not overwritten is followed by the fade and no more    *)
(* than one buffer, for all durations.                                     *)
THEOREM SignalsAreHeeded == Spec => []SignalsHeeded
<1>1. PlaybackInv => SignalsHeeded
  BY DEF PlaybackInv
<1> QED
  BY <1>1, Invariant, PTL

(* AddBuffer ends no track before its time. *)
THEOREM NeverCutShort == Spec => []NotCutShort
<1>1. PlaybackInv => NotCutShort
  BY DEF PlaybackInv, PlayedOut, Closed, Finished, NotCutShort
<1> QED
  BY <1>1, Invariant, PTL

(* The AI's queue is full only while its timer runs, or an empty buffer    *)
(* is in it.                                                               *)
THEOREM FullQueueHasTimer == Spec => []FullHasTimer
<1>1. PlaybackInv => FullHasTimer
  BY DEF PlaybackInv, BusyHasTimer, FullHasTimer
<1> QED
  BY <1>1, Invariant, PTL
=============================================================================
