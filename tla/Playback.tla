------------------------------- MODULE Playback ------------------------------
(***************************************************************************)
(* Playing one track: usf_play, OpenSound and AiLenChanged with AddBuffer  *)
(* (audio.c), and the signal handler (main.c) that interrupts them between *)
(* any two steps and writes the same variables.                            *)
(*                                                                         *)
(* Times are whole units and a buffer is an address and the time it lasts. *)
(* The samples matter only for their byte order.  The AI timer is a flag   *)
(* here; module Timers says when it runs out.                              *)
(***************************************************************************)
EXTENDS Integers

CONSTANTS
    Word,           \* 2^32: track_time and fade_time are unsigned words
    TrackTimes,     \* the track_time that usf_init and main have set
    FadeTimes,      \* fade_time
    Durations,      \* of buffers; 0 when AI_LEN_REG & 0x3FFF8 is 0
    Longest,        \* the longest of them
    Buffers,        \* where in RDRAM the game keeps its samples
    EnableFIFOfull, \* a tag of the file
    Recompiled,     \* CPU_Type is CPU_Recompiler
    MaxSignals,     \* bound: signals that arrive
    MaxPlay         \* bound: no buffer is sent from this play_time on

Half == Word \div 2

ASSUME PlaybackAssumption ==
    /\ Word \in Nat /\ Half \in Nat \ {0} /\ Word = 2 * Half
    /\ TrackTimes \subseteq 0 .. Word - 1
    /\ FadeTimes \subseteq 0 .. Word - 1
    /\ Longest \in Nat /\ Durations \subseteq 0 .. Longest
    /\ EnableFIFOfull \in BOOLEAN /\ Recompiled \in BOOLEAN
    /\ MaxSignals \in Nat /\ MaxPlay \in Nat

NoFade == -1
SigUsr1 == "SIGUSR1"
SigInt == "SIGINT"

VARIABLES
    phase,      \* "loaded", "opening", "running", "closed" or "exited"
    running,    \* cpu_running
    play,       \* play_time
    track,      \* track_time, whose MSB means for ever
    fade,       \* fade_time
    fades,      \* fade_type is 1, 2 or 3
    at,         \* where the main thread is: in the "program" it emulates, or
                \* before a step of AddBuffer
    buffer,     \* the buffer being added: its address and duration
    seen,       \* play_time as the fading test has read it
    past,       \* play_time - track_time as the volume uses it, or NoFade
    sum,        \* play_time and the duration, in a register
    busy, full, \* AI_STATUS_REG
    armed,      \* the AI timer is active
    swapped,    \* the buffers that AddBuffer has made big endian in RDRAM
    firstTime,  \* of the handler
    oneShot,    \* sa_flags, which is never set, holds SA_RESETHAND
    handled,    \* the signals that have a handler

    (* History, which the program does not keep. *)
    since,      \* what has been played since the start or the last signal
    skipped,    \* a signal has moved play_time to the end of the track
    lost,       \* and has been overwritten
    scrambled,  \* a buffer has been written out in the wrong byte order
    hollow,     \* an empty buffer has set BUSY since the last AI interrupt
    signals

settings == <<fade, fades, oneShot>>
signalled == <<track, firstTime, handled, skipped, signals>>
device == <<busy, full, armed, hollow>>
adding == <<buffer, seen, past, sum>>
samples == <<swapped, scrambled>>
vars == <<phase, running, play, at, since, lost, settings, signalled, device,
          adding, samples>>

Forever(t) == t >= Half

(* Mutant: the bit is subtracted without being tested. *)
ClearForeverBlindly(t) == t - Half

(* track_time & 0x7FFFFFFF *)
ClearForever(t) == t % Half

(* No property tells what is longer apart. *)
Enough == 2 * Word + Longest

-----------------------------------------------------------------------------
(* usf_play and StartEmulationFromSave.                                    *)

Play ==
    /\ phase = "loaded"
    /\ phase' = "opening"
    /\ play' = 0
    /\ lost' = skipped
    /\ UNCHANGED <<running, at, since, settings, signalled, device, adding, samples>>

(* OpenSound cannot open the file, stops the emulation and returns; the    *)
(* caller starts it all the same.  AI_LEN_REG may be 0 in the save state.  *)
Open ==
    /\ phase = "opening"
    /\ phase' = "running"
    /\ running' = TRUE
    /\ IF EnableFIFOfull
       THEN /\ armed' \in BOOLEAN
            /\ busy' = TRUE
            /\ hollow' = ~armed'
       ELSE UNCHANGED <<armed, busy, hollow>>
    /\ UNCHANGED <<play, at, since, lost, full, settings, signalled, adding, samples>>

(* The header cannot be written, or no sound device be opened. *)
OpenFails ==
    /\ phase = "opening"
    /\ phase' = "exited"
    /\ running' = FALSE
    /\ UNCHANGED <<play, at, since, lost, settings, signalled, device, adding, samples>>

-----------------------------------------------------------------------------
(* The game.                                                               *)

(* It writes samples. *)
Refill(b) ==
    /\ phase = "running" /\ at = "program"
    /\ swapped' = swapped \ {b}
    /\ UNCHANGED <<phase, running, play, at, since, lost, settings, signalled, device,
                   adding, scrambled>>

(* It stores to AI_LEN_REG.  The interpreter tests cpu_running before each *)
(* instruction, recompiled code when a block ends; until then AddBuffer    *)
(* does nothing.                                                           *)
Send(b, d) ==
    /\ phase = "running" /\ at = "program"
    /\ running \/ Recompiled
    /\ play < MaxPlay
    /\ buffer' = [addr |-> b, ms |-> d]
    /\ at' = IF running THEN "fade" ELSE "schedule"
    /\ UNCHANGED <<phase, running, play, since, lost, settings, signalled, device,
                   seen, past, sum, samples>>

SendSound == \E b \in Buffers, d \in Durations \ {0} : Send(b, d)

(* The CPU loop ends. *)
LeaveLoop ==
    /\ phase = "running" /\ at = "program" /\ ~running
    /\ phase' = "closed"
    /\ UNCHANGED <<running, play, at, since, lost, settings, signalled, device, adding,
                   samples>>

-----------------------------------------------------------------------------
(* AddBuffer, in the steps that a signal can come between.                 *)

Adding(step) == phase = "running" /\ at = step

(* The fading test; with no fading it ends the track. *)
Fade ==
    /\ Adding("fade")
    /\ IF ~Forever(track) /\ play > track
       THEN IF fades THEN at' = "volume" /\ seen' = play /\ UNCHANGED running
            ELSE running' = FALSE /\ at' = "schedule" /\ UNCHANGED seen
       ELSE at' = "output" /\ UNCHANGED <<running, seen>>
    /\ UNCHANGED <<phase, play, since, lost, settings, signalled, device, buffer, past,
                   sum, samples>>

(* The volume, of which the build may read play_time again or not. *)
Volume ==
    /\ Adding("volume")
    /\ \E p \in {seen, play} : past' = p - track
    /\ at' = "output"
    /\ UNCHANGED <<phase, running, play, since, lost, settings, signalled, device,
                   buffer, seen, sum, samples>>

(* The samples are scaled and swapped in RDRAM itself, and written out. *)
Output ==
    /\ Adding("output")
    /\ at' = "load"
    /\ IF buffer.ms = 0 THEN UNCHANGED samples
       ELSE /\ scrambled' = (scrambled \/ buffer.addr \in swapped)
            /\ swapped' = IF buffer.addr \in swapped THEN swapped \ {buffer.addr}
                          ELSE swapped \cup {buffer.addr}
    /\ UNCHANGED <<phase, running, play, since, lost, settings, signalled, device, adding>>

(* play_time += ...: a load and an addition, and a store. *)
Load ==
    /\ Adding("load")
    /\ sum' = play + buffer.ms
    /\ since' = IF since + buffer.ms > Enough THEN Enough ELSE since + buffer.ms
    /\ at' = "store"
    /\ UNCHANGED <<phase, running, play, lost, settings, signalled, device, buffer,
                   seen, past, samples>>

(* Mutant: the time is not counted. *)
NotCounted == play

Counted == sum

Store ==
    /\ Adding("store")
    /\ play' = Counted
    /\ at' = "end"
    /\ UNCHANGED <<phase, running, since, lost, settings, signalled, device, adding,
                   samples>>

(* Mutants: the track ends before its fade, or never. *)
OverUnfaded == ~Forever(track) /\ play > track
OverNever == FALSE

(* The sum of the two words is one. *)
Over == ~Forever(track) /\ play > (track + fade) % Word

End ==
    /\ Adding("end")
    /\ running' = IF Over THEN FALSE ELSE running
    /\ at' = "schedule"
    /\ UNCHANGED <<phase, play, since, lost, settings, signalled, device, adding, samples>>

(* The rest of AiLenChanged: the interrupt is for the end of this buffer,  *)
(* unless the queue is full.                                               *)
Schedule ==
    /\ Adding("schedule")
    /\ armed' = (armed \/ (buffer.ms # 0 /\ ~full))
    /\ full' = (full \/ (EnableFIFOfull /\ busy))
    /\ busy' = TRUE
    /\ hollow' = (hollow \/ buffer.ms = 0)
    /\ past' = NoFade /\ seen' = 0 /\ sum' = 0
    /\ at' = "program"
    /\ UNCHANGED <<phase, running, play, since, lost, settings, signalled, buffer, samples>>

(* Mutant: the queue stays full. *)
StillFull == full

Emptied == FALSE

(* TimerDone serves the AI timer. *)
AiDone ==
    /\ phase = "running" /\ at = "program" /\ armed
    /\ armed' = FALSE /\ busy' = FALSE
    /\ full' = Emptied
    /\ hollow' = FALSE
    /\ UNCHANGED <<phase, running, play, at, since, lost, settings, signalled, adding,
                   samples>>

-----------------------------------------------------------------------------
(* sig, in which both signals are blocked.                                 *)

(* Mutant: play_time is left alone. *)
PlayOn == play

SkipTo == ClearForever(track)

Arrives(s) ==
    /\ phase \in {"loaded", "opening", "running"}
    /\ signals < MaxSignals
    /\ s \in handled
    /\ signals' = signals + 1
    /\ handled' = IF oneShot THEN handled \ {s} ELSE handled

(* The time is set to the end of the track: a Store that is about to       *)
(* happen overwrites it.  A track that has ended has nothing to skip.      *)
Skipped ==
    /\ IF phase = "running" /\ ~running THEN UNCHANGED <<skipped, since, lost>>
       ELSE skipped' = TRUE /\ since' = 0 /\ lost' = (at = "store")
    /\ UNCHANGED <<phase, running, at, settings, device, adding, samples>>

Skip ==
    /\ Arrives(SigUsr1)
    /\ play' = track
    /\ Skipped
    /\ UNCHANGED <<track, firstTime>>

Interrupt ==
    /\ Arrives(SigInt) /\ firstTime
    /\ firstTime' = FALSE
    /\ track' = ClearForever(track)
    /\ play' = SkipTo
    /\ Skipped

(* The handler ends the program, or there is none any more. *)
InterruptAgain ==
    /\ Arrives(SigInt) /\ ~firstTime
    /\ phase' = "exited" /\ running' = FALSE
    /\ UNCHANGED <<play, track, at, since, lost, firstTime, skipped, settings, device,
                   adding, samples>>

Killed ==
    /\ phase \in {"loaded", "opening", "running"}
    /\ signals < MaxSignals
    /\ handled # {SigUsr1, SigInt}
    /\ phase' = "exited" /\ signals' = signals + 1
    /\ UNCHANGED <<running, play, track, at, since, lost, firstTime, handled, skipped,
                   settings, device, adding, samples>>

Ended == phase \in {"closed", "exited"} /\ UNCHANGED vars

-----------------------------------------------------------------------------
Init ==
    /\ phase = "loaded" /\ running = FALSE /\ at = "program"
    /\ track \in TrackTimes /\ fade \in FadeTimes /\ fades \in BOOLEAN
    /\ play = 0 /\ since = 0 /\ lost = FALSE
    /\ buffer \in [addr : Buffers, ms : {0}]
    /\ seen = 0 /\ past = NoFade /\ sum = 0
    /\ busy = FALSE /\ full = FALSE /\ armed = FALSE /\ hollow = FALSE
    /\ swapped = {} /\ scrambled = FALSE
    /\ firstTime = TRUE /\ oneShot \in BOOLEAN /\ handled = {SigUsr1, SigInt}
    /\ skipped = FALSE /\ signals = 0

AddBuffer == Fade \/ Volume \/ Output \/ Load \/ Store \/ End \/ Schedule

Next ==
    \/ Play \/ Open \/ OpenFails
    \/ \E b \in Buffers : Refill(b) \/ \E d \in Durations : Send(b, d)
    \/ AddBuffer \/ AiDone \/ LeaveLoop
    \/ Skip \/ Interrupt \/ InterruptAgain \/ Killed
    \/ Ended

Spec == Init /\ [][Next]_vars

(* The main thread is never left waiting. *)
Fairness ==
    /\ WF_vars(Play) /\ WF_vars(Open) /\ WF_vars(AddBuffer) /\ WF_vars(LeaveLoop)

FairSpec == Spec /\ Fairness

-----------------------------------------------------------------------------
TypeOK ==
    /\ phase \in {"loaded", "opening", "running", "closed", "exited"}
    /\ at \in {"program", "fade", "volume", "output", "load", "store", "end", "schedule"}
    /\ running \in BOOLEAN /\ fades \in BOOLEAN /\ oneShot \in BOOLEAN
    /\ play \in Nat /\ since \in Nat /\ sum \in Nat /\ seen \in Nat
    /\ track \in 0 .. Word - 1 /\ fade \in 0 .. Word - 1
    /\ buffer \in [addr : Buffers, ms : 0 .. Longest]
    /\ past \in Int
    /\ busy \in BOOLEAN /\ full \in BOOLEAN /\ armed \in BOOLEAN /\ hollow \in BOOLEAN
    /\ swapped \subseteq Buffers /\ scrambled \in BOOLEAN
    /\ firstTime \in BOOLEAN /\ handled \subseteq {SigUsr1, SigInt}
    /\ skipped \in BOOLEAN /\ lost \in BOOLEAN /\ signals \in Nat

(* The volume lies between 0 and 1, and no fade_time of 0 is divided by,   *)
(* whenever a signal moves play_time or shortens track_time under          *)
(* AddBuffer: what it divides has not passed fade_time.                    *)
VolumeInRange ==
    past # NoFade => 0 <= past /\ past <= fade /\ fade > 0

(* A signal is heeded: from then on no more is played than the fade and    *)
(* the buffer that passes its end, unless the signal has been overwritten  *)
(* (AddBuffer's play_time +=, usf_play's play_time = 0).                   *)
SignalsHeeded ==
    skipped /\ ~lost /\ ~Forever(track) => since <= fade + Longest

(* A track is not cut short: when AddBuffer has ended it, it has been      *)
(* played, with its fade if it has one, or the rest after a signal has.    *)
(* track_time + fade_time must fit a word, and the signal must have been   *)
(* neither lost nor too early for usf_play to see.                         *)
NotCutShort ==
    phase = "closed" /\ ~lost /\ track + fade < Word =>
        since > (IF skipped THEN 0 ELSE track) + (IF fades THEN fade ELSE 0)

(* A game that waits for room in the AI's queue waits for a timer that     *)
(* runs, unless an empty buffer has filled it.                             *)
FullHasTimer == full => armed \/ hollow

(* If the game goes on sending sound and the track is not played for ever, *)
(* the emulation ends, whatever signals come when.  (Interpreter; a        *)
(* recompiled block may never come back to the loop.)                      *)
TrackEnds ==
    []<><<SendSound>>_vars => <>(phase \in {"closed", "exited"} \/ Forever(track))

(* The message of sig: a first SIGINT fades the track out. *)
FadesOut ==
    ~firstTime /\ skipped /\ fades => since <= fade + Longest

(* The comment of AddBuffer: what is written to the file is big endian. *)
WritesBigEndian == ~scrambled
=============================================================================
