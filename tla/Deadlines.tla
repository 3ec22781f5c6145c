----------------------------- MODULE Deadlines ------------------------------
(***************************************************************************)
(* What a set of countdown timers promises its users.  While a program     *)
(* runs, time passes alike for all timers, by a tick or in a skip that     *)
(* ends just past the earliest deadline, and the program may set one timer *)
(* anew.  Now and then the timers are polled.  A poll takes no time; it    *)
(* serves one timer whose time is up, and of these the one that was due    *)
(* first, or none if nothing is due.  Nothing but being served makes a     *)
(* periodic timer start again, a period after it was due, and the poll     *)
(* that serves a one-shot timer disarms it.                                *)
(*                                                                         *)
(* One timer, Follower, follows a register.  It is left unarmed while the  *)
(* register is out of range, and when it is unarmed or far from its end it *)
(* may be set anew in any step.                                            *)
(***************************************************************************)
EXTENDS Integers

CONSTANTS
    Periodic,   \* the timers that run again and again
    OneShot,    \* the timers that the program sets for once
    Follower,   \* the timer that follows a register
    Delay,      \* for each timer, the times it can be set to
    Far,        \* the time left from which on Follower may set itself anew
    Tick        \* the time an instruction takes

Clock == Periodic \cup OneShot \cup {Follower}

VARIABLES
    armed,      \* the timers that are counting down
    left,       \* the time each of them has left
    polling,    \* the timers are about to be polled
    astray      \* the timers no longer keep their promises

deadlineVars == <<armed, left, polling, astray>>

DeadlinesInit ==
    /\ armed \subseteq Clock /\ Periodic \subseteq armed
    /\ left \in [Clock -> Int]
    /\ \A u \in armed : left[u] >= 0
    /\ polling = FALSE
    /\ astray = FALSE

-----------------------------------------------------------------------------
(* u counts on through d units of time. *)
Kept(u, d) ==
    /\ u \in armed <=> u \in armed'
    /\ u \in armed => left'[u] = left[u] - d

(* u starts one of its delays.  Follower may find nothing to wait for.     *)
Set(u) == IF u \in armed' THEN left'[u] \in Delay[u] ELSE u = Follower

Follows ==
    /\ Follower \in armed => left[Follower] >= Far
    /\ Set(Follower)

(* Nothing but time touches u, unless it is Follower. *)
Moves(u, d) == Kept(u, d) \/ (u = Follower /\ Follows)

MovesAllBut(t, d) == \A u \in Clock \ {t} : Moves(u, d)

Earliest == {t \in armed : \A u \in armed : left[t] <= left[u]}

(* The time a step takes.  A skip ends after the earliest deadline by no   *)
(* more than an instruction; where that is past already, it may be put off.*)
Passing == {0, Tick} \cup {left[t] + s : t \in Earliest, s \in {1, Tick + 1}}

-----------------------------------------------------------------------------
(* The program runs for d, and may set t. *)
Run(t, d) ==
    /\ ~polling /\ polling' \in BOOLEAN
    /\ MovesAllBut(t, d)
    /\ Moves(t, d) \/ Set(t)

(* The poll finds t due, and nothing due before it. *)
Fire(t) ==
    /\ polling /\ ~polling'
    /\ t \in Earliest /\ left[t] < 0
    /\ MovesAllBut(t, 0)
    /\ \/ t \in Periodic /\ t \in armed' /\ left'[t] - left[t] \in Delay[t]
       \/ t \in OneShot /\ t \notin armed'
       \/ t = Follower /\ Set(t)

(* The poll finds nothing due. *)
Pass ==
    /\ polling /\ ~polling'
    /\ \A u \in armed : left[u] >= 0
    /\ UNCHANGED <<armed, left>>

GoAstray == astray'

DeadlinesNext ==
    /\ ~astray
    /\ \/ \E t \in Clock \ Periodic, d \in Passing : Run(t, d)
       \/ \E t \in Clock : Fire(t)
       \/ Pass
       \/ GoAstray

Deadlines == DeadlinesInit /\ [][DeadlinesNext]_deadlineVars
=============================================================================
