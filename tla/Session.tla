------------------------------- MODULE Session -------------------------------
(***************************************************************************)
(* The command line (main.c): one file after the other is loaded (usf.c),  *)
(* a library that it names first, its tags set the globals of the player,  *)
(* and it is played and its memory released (memory.c).  No global is set  *)
(* back between two files, and all of them are what this module is about.  *)
(*                                                                         *)
(* The contents of files are abstract: whether they open, their tags and   *)
(* the size of RDRAM in their save state.  How a track is played is the    *)
(* subject of module Playback.                                             *)
(***************************************************************************)
EXTENDS Sequences, Integers

CONSTANTS
    Files,          \* the files there are
    Content,        \* what is in each
    CommandLines,   \* sequences of files
    Word,           \* 2^32
    DefaultTrack,   \* the initial track_time, 360000
    DefaultFade,    \* the initial fade_time, 10000
    MaxDepth        \* bound: calls of LoadUSF that fit the C stack

None == "none"
Unset == -1
NoTag == -1
Half == Word \div 2
Flag == {Unset, 0, 1}
Time == 0 .. Word - 1

(* _enablecompare and _enableFIFOfull are tags that are there or not.      *)
File == [opens : BOOLEAN, tags : {"none", "bad", "good"}, lib : Files \cup {None},
         compare : BOOLEAN, fifo : BOOLEAN,
         length : Time \cup {NoTag}, fade : Time \cup {NoTag}, ram : {0, 4, 8}]

ASSUME SessionAssumption ==
    /\ None \notin Files
    /\ Content \in [Files -> File]
    /\ CommandLines \subseteq Seq(Files)
    /\ Half \in Nat \ {0} /\ Word = 2 * Half
    /\ DefaultTrack \in 0 .. Half - 1 /\ DefaultFade \in Time
    /\ MaxDepth \in Nat \ {0}

VARIABLES
    phase,      \* where main is
    rest,       \* the arguments from optind on
    stack,      \* the calls of LoadUSF, the innermost first: a file and
                \* whether its library has been dealt with
    compare,    \* enablecompare
    fifo,       \* enableFIFOfull
    track,      \* track_time
    fade,       \* fade_time
    ram,        \* RdramSize, in megabytes
    savestate,  \* the megabytes that savestatespace has room for; 0: NULL
    rom,        \* ROMPages holds pages
    chunk,      \* MemChunk and what Allocate_Memory gets with it
    firstTime,  \* static in sig
    forever,    \* playForever
    double,     \* doublePlayLength

    (* History, which the program does not keep. *)
    file,       \* the file that was loaded last
    first,      \* the file that was loaded first
    leaked,     \* memory has been lost
    refused     \* Allocate_Memory has failed

tags == <<compare, fifo, track, fade>>
memory == <<savestate, rom, chunk, leaked, refused>>
options == <<forever, double>>
vars == <<phase, rest, stack, tags, ram, memory, firstTime, options, file, first>>

-----------------------------------------------------------------------------
(* Mutant: the outermost file sets the flag. *)
SetAgain(flag, there) == IF there THEN 1 ELSE 0

(* A tag is looked for once: the innermost file with tags sets the flag.   *)
Set(flag, there) ==
    IF flag = Unset THEN (IF there THEN 1 ELSE 0) ELSE flag

(* Mutant: track_time loses its first tag. *)
GivenOnce(tag, old) == IF tag # NoTag /\ old = DefaultTrack THEN tag ELSE old

Given(tag, old) == IF tag # NoTag THEN tag ELSE old

(* Mutant: what has been loaded stays. *)
ReleaseMapped == chunk' = FALSE /\ UNCHANGED <<savestate, rom, leaked, refused>>

Release_Memory ==
    savestate' = 0 /\ rom' = FALSE /\ chunk' = FALSE /\ UNCHANGED <<leaked, refused>>

-----------------------------------------------------------------------------
(* The loop of main.                                                       *)

(* Mutant: continue goes around the increment. *)
SameArgument == rest

NextArgument == Tail(rest)

(* realpath fails. *)
NotFound ==
    /\ phase = "next" /\ rest # <<>>
    /\ rest' = NextArgument
    /\ UNCHANGED <<phase, stack, tags, ram, memory, firstTime, options, file, first>>

(* usf_init drops the pointers and allocates the space of the save state.  *)
InitFile ==
    /\ phase = "next" /\ rest # <<>>
    /\ rest' = NextArgument
    /\ \/ /\ savestate' = 8 /\ rom' = FALSE
          /\ leaked' = (leaked \/ savestate # 0 \/ rom)
          /\ phase' = "loading"
          /\ stack' = <<[file |-> Head(rest), lib |-> FALSE]>>
       \/ /\ savestate' = 0 /\ leaked' = (leaked \/ savestate # 0)
          /\ UNCHANGED <<phase, stack, rom>>
    /\ UNCHANGED <<tags, ram, chunk, refused, firstTime, options, file, first>>

NoMoreFiles ==
    /\ phase = "next" /\ rest = <<>>
    /\ phase' = "exit"
    /\ UNCHANGED <<rest, stack, tags, ram, memory, firstTime, options, file, first>>

(* LoadUSF gives up.  Its caller ignores that, unless it is usf_init.      *)
LoadFails ==
    /\ phase = "loading" /\ ~Head(stack).lib
    /\ LET c == Content[Head(stack).file] IN ~c.opens \/ c.tags = "bad"
    /\ stack' = Tail(stack)
    /\ IF Tail(stack) = <<>> THEN phase' = "next" /\ Release_Memory
       ELSE UNCHANGED <<phase, memory>>
    /\ UNCHANGED <<rest, tags, ram, firstTime, options, file, first>>

(* It loads the library first, which may be a file that is being loaded.   *)
LoadLib ==
    /\ phase = "loading" /\ ~Head(stack).lib
    /\ LET c == Content[Head(stack).file]
       IN  /\ c.opens /\ c.tags = "good" /\ c.lib # None
           /\ stack' = <<[file |-> c.lib, lib |-> FALSE], [Head(stack) EXCEPT !.lib = TRUE]>>
                       \o Tail(stack)
    /\ phase' = IF Len(stack) < MaxDepth THEN "loading" ELSE "crashed"
    /\ UNCHANGED <<rest, tags, ram, memory, firstTime, options, file, first>>

(* Then its own tags and sections; with 4 megabytes of RDRAM the space of  *)
(* the save state shrinks.  usf_init sets what is unset to 0.              *)
LoadRest ==
    /\ phase = "loading"
    /\ LET f == Head(stack).file
           c == Content[f]
           last == Tail(stack) = <<>>
           tagged == c.tags = "good"
           newCompare == IF tagged THEN Set(compare, c.compare) ELSE compare
           newFifo == IF tagged THEN Set(fifo, c.fifo) ELSE fifo
           default == last /\ (newCompare = Unset \/ newFifo = Unset)
       IN  /\ c.opens /\ c.tags # "bad"
           /\ Head(stack).lib \/ ~tagged \/ c.lib = None
           /\ stack' = Tail(stack)
           /\ compare' = IF default THEN 0 ELSE newCompare
           /\ fifo' = IF default THEN 0 ELSE newFifo
           /\ track' = IF tagged THEN Given(c.length, track) ELSE track
           /\ fade' = IF tagged THEN Given(c.fade, fade) ELSE fade
           /\ rom' \in {rom, TRUE}
           /\ ram' = IF c.ram # 0 THEN c.ram ELSE IF savestate = 4 THEN 4 ELSE ram
           /\ savestate' = IF c.ram = 4 THEN 4 ELSE savestate
           /\ phase' = IF last THEN "loaded" ELSE "loading"
           /\ file' = IF last THEN f ELSE file
           /\ first' = IF last /\ first = None THEN f ELSE first
    /\ UNCHANGED <<rest, chunk, leaked, refused, firstTime, options>>

(* Mutant: the word has more bits. *)
DoubledWide(t) == 2 * t

Doubled(t) == (2 * t) % Word

(* The options of the command line change track_time. *)
Options ==
    /\ phase = "loaded"
    /\ LET t == IF forever /\ track < Half THEN track + Half ELSE track
       IN  track' = IF double THEN Doubled(t) ELSE t
    /\ phase' = "ready"
    /\ UNCHANGED <<rest, stack, compare, fifo, fade, ram, memory, firstTime, options,
                   file, first>>

(* usf_play: when Allocate_Memory fails, nothing is released. *)
Allocate ==
    /\ phase = "ready"
    /\ chunk' = TRUE
    /\ leaked' = (leaked \/ chunk)
    /\ phase' \in {"playing", "next"}
    /\ refused' = (refused \/ phase' = "next")
    /\ UNCHANGED <<rest, stack, tags, ram, savestate, rom, firstTime, options, file, first>>

PlayEnds ==
    /\ phase = "playing"
    /\ phase' = "next"
    /\ Release_Memory
    /\ UNCHANGED <<rest, stack, tags, ram, firstTime, options, file, first>>

(* SIGINT is a request to fade out once in the life of the program. *)
Interrupt ==
    /\ phase \notin {"exit", "crashed"}
    /\ firstTime' = FALSE
    /\ IF firstTime THEN track' = track % Half /\ UNCHANGED <<phase, memory>>
       ELSE phase' = "exit" /\ Release_Memory /\ UNCHANGED track
    /\ UNCHANGED <<rest, stack, compare, fifo, fade, ram, options, file, first>>

Ended == phase \in {"exit", "crashed"} /\ UNCHANGED vars

Init ==
    /\ phase = "next" /\ stack = <<>>
    /\ rest \in CommandLines
    /\ compare = Unset /\ fifo = Unset
    /\ track = DefaultTrack /\ fade = DefaultFade
    /\ ram = 8 /\ savestate = 0 /\ rom = FALSE /\ chunk = FALSE
    /\ firstTime = TRUE
    /\ forever \in BOOLEAN /\ double \in BOOLEAN
    /\ file = None /\ first = None /\ leaked = FALSE /\ refused = FALSE

Main ==
    \/ NotFound \/ InitFile \/ NoMoreFiles
    \/ LoadFails \/ LoadLib \/ LoadRest
    \/ Options \/ Allocate \/ PlayEnds

Next == Main \/ Interrupt \/ Ended

Spec == Init /\ [][Next]_vars

(* main goes on; that a track ends is TrackEnds of module Playback. *)
FairSpec == Spec /\ WF_vars(Main)

-----------------------------------------------------------------------------
(* What the tags of a file and of its libraries, n deep, say.              *)

Tagged(f) == Content[f].opens /\ Content[f].tags = "good"

(* The innermost file with tags has the flags. *)
CompareOf[n \in 0 .. MaxDepth] ==
    [f \in Files |->
        IF n = 0 \/ ~Tagged(f) THEN Unset
        ELSE IF Content[f].lib # None /\ CompareOf[n - 1][Content[f].lib] # Unset
        THEN CompareOf[n - 1][Content[f].lib]
        ELSE IF Content[f].compare THEN 1 ELSE 0]

(* The outermost file that gives a length has it. *)
LengthOf[n \in 0 .. MaxDepth] ==
    [f \in Files |->
        IF n = 0 \/ ~Tagged(f) THEN NoTag
        ELSE IF Content[f].length # NoTag THEN Content[f].length
        ELSE IF Content[f].lib # None THEN LengthOf[n - 1][Content[f].lib] ELSE NoTag]

(* There are n libraries of libraries. *)
NestedLibs[n \in 0 .. MaxDepth] ==
    [f \in Files |->
        n = 0 \/ (Tagged(f) /\ Content[f].lib # None /\ NestedLibs[n - 1][Content[f].lib])]

TypeOK ==
    /\ phase \in {"next", "loading", "loaded", "ready", "playing", "exit", "crashed"}
    /\ rest \in Seq(Files)
    /\ stack \in Seq([file : Files, lib : BOOLEAN])
    /\ (phase = "loading" => stack # <<>>)
    /\ compare \in Flag /\ fifo \in Flag /\ track \in Time /\ fade \in Time
    /\ ram \in {4, 8} /\ savestate \in {0, 4, 8}
    /\ rom \in BOOLEAN /\ chunk \in BOOLEAN /\ leaked \in BOOLEAN /\ refused \in BOOLEAN
    /\ firstTime \in BOOLEAN /\ forever \in BOOLEAN /\ double \in BOOLEAN
    /\ file \in Files \cup {None} /\ first \in Files \cup {None}

(* enablecompare is what the innermost tags of the first file that could   *)
(* be loaded say, or else 0, for the rest of the command line: the         *)
(* recursion of LoadUSF and the check for -1 decide it together.           *)
FirstFileDecides ==
    phase = "loaded" =>
        compare = IF CompareOf[MaxDepth][first] = 1 THEN 1 ELSE 0

(* The length of a file that has one, or of which a library has one, is    *)
(* the outermost, whatever has been played before (a SIGINT takes its MSB).*)
LengthIsTheFiles ==
    phase = "loaded" /\ LengthOf[MaxDepth][file] # NoTag =>
        track % Half = LengthOf[MaxDepth][file] % Half

(* What is loaded for a file is released before the next one is loaded,    *)
(* whether it was played or not, unless Allocate_Memory has failed.  (The  *)
(* 64 KB between TLB_Map and RDRAM, which munmap is never called for, are  *)
(* not counted.)                                                           *)
NothingLeaks == ~refused => ~leaked /\ (phase = "next" => savestate = 0 /\ ~rom /\ ~chunk)

(* Every command line comes to its end.  It is cut short only by a file    *)
(* whose libraries are nested as deep as the stack is, as those of one     *)
(* that names itself are: LoadUSF has no bound of its own.                 *)
SessionEnds ==
    <>(phase = "exit" \/ (phase = "crashed" /\ NestedLibs[MaxDepth][stack[Len(stack)].file]))

(* "Playing forever", until a SIGINT. *)
ForeverIsForever == phase \in {"ready", "playing"} /\ forever /\ firstTime => track >= Half
=============================================================================
