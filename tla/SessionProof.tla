----------------------------- MODULE SessionProof ----------------------------
(***************************************************************************)
(* Proofs about Session, for every set of files, whatever is in them, and  *)
(* every command line: types, what is released when, and which of the      *)
(* nested files decides the flags and the length of a track.               *)
(***************************************************************************)
EXTENDS Session, Recursion, TLAPS

Frame == [file : Files, lib : BOOLEAN]

(* Nothing is left over when main looks for the next file, and nothing is  *)
(* mapped before the track is played.                                      *)
Clean ==
    ~refused =>
        /\ ~leaked
        /\ phase = "next" => savestate = 0 /\ ~rom
        /\ phase \in {"next", "loading", "loaded", "ready"} => ~chunk

SessionInv == TypeOK /\ Clean

(* TypeOK in parts: where main is, the calls, the globals and the memory.  *)
Control ==
    /\ phase \in {"next", "loading", "loaded", "ready", "playing", "exit", "crashed"}
    /\ rest \in Seq(Files) /\ stack \in Seq(Frame)
    /\ phase = "loading" => stack # <<>>
    /\ file \in Files \cup {None} /\ first \in Files \cup {None}

Globals ==
    /\ compare \in Flag /\ fifo \in Flag /\ track \in Time /\ fade \in Time
    /\ firstTime \in BOOLEAN /\ forever \in BOOLEAN /\ double \in BOOLEAN

Memory ==
    /\ ram \in {4, 8} /\ savestate \in {0, 4, 8}
    /\ rom \in BOOLEAN /\ chunk \in BOOLEAN /\ leaked \in BOOLEAN /\ refused \in BOOLEAN

LEMMA TypeParts ==
    /\ TypeOK <=> Control /\ Globals /\ Memory
    /\ TypeOK' <=> Control' /\ Globals' /\ Memory'
BY DEF TypeOK, Control, Globals, Memory, Frame

-----------------------------------------------------------------------------
(* CompareOf and LengthOf, by one call of LoadUSF. *)
CompareStep(inner, f) ==
    IF ~Tagged(f) THEN Unset
    ELSE IF Content[f].lib # None /\ inner[Content[f].lib] # Unset
    THEN inner[Content[f].lib]
    ELSE IF Content[f].compare THEN 1 ELSE 0

LengthStep(inner, f) ==
    IF ~Tagged(f) THEN NoTag
    ELSE IF Content[f].length # NoTag THEN Content[f].length
    ELSE IF Content[f].lib # None THEN inner[Content[f].lib] ELSE NoTag

LEMMA CompareEquation ==
    /\ \A f \in Files : CompareOf[0][f] = Unset
    /\ \A n \in 1 .. MaxDepth, f \in Files :
           CompareOf[n][f] = CompareStep(CompareOf[n - 1], f)
<1> DEFINE V == [Files -> Flag]
           D == 0 .. MaxDepth
           base == [f \in Files |-> Unset]
           F == [inner \in V |-> [f \in Files |-> CompareStep(inner, f)]]
           Row(g, n) == [f \in Files |-> IF n = 0 THEN Unset ELSE CompareStep(g[n - 1], f)]
<1>1. base \in V /\ F \in [V -> V]
  <2>1. ASSUME NEW inner \in V, NEW f \in Files PROVE CompareStep(inner, f) \in Flag
    <3>1. Content[f].lib # None => Content[f].lib \in Files
      BY SessionAssumption DEF File
    <3> QED
      BY <3>1 DEF CompareStep, Flag
  <2> QED
    BY <2>1 DEF Flag
<1>2. \E g : g \in [D -> V] /\ g = [n \in D |-> Row(g, n)]
  <2>1. PICK g \in [D -> V] : \A n \in D : g[n] = IF n = 0 THEN base ELSE F[g[n - 1]]
    <3> HIDE DEF V, base, F
    <3> DEFINE G == [n \in Nat |-> F]
    <3>1. MaxDepth \in Nat /\ MaxDepth >= 0 /\ 0 \in Nat
      BY SessionAssumption
    <3>2. G \in [Nat -> [V -> V]] /\ \A n \in D : G[n] = F
      BY <1>1
    <3> HIDE DEF G
    <3>3. Iterates(base, G, V, 0, MaxDepth)
      BY <1>1, <3>1, <3>2, Iteration
    <3> QED
      BY <3>2, <3>3 DEF Iterates
  <2>2. ASSUME NEW n \in D PROVE g[n] = Row(g, n)
    <3>1. n # 0 => g[n - 1] \in V
      BY SessionAssumption
    <3> QED
      BY <2>1, <3>1
  <2>3. g = [n \in D |-> g[n]]
    OBVIOUS
  <2> HIDE DEF V, Row
  <2> QED
    BY <2>2, <2>3
<1>3. CompareOf = CHOOSE g : g = [n \in D |-> Row(g, n)]
  BY DEF CompareOf, CompareStep
<1>4. CompareOf = [n \in D |-> Row(CompareOf, n)]
  BY <1>2, <1>3
<1>5. 0 \in D /\ \A n \in 1 .. MaxDepth : n \in D /\ n # 0
  BY SessionAssumption
<1> HIDE DEF Row
<1>6. \A n \in D : CompareOf[n] = Row(CompareOf, n)
  BY <1>4
<1> QED
  BY <1>5, <1>6 DEF Row

LEMMA LengthEquation ==
    /\ \A f \in Files : LengthOf[0][f] = NoTag
    /\ \A n \in 1 .. MaxDepth, f \in Files :
           LengthOf[n][f] = LengthStep(LengthOf[n - 1], f)
<1> DEFINE V == [Files -> Time \cup {NoTag}]
           D == 0 .. MaxDepth
           base == [f \in Files |-> NoTag]
           F == [inner \in V |-> [f \in Files |-> LengthStep(inner, f)]]
           Row(g, n) == [f \in Files |-> IF n = 0 THEN NoTag ELSE LengthStep(g[n - 1], f)]
<1>1. base \in V /\ F \in [V -> V]
  <2>1. ASSUME NEW inner \in V, NEW f \in Files PROVE LengthStep(inner, f) \in Time \cup {NoTag}
    <3>1. Content[f].lib # None => Content[f].lib \in Files
      BY SessionAssumption DEF File
    <3>2. Content[f].length \in Time \cup {NoTag}
      BY SessionAssumption DEF File
    <3> QED
      BY <3>1, <3>2 DEF LengthStep
  <2> QED
    BY <2>1
<1>2. \E g : g \in [D -> V] /\ g = [n \in D |-> Row(g, n)]
  <2>1. PICK g \in [D -> V] : \A n \in D : g[n] = IF n = 0 THEN base ELSE F[g[n - 1]]
    <3> HIDE DEF V, base, F
    <3> DEFINE G == [n \in Nat |-> F]
    <3>1. MaxDepth \in Nat /\ MaxDepth >= 0 /\ 0 \in Nat
      BY SessionAssumption
    <3>2. G \in [Nat -> [V -> V]] /\ \A n \in D : G[n] = F
      BY <1>1
    <3> HIDE DEF G
    <3>3. Iterates(base, G, V, 0, MaxDepth)
      BY <1>1, <3>1, <3>2, Iteration
    <3> QED
      BY <3>2, <3>3 DEF Iterates
  <2>2. ASSUME NEW n \in D PROVE g[n] = Row(g, n)
    <3>1. n # 0 => g[n - 1] \in V
      BY SessionAssumption
    <3> QED
      BY <2>1, <3>1
  <2>3. g = [n \in D |-> g[n]]
    OBVIOUS
  <2> HIDE DEF V, Row
  <2> QED
    BY <2>2, <2>3
<1>3. LengthOf = CHOOSE g : g = [n \in D |-> Row(g, n)]
  BY DEF LengthOf, LengthStep
<1>4. LengthOf = [n \in D |-> Row(LengthOf, n)]
  BY <1>2, <1>3
<1>5. 0 \in D /\ \A n \in 1 .. MaxDepth : n \in D /\ n # 0
  BY SessionAssumption
<1> HIDE DEF Row
<1>6. \A n \in D : LengthOf[n] = Row(LengthOf, n)
  BY <1>4
<1> QED
  BY <1>5, <1>6 DEF Row

-----------------------------------------------------------------------------
LEMMA WordFacts ==
    /\ Half \in Nat /\ Half > 0 /\ Word = 2 * Half
    /\ \A t \in Time : t \in Int /\ 0 <= t /\ t < Word
    /\ \A t \in Time : t % Half \in Time /\ Doubled(t) \in Time
    /\ \A t \in Time : t < Half => t + Half \in Time
<1>1. Half \in Nat /\ Half > 0 /\ Word = 2 * Half
  BY SessionAssumption
<1> HIDE DEF Half
<1>2. \A t \in Nat : t % Half \in 0 .. Half - 1 /\ (2 * t) % Word \in 0 .. Word - 1
  BY <1>1
<1> QED
  BY <1>1, <1>2 DEF Time, Doubled

LEMMA ContentFile == ASSUME NEW f \in Files PROVE Content[f] \in File
BY SessionAssumption

(* The innermost call, and what its file holds. *)
LEMMA Innermost ==
    ASSUME Control, phase = "loading"
    PROVE  /\ Head(stack) \in Frame /\ Tail(stack) \in Seq(Frame)
           /\ Head(stack).file \in Files
           /\ Content[Head(stack).file] \in File
<1>1. stack \in Seq(Frame) /\ stack # <<>>
  BY DEF Control
<1>2. Head(stack) \in Frame /\ Tail(stack) \in Seq(Frame)
  BY <1>1
<1>3. Head(stack).file \in Files
  BY <1>2 DEF Frame
<1> QED
  BY <1>2, <1>3, ContentFile

LEMMA GlobalsSet ==
    ASSUME NEW there \in BOOLEAN, NEW flag \in Flag
    PROVE  Set(flag, there) \in Flag
BY DEF Set, Flag, Unset

LEMMA InitInv == Init => SessionInv
<1> SUFFICES ASSUME Init PROVE SessionInv
  OBVIOUS
<1>1. Control
  BY SessionAssumption DEF Init, Control
<1>2. Globals
  <2>1. DefaultTrack \in Time /\ DefaultFade \in Time
    BY SessionAssumption, WordFacts DEF Time
  <2>2. 1 \in Time
    BY WordFacts DEF Time
  <2> QED
    BY <2>1, <2>2 DEF Init, Globals, Flag
<1>3. Memory /\ Clean
  BY DEF Init, Memory, Clean
<1> QED
  BY <1>1, <1>2, <1>3, TypeParts DEF SessionInv

LEMMA NextInv == SessionInv /\ [Next]_vars => SessionInv'
<1> SUFFICES ASSUME SessionInv, [Next]_vars PROVE SessionInv'
  OBVIOUS
<1> USE DEF tags, memory, options
<1>1. Control /\ Globals /\ Memory /\ Clean
  BY TypeParts DEF SessionInv
<1>2. CASE NotFound
  <2>1. Control' /\ Globals' /\ Memory' /\ Clean'
    BY <1>1, <1>2 DEF NotFound, NextArgument, Control, Globals, Memory, Clean
  <2> QED
    BY <2>1, TypeParts DEF SessionInv
<1>3. CASE InitFile
  <2>1. Control'
    <3>1. Head(rest) \in Files /\ Tail(rest) \in Seq(Files)
      BY <1>1, <1>3 DEF InitFile, Control
    <3>2. [file |-> Head(rest), lib |-> FALSE] \in Frame
      BY <3>1 DEF Frame
    <3>3. <<[file |-> Head(rest), lib |-> FALSE]>> \in Seq(Frame)
          /\ <<[file |-> Head(rest), lib |-> FALSE]>> # <<>>
      BY <3>2
    <3> QED
      BY <1>1, <1>3, <3>1, <3>3 DEF InitFile, NextArgument, Control
  <2>2. Globals'
    BY <1>1, <1>3 DEF InitFile, Globals
  <2>3. Memory'
    BY <1>1, <1>3 DEF InitFile, Memory
  <2>4. Clean'
    BY <1>1, <1>3 DEF InitFile, Memory, Clean
  <2> QED
    BY <2>1, <2>2, <2>3, <2>4, TypeParts DEF SessionInv
<1>4. CASE NoMoreFiles
  <2>1. Control' /\ Globals' /\ Memory' /\ Clean'
    BY <1>1, <1>4 DEF NoMoreFiles, Control, Globals, Memory, Clean
  <2> QED
    BY <2>1, TypeParts DEF SessionInv
<1>5. CASE LoadFails
  <2>1. Control'
    BY <1>1, <1>5, Innermost DEF LoadFails, Control
  <2>2. Globals'
    BY <1>1, <1>5 DEF LoadFails, Globals
  <2>3. Memory' /\ Clean'
    BY <1>1, <1>5 DEF LoadFails, Release_Memory, Memory, Clean
  <2> QED
    BY <2>1, <2>2, <2>3, TypeParts DEF SessionInv
<1>6. CASE LoadLib
  <2>1. Control'
    <3>1. Head(stack) \in Frame /\ Tail(stack) \in Seq(Frame)
          /\ Content[Head(stack).file] \in File
      BY <1>1, <1>6, Innermost DEF LoadLib
    <3>2. Content[Head(stack).file].lib \in Files
      BY <1>6, <3>1 DEF LoadLib, File
    <3> DEFINE called == [file |-> Content[Head(stack).file].lib, lib |-> FALSE]
               calls == [Head(stack) EXCEPT !.lib = TRUE]
    <3>3. called \in Frame /\ calls \in Frame
      BY <3>1, <3>2 DEF Frame
    <3>4. stack' = <<called, calls>> \o Tail(stack)
      BY <1>6 DEF LoadLib
    <3> HIDE DEF called, calls
    <3>5. stack' \in Seq(Frame) /\ stack' # <<>>
      BY <3>1, <3>3, <3>4
    <3> QED
      BY <1>1, <1>6, <3>5 DEF LoadLib, Control
  <2>2. Globals' /\ Memory' /\ Clean'
    BY <1>1, <1>6 DEF LoadLib, Globals, Memory, Clean
  <2> QED
    BY <2>1, <2>2, TypeParts DEF SessionInv
<1>7. CASE LoadRest
  <2>1. Head(stack).file \in Files /\ Tail(stack) \in Seq(Frame)
        /\ Content[Head(stack).file] \in File
    BY <1>1, <1>7, Innermost DEF LoadRest
  <2> DEFINE c == Content[Head(stack).file]
             flagsC == IF c.tags = "good" THEN Set(compare, c.compare) ELSE compare
             flagsF == IF c.tags = "good" THEN Set(fifo, c.fifo) ELSE fifo
  <2>2. Control'
    BY <1>1, <1>7, <2>1 DEF LoadRest, Control
  <2>3. Globals'
    <3>1. /\ c.compare \in BOOLEAN /\ c.fifo \in BOOLEAN
          /\ c.length \in Time \cup {NoTag} /\ c.fade \in Time \cup {NoTag}
      BY <2>1 DEF File
    <3>2. flagsC \in Flag /\ flagsF \in Flag
      BY <1>1, <3>1, GlobalsSet DEF Globals
    <3>3. compare' \in {0, flagsC} /\ fifo' \in {0, flagsF}
      BY <1>7 DEF LoadRest
    <3>4. /\ track' \in {Given(c.length, track), track}
          /\ fade' \in {Given(c.fade, fade), fade}
      BY <1>7 DEF LoadRest
    <3> HIDE DEF c, flagsC, flagsF
    <3>5. compare' \in Flag /\ fifo' \in Flag
      BY <3>2, <3>3 DEF Flag
    <3>6. track' \in Time /\ fade' \in Time
      BY <1>1, <3>1, <3>4 DEF Given, Globals
    <3> QED
      BY <1>1, <1>7, <3>5, <3>6 DEF LoadRest, Globals
  <2>4. Memory'
    BY <1>1, <1>7, <2>1 DEF LoadRest, Memory, File
  <2>5. Clean'
    BY <1>1, <1>7 DEF LoadRest, Clean
  <2> QED
    BY <2>2, <2>3, <2>4, <2>5, TypeParts DEF SessionInv
<1>8. CASE Options
  <2>1. Globals'
    BY <1>1, <1>8, WordFacts DEF Options, Globals
  <2>2. Control' /\ Memory' /\ Clean'
    BY <1>1, <1>8 DEF Options, Control, Memory, Clean
  <2> QED
    BY <2>1, <2>2, TypeParts DEF SessionInv
<1>9. CASE Allocate
  <2>1. Control' /\ Globals' /\ Memory' /\ Clean'
    BY <1>1, <1>9 DEF Allocate, Control, Globals, Memory, Clean
  <2> QED
    BY <2>1, TypeParts DEF SessionInv
<1>10. CASE PlayEnds
  <2>1. Control' /\ Globals' /\ Memory' /\ Clean'
    BY <1>1, <1>10 DEF PlayEnds, Release_Memory, Control, Globals, Memory, Clean
  <2> QED
    BY <2>1, TypeParts DEF SessionInv
<1>11. CASE Interrupt
  <2>1. Globals'
    BY <1>1, <1>11, WordFacts DEF Interrupt, Globals
  <2>2. Control' /\ Memory' /\ Clean'
    BY <1>1, <1>11 DEF Interrupt, Release_Memory, Control, Memory, Clean
  <2> QED
    BY <2>1, <2>2, TypeParts DEF SessionInv
<1>12. CASE Ended \/ UNCHANGED vars
  <2>1. Control' /\ Globals' /\ Memory' /\ Clean'
    BY <1>1, <1>12 DEF Ended, vars, Control, Globals, Memory, Clean
  <2> QED
    BY <2>1, TypeParts DEF SessionInv
<1> QED
  BY <1>2, <1>3, <1>4, <1>5, <1>6, <1>7, <1>8, <1>9, <1>10, <1>11, <1>12
     DEF Next, Main

LEMMA Invariant == Spec => []SessionInv
BY InitInv, NextInv, PTL DEF Spec


-----------------------------------------------------------------------------
(* What the tags say.                                                      *)

(* The calls of LoadUSF that are open: each one but the innermost waits    *)
(* for the library that its file names, and so many calls fit the stack.   *)
Library(c) == Content[c.file].lib
Waits(c) == c.lib => Tagged(c.file) /\ Library(c) # None
Nesting ==
    phase = "loading" =>
        /\ Len(stack) <= MaxDepth /\ (Head(stack).lib => Len(stack) < MaxDepth)
        /\ \A k \in 1 .. Len(stack) : Waits(stack[k])
        /\ \A k \in 2 .. Len(stack) :
               stack[k].lib /\ Library(stack[k]) = stack[k - 1].file

(* The calls that are left below the innermost one, and what the library   *)
(* said that this one has loaded.                                          *)
Left == MaxDepth - Len(stack)
FromLibrary(Of, nothing) ==
    IF Head(stack).lib THEN Of[Left][Library(Head(stack))] ELSE nothing

(* Both flags are set by the same files. *)
FlagsTogether == compare = Unset <=> fifo = Unset

(* Until the first file is loaded, the flag is what the library said, and  *)
(* thereafter what the first file did.                                     *)
Decided == compare = IF CompareOf[MaxDepth][first] = 1 THEN 1 ELSE 0
Undecided ==
    /\ phase \notin {"loaded", "ready", "playing"}
    /\ phase = "next" => compare = Unset
    /\ phase = "loading" => compare = FromLibrary(CompareOf, Unset)
FlagInv == FlagsTogether /\ IF first = None THEN Undecided ELSE Decided

(* The length that a library gave is there when its caller goes on. *)
Holds(length) == length # NoTag => track % Half = length % Half
LengthInv ==
    /\ phase = "loading" => Holds(FromLibrary(LengthOf, NoTag))
    /\ phase = "loaded" => file \in Files /\ Holds(LengthOf[MaxDepth][file])

TagsInv == Nesting /\ FlagInv /\ LengthInv

LEMMA OneCall ==
    ASSUME Control, Nesting, phase = "loading"
    PROVE  /\ Len(stack) \in 1 .. MaxDepth /\ Left + 1 \in 1 .. MaxDepth
           /\ Len(stack) = 1 => Left + 1 = MaxDepth
           /\ Head(stack) = stack[1] /\ Waits(Head(stack))
           /\ Head(stack).file \in Files
           /\ Content[Head(stack).file].tags \in {"none", "bad", "good"}
<1>1. stack \in Seq(Frame) /\ stack # <<>> /\ Len(stack) <= MaxDepth /\ MaxDepth \in Nat
  BY SessionAssumption DEF Control, Nesting
<1>2. Len(stack) \in 1 .. MaxDepth /\ Head(stack) = stack[1]
  BY <1>1
<1>3. Waits(stack[1])
  BY <1>2 DEF Nesting
<1>4. Left + 1 \in 1 .. MaxDepth /\ (Len(stack) = 1 => Left + 1 = MaxDepth)
  <2>1. \A n \in 1 .. MaxDepth : (MaxDepth - n) + 1 \in 1 .. MaxDepth
                                /\ (n = 1 => (MaxDepth - n) + 1 = MaxDepth)
    BY <1>1
  <2> QED
    BY <1>2, <2>1 DEF Left
<1> QED
  BY <1>2, <1>3, <1>4, Innermost DEF File

(* A call returns to the one that waits for it. *)
LEMMA Returns ==
    ASSUME Control, Nesting, phase = "loading", stack' = Tail(stack)
    PROVE  /\ Nesting'
           /\ stack' # <<>> =>
                 /\ Head(stack').lib /\ Library(Head(stack')) = Head(stack).file
                 /\ Left' = Left + 1
           /\ stack' = <<>> => Left + 1 = MaxDepth
<1> USE DEF Library, Waits
<1>1. stack \in Seq(Frame) /\ stack # <<>> /\ MaxDepth \in Nat
  BY SessionAssumption DEF Control
<1>2. Len(stack) \in 1 .. MaxDepth /\ Head(stack) = stack[1]
  BY OneCall
<1>3. Len(stack') = Len(stack) - 1
      /\ \A k \in 1 .. Len(stack') : stack'[k] = stack[k + 1]
  BY <1>1
<1>4. stack' \in Seq(Frame)
  BY <1>1
<1>5. stack' # <<>> => Len(stack) >= 2 /\ Head(stack') = stack[2]
  BY <1>1, <1>3, <1>4
<1>6. \A k \in 1 .. Len(stack') : Waits(stack'[k])
  BY <1>2, <1>3 DEF Nesting
<1>7. \A k \in 2 .. Len(stack') :
          stack'[k].lib /\ Library(stack'[k]) = stack'[k - 1].file
  <2> TAKE k \in 2 .. Len(stack')
  <2>1. k + 1 \in 2 .. Len(stack) /\ k - 1 \in 1 .. Len(stack') /\ k \in 1 .. Len(stack')
    BY <1>2, <1>3
  <2>2. stack'[k] = stack[k + 1] /\ stack'[k - 1] = stack[(k + 1) - 1]
    BY <1>2, <1>3, <2>1
  <2> QED
    BY <2>1, <2>2 DEF Nesting
<1>8. Nesting'
  BY <1>1, <1>2, <1>3, <1>6, <1>7 DEF Nesting
<1>9. ASSUME stack' # <<>>
      PROVE  /\ Head(stack').lib /\ Library(Head(stack')) = Head(stack).file
             /\ Left' = Left + 1
  <2>1. 2 \in 2 .. Len(stack)
    BY <1>2, <1>5, <1>9
  <2>2. stack[2].lib /\ Library(stack[2]) = stack[2 - 1].file
    BY <2>1 DEF Nesting
  <2>3. Left' = Left + 1
    BY <1>1, <1>2, <1>3 DEF Left
  <2> QED
    BY <1>2, <1>5, <1>9, <2>2, <2>3
<1>10. stack' = <<>> => Len(stack) = 1
  <2>1. stack' = <<>> => Len(stack') = 0
    OBVIOUS
  <2> QED
    BY <1>2, <1>3, <2>1
<1> QED
  BY <1>8, <1>9, <1>10, OneCall

(* A file whose library, if it has one, has been dealt with. *)
LEMMA CompareSaid ==
    ASSUME Control, Nesting, phase = "loading"
    PROVE  LET f == Head(stack).file
               said == FromLibrary(CompareOf, Unset)
           IN  /\ ~Tagged(f) => said = Unset /\ CompareOf[Left + 1][f] = Unset
               /\ Tagged(f) /\ (Head(stack).lib \/ Content[f].lib = None) =>
                      CompareOf[Left + 1][f] = Set(said, Content[f].compare)
<1> DEFINE f == Head(stack).file
<1>1. /\ Left + 1 \in 1 .. MaxDepth /\ (Left + 1) - 1 = Left
      /\ f \in Files /\ Waits(Head(stack))
  BY OneCall, SessionAssumption DEF Left
<1>2. CompareOf[Left + 1][f] = CompareStep(CompareOf[Left], f)
  <2>1. CompareOf[Left + 1][f] = CompareStep(CompareOf[(Left + 1) - 1], f)
    BY <1>1, CompareEquation
  <2> QED
    BY <1>1, <2>1
<1>3. Head(stack).lib => Tagged(f) /\ Content[f].lib # None
  BY <1>1 DEF Waits, Library
<1> QED
  BY <1>2, <1>3 DEF CompareStep, FromLibrary, Set, Library

LEMMA LengthSaid ==
    ASSUME Control, Nesting, phase = "loading"
    PROVE  LET f == Head(stack).file
               said == FromLibrary(LengthOf, NoTag)
           IN  /\ ~Tagged(f) => LengthOf[Left + 1][f] = NoTag
               /\ Tagged(f) /\ (Head(stack).lib \/ Content[f].lib = None) =>
                      LengthOf[Left + 1][f] = IF Content[f].length # NoTag
                                              THEN Content[f].length ELSE said
<1> DEFINE f == Head(stack).file
<1>1. /\ Left + 1 \in 1 .. MaxDepth /\ (Left + 1) - 1 = Left
      /\ f \in Files /\ Waits(Head(stack))
  BY OneCall, SessionAssumption DEF Left
<1>2. LengthOf[Left + 1][f] = LengthStep(LengthOf[Left], f)
  <2>1. LengthOf[Left + 1][f] = LengthStep(LengthOf[(Left + 1) - 1], f)
    BY <1>1, LengthEquation
  <2> QED
    BY <1>1, <2>1
<1>3. Head(stack).lib => Tagged(f) /\ Content[f].lib # None
  BY <1>1 DEF Waits, Library
<1> QED
  BY <1>2, <1>3 DEF LengthStep, FromLibrary, Library

LEMMA TagsInit == Init => TagsInv
BY SessionAssumption DEF Init, TagsInv, Nesting, FlagInv, FlagsTogether, Undecided, LengthInv

(* What the other actions leave alone. *)
LEMMA TagsKept ==
    ASSUME TagsInv, phase' # "loading", UNCHANGED <<compare, fifo, first>>,
           \/ first # None \/ phase' \in {"exit", "crashed"}
           \/ phase = "next" /\ phase' = "next",
           phase' # "loaded"
    PROVE  TagsInv'
BY DEF TagsInv, Nesting, FlagInv, FlagsTogether, Undecided, Decided, LengthInv

LEMMA HalfTwice == \A t \in Time : (t % Half) % Half = t % Half
<1>1. Half \in Nat /\ Half > 0
  BY WordFacts
<1>2. \A t \in Nat : (t % Half) % Half = t % Half
  <2> HIDE DEF Half
  <2>1. \A t \in 0 .. Half - 1 : t % Half = t
    BY <1>1
  <2>2. \A t \in Nat : t % Half \in 0 .. Half - 1
    BY <1>1
  <2> QED
    BY <2>1, <2>2
<1> QED
  BY <1>2, WordFacts

LEMMA TagsNext == SessionInv /\ TagsInv /\ [Next]_vars => TagsInv'
<1> SUFFICES ASSUME SessionInv, TagsInv, [Next]_vars PROVE TagsInv'
  OBVIOUS
<1> USE DEF tags, memory, options
<1>1. Control /\ Globals /\ Memory /\ Nesting /\ FlagInv /\ LengthInv
  BY TypeParts DEF SessionInv, TagsInv
<1>2. CASE NotFound
  BY <1>1, <1>2, TagsKept DEF NotFound
<1>3. CASE NoMoreFiles
  BY <1>1, <1>3, TagsKept DEF NoMoreFiles
<1>4. CASE Options \/ Allocate \/ PlayEnds
  <2>1. phase \in {"loaded", "ready", "playing"} /\ first # None
    BY <1>1, <1>4 DEF Options, Allocate, PlayEnds, FlagInv, Undecided
  <2> QED
    BY <1>4, <2>1, TagsKept DEF Options, Allocate, PlayEnds
<1>5. CASE InitFile
  <2>1. CASE phase' = "next"
    BY <1>1, <1>5, <2>1, TagsKept DEF InitFile
  <2>2. CASE phase' = "loading"
    <3> DEFINE call == [file |-> Head(rest), lib |-> FALSE]
    <3>1. stack' = <<call>> /\ ~call.lib
      BY <1>5, <2>2 DEF InitFile
    <3>2. Len(stack') = 1 /\ Head(stack') = call /\ stack'[1] = call
      BY <3>1
    <3>3. Nesting'
      BY <3>1, <3>2, SessionAssumption DEF Nesting, Waits
    <3>4. FlagInv'
      BY <1>1, <1>5, <2>2, <3>1, <3>2
         DEF InitFile, FlagInv, FlagsTogether, Undecided, Decided, FromLibrary
    <3>5. LengthInv'
      BY <2>2, <3>1, <3>2 DEF LengthInv, FromLibrary, Holds
    <3> QED
      BY <3>3, <3>4, <3>5 DEF TagsInv
  <2> QED
    BY <1>5, <2>1, <2>2 DEF InitFile
<1>6. CASE LoadFails
  <2>1. phase = "loading" /\ stack' = Tail(stack) /\ ~Tagged(Head(stack).file)
    BY <1>6 DEF LoadFails, Tagged
  <2>2. ~Head(stack).lib /\ (first = None => compare = Unset)
    BY <1>1, <1>6 DEF LoadFails, FlagInv, Undecided, FromLibrary
  <2>3. CASE Tail(stack) = <<>>
    BY <1>1, <1>6, <2>2, <2>3
       DEF LoadFails, Release_Memory, TagsInv, Nesting, FlagInv, FlagsTogether, Undecided,
           Decided, LengthInv
  <2>4. CASE Tail(stack) # <<>>
    <3>1. /\ Nesting' /\ Head(stack').lib /\ Library(Head(stack')) = Head(stack).file
          /\ Left' = Left + 1
      BY <1>1, <2>1, <2>4, Returns
    <3>2. /\ CompareOf[Left + 1][Head(stack).file] = Unset
          /\ LengthOf[Left + 1][Head(stack).file] = NoTag
      BY <1>1, <2>1, CompareSaid, LengthSaid
    <3>3. /\ FromLibrary(CompareOf, Unset)' = CompareOf[Left + 1][Head(stack).file]
          /\ FromLibrary(LengthOf, NoTag)' = LengthOf[Left + 1][Head(stack).file]
      BY <3>1 DEF FromLibrary
    <3>4. phase' = "loading" /\ UNCHANGED <<compare, fifo, first>>
      BY <1>6, <2>1, <2>4 DEF LoadFails
    <3>5. FlagInv'
      BY <1>1, <2>2, <3>2, <3>3, <3>4 DEF FlagInv, FlagsTogether, Undecided, Decided
    <3>6. LengthInv'
      BY <3>2, <3>3, <3>4 DEF LengthInv, Holds
    <3> QED
      BY <3>1, <3>5, <3>6 DEF TagsInv
  <2> QED
    BY <2>3, <2>4
<1>7. CASE LoadLib
  <2> DEFINE f == Head(stack).file
             called == [file |-> Content[f].lib, lib |-> FALSE]
             calls == [Head(stack) EXCEPT !.lib = TRUE]
  <2>1. /\ phase = "loading" /\ ~Head(stack).lib /\ Tagged(f) /\ Content[f].lib # None
        /\ stack' = <<called, calls>> \o Tail(stack)
        /\ phase' = IF Len(stack) < MaxDepth THEN "loading" ELSE "crashed"
        /\ UNCHANGED <<compare, fifo, first>>
    BY <1>7 DEF LoadLib, Tagged
  <2>2. CASE phase' = "crashed"
    BY <1>1, <2>1, <2>2, TagsKept DEF TagsInv
  <2>3. CASE phase' = "loading"
    <3>1. /\ stack \in Seq(Frame) /\ stack # <<>> /\ Head(stack) \in Frame
          /\ Tail(stack) \in Seq(Frame) /\ Head(stack) = stack[1]
          /\ Len(stack) \in 1 .. MaxDepth /\ Len(stack) < MaxDepth
      BY <1>1, <2>1, <2>3, Innermost, OneCall DEF Control
    <3>2. /\ ~called.lib /\ called.file = Content[f].lib
          /\ calls.lib /\ calls.file = f
      BY <3>1 DEF Frame
    <3> HIDE DEF called, calls
    <3>3. /\ Len(stack') = Len(stack) + 1
          /\ stack'[1] = called /\ stack'[2] = calls /\ Head(stack') = called
          /\ \A k \in 3 .. Len(stack') : stack'[k] = stack[k - 1]
      BY <2>1, <3>1
    <3>4. Nesting'
      <4> USE DEF Waits, Library
      <4>1. Len(stack') <= MaxDepth /\ ~Head(stack').lib
        BY <3>1, <3>2, <3>3, SessionAssumption
      <4>2. ASSUME NEW k \in 1 .. Len(stack') PROVE Waits(stack'[k])
        <5>1. CASE k \in {1, 2}
          BY <2>1, <3>2, <3>3, <5>1
        <5>2. CASE k \in 3 .. Len(stack')
          <6>1. k - 1 \in 1 .. Len(stack) /\ stack'[k] = stack[k - 1]
            BY <3>1, <3>3, <5>2
          <6> QED
            BY <1>1, <2>1, <6>1 DEF Nesting
        <5> QED
          BY <3>1, <3>3, <5>1, <5>2
      <4>3. ASSUME NEW k \in 2 .. Len(stack')
            PROVE  stack'[k].lib /\ Library(stack'[k]) = stack'[k - 1].file
        <5>1. CASE k = 2
          BY <3>2, <3>3, <5>1
        <5>2. CASE k = 3
          <6>1. 2 \in 2 .. Len(stack) /\ stack'[3] = stack[2]
            BY <3>1, <3>3, <5>2
          <6>2. stack[2].lib /\ Library(stack[2]) = stack[2 - 1].file
            BY <1>1, <2>1, <6>1 DEF Nesting
          <6> QED
            BY <3>1, <3>2, <3>3, <5>2, <6>1, <6>2
        <5>3. CASE k \in 4 .. Len(stack')
          <6>1. /\ k - 1 \in 2 .. Len(stack) /\ k \in 3 .. Len(stack')
                /\ k - 1 \in 3 .. Len(stack')
            BY <3>1, <3>3, <5>3
          <6>2. stack'[k] = stack[k - 1] /\ stack'[k - 1] = stack[(k - 1) - 1]
            BY <3>3, <6>1
          <6>3. stack[k - 1].lib /\ Library(stack[k - 1]) = stack[(k - 1) - 1].file
            BY <1>1, <2>1, <6>1 DEF Nesting
          <6> QED
            BY <6>2, <6>3
        <5> QED
          BY <3>1, <3>3, <5>1, <5>2, <5>3
      <4> QED
        BY <2>3, <4>1, <4>2, <4>3 DEF Nesting
    <3>5. FlagInv'
      BY <1>1, <2>1, <2>3, <3>2, <3>3
         DEF FlagInv, FlagsTogether, Undecided, Decided, FromLibrary
    <3>6. LengthInv'
      BY <2>3, <3>2, <3>3 DEF LengthInv, Holds, FromLibrary
    <3> QED
      BY <3>4, <3>5, <3>6 DEF TagsInv
  <2> QED
    BY <2>1, <2>2, <2>3
<1>8. CASE LoadRest
  <2> DEFINE f == Head(stack).file
             c == Content[f]
             newCompare == IF Tagged(f) THEN Set(compare, c.compare) ELSE compare
             newFifo == IF Tagged(f) THEN Set(fifo, c.fifo) ELSE fifo
             default == Tail(stack) = <<>> /\ (newCompare = Unset \/ newFifo = Unset)
  <2>1. /\ phase = "loading" /\ stack' = Tail(stack)
        /\ Head(stack).lib \/ ~Tagged(f) \/ c.lib = None
        /\ compare' = IF default THEN 0 ELSE newCompare
        /\ fifo' = IF default THEN 0 ELSE newFifo
        /\ track' = IF Tagged(f) THEN Given(c.length, track) ELSE track
        /\ phase' = IF Tail(stack) = <<>> THEN "loaded" ELSE "loading"
        /\ file' = IF Tail(stack) = <<>> THEN f ELSE file
        /\ first' = IF Tail(stack) = <<>> /\ first = None THEN f ELSE first
    BY <1>8 DEF LoadRest, Tagged
  <2>2. /\ f \in Files /\ c \in File
        /\ newCompare \in Flag /\ (newCompare = Unset <=> newFifo = Unset)
    <3>1. f \in Files /\ c \in File
      BY <1>1, <2>1, Innermost
    <3>2. c.compare \in BOOLEAN /\ c.fifo \in BOOLEAN
      BY <3>1 DEF File
    <3>3. newCompare \in Flag
      BY <1>1, <3>2, GlobalsSet DEF Globals
    <3> QED
      BY <1>1, <3>1, <3>2, <3>3 DEF FlagInv, FlagsTogether, Set, Unset
  <2>3. first = None => newCompare = CompareOf[Left + 1][f]
    BY <1>1, <2>1, CompareSaid DEF FlagInv, Undecided
  <2>4. first # None => Decided /\ newCompare = compare /\ newCompare # Unset
    BY <1>1 DEF FlagInv, Decided, Set, Unset
  <2>5. LengthOf[Left + 1][f] # NoTag =>
            track' % Half = LengthOf[Left + 1][f] % Half
    BY <1>1, <2>1, LengthSaid DEF LengthInv, Holds, Given
  <2>6. None \notin Files
    BY SessionAssumption
  <2> HIDE DEF f, c, newCompare, newFifo
  <2>7. CASE Tail(stack) = <<>>
    <3>1. Nesting' /\ Left + 1 = MaxDepth
      BY <1>1, <2>1, <2>7, Returns DEF f
    <3>2. FlagInv'
      <4>1. FlagsTogether' /\ first' # None
        BY <2>1, <2>2, <2>6, <2>7 DEF FlagsTogether, Unset
      <4>2. Decided'
        <5>1. CASE first = None
          <6>1. first' = f /\ newCompare = CompareOf[MaxDepth][f]
            BY <2>1, <2>3, <2>7, <3>1, <5>1
          <6>2. compare' = IF newCompare = Unset THEN 0 ELSE newCompare
            BY <2>1, <2>2, <2>7
          <6> QED
            BY <2>2, <6>1, <6>2 DEF Decided, Flag, Unset
        <5>2. CASE first # None
          BY <2>1, <2>2, <2>4, <2>7, <5>2 DEF Decided
        <5> QED
          BY <5>1, <5>2
      <4> QED
        BY <4>1, <4>2 DEF FlagInv
    <3>3. LengthInv'
      BY <2>1, <2>2, <2>5, <2>7, <3>1 DEF LengthInv, Holds
    <3> QED
      BY <3>1, <3>2, <3>3 DEF TagsInv
  <2>8. CASE Tail(stack) # <<>>
    <3>1. /\ Nesting' /\ Head(stack').lib /\ Library(Head(stack')) = f
          /\ Left' = Left + 1
      BY <1>1, <2>1, <2>8, Returns DEF f
    <3>2. /\ FromLibrary(CompareOf, Unset)' = CompareOf[Left + 1][f]
          /\ FromLibrary(LengthOf, NoTag)' = LengthOf[Left + 1][f]
      BY <3>1 DEF FromLibrary
    <3>3. FlagInv'
      BY <2>1, <2>2, <2>3, <2>4, <2>8, <3>2
         DEF FlagInv, FlagsTogether, Undecided, Decided
    <3>4. LengthInv'
      BY <2>1, <2>5, <2>8, <3>2 DEF LengthInv, Holds
    <3> QED
      BY <3>1, <3>3, <3>4 DEF TagsInv
  <2> QED
    BY <2>7, <2>8
<1>9. CASE Interrupt
  <2>1. CASE firstTime
    <3>1. /\ UNCHANGED <<phase, stack, compare, fifo, file, first>>
          /\ track' = track % Half
      BY <1>9, <2>1 DEF Interrupt
    <3>2. track' % Half = track % Half
      BY <1>1, <3>1, HalfTwice DEF Globals
    <3> QED
      BY <1>1, <3>1, <3>2
         DEF TagsInv, Nesting, FlagInv, FlagsTogether, Undecided, Decided, LengthInv,
             Holds, FromLibrary, Left
  <2>2. CASE ~firstTime
    BY <1>9, <2>2, TagsKept DEF Interrupt
  <2> QED
    BY <2>1, <2>2
<1>10. CASE Ended \/ UNCHANGED vars
  BY <1>1, <1>10
     DEF Ended, vars, TagsInv, Nesting, FlagInv, FlagsTogether, Undecided, Decided,
         LengthInv, Holds, FromLibrary, Left
<1> QED
  BY <1>2, <1>3, <1>4, <1>5, <1>6, <1>7, <1>8, <1>9, <1>10 DEF Next, Main

LEMMA TagsInvariant == Spec => [](SessionInv /\ TagsInv)
BY InitInv, NextInv, TagsInit, TagsNext, PTL DEF Spec

-----------------------------------------------------------------------------
(* Every global and all memory keep their types. *)
THEOREM SessionTypeCorrect == Spec => []TypeOK
<1>1. SessionInv => TypeOK
  BY DEF SessionInv
<1> QED
  BY <1>1, Invariant, PTL

(* Whatever files fail to load at whatever depth of libraries, and when    *)
(* signals come: everything is released before the next file.              *)
THEOREM NothingIsLeaked == Spec => []NothingLeaks
<1>1. SessionInv => NothingLeaks
  BY DEF SessionInv, Clean, NothingLeaks
<1> QED
  BY <1>1, Invariant, PTL

(* For the rest of the command line the flag is what the innermost tags of *)
(* the first file that could be loaded say, however deep its libraries are *)
(* nested, whichever of them fail to load, and wherever signals come.      *)
THEOREM FirstDecides == Spec => []FirstFileDecides
<1>1. TagsInv => FirstFileDecides
  BY DEF TagsInv, FlagInv, Undecided, Decided, FirstFileDecides
<1> QED
  BY <1>1, TagsInvariant, PTL

(* A file is played as long as its own outermost tag says. *)
THEOREM LengthIsItsOwn == Spec => []LengthIsTheFiles
<1>1. TagsInv => LengthIsTheFiles
  BY DEF TagsInv, LengthInv, Holds, LengthIsTheFiles
<1> QED
  BY <1>1, TagsInvariant, PTL
=============================================================================
