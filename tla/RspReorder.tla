----------------------------- MODULE RspReorder -----------------------------
(***************************************************************************)
(* The order in which the recompiler of the signal processor compiles:     *)
(* the bubble sort of rsp_recompiler_cpu.c, between one label or branch     *)
(* and the next.                                                           *)
(***************************************************************************)
EXTENDS RspAnalysis, RspPairs

---------------------------------------------------------------------------
\* The sort.  o[a] is the word of P that now stands at a.

Quiet(P, o, a) == \A k \in {a, a + 1, a + 2} : k <= Top /\ IsOpcodeNop(P[o[k]])
Exchanged(o, a) == [o EXCEPT ![a - 1] = o[a], ![a] = o[a - 1]]

\* Once up the section, or up to where nothing but NOPs follows.
Compared(P, q, a) ==
    LET n == IF CompareInstructions(P[q.o[a - 1]], P[q.o[a]]) THEN Exchanged(q.o, a) ELSE q.o
    IN  IF q.quiet THEN q ELSE [o |-> n, quiet |-> Quiet(P, n, a)]
Pass(P, o, StartPC, EndPC) ==
    LET pass[a \in StartPC..EndPC - 1] ==
            IF a = StartPC THEN [o |-> o, quiet |-> FALSE] ELSE Compared(P, pass[a - 1], a)
    IN  pass[EndPC - 1].o

\* A pass that exchanges nothing is the last; all that follow would do the same.
Passes(P, o, StartPC, EndPC) ==
    LET passes[n \in 0..EndPC - StartPC] ==
            IF n = 0 THEN o ELSE Pass(P, passes[n - 1], StartPC, EndPC)
    IN  passes[EndPC - StartPC]

ReOrderInstructions(P, o, StartPC, EndPC) ==
    IF \/ IsOpcodeBranch(P[o[StartPC]])
       \/ Quiet(P, o, StartPC)
       \/ EndPC - StartPC < 4
       \/ EndPC - StartPC > MaxWindow
    THEN o
    ELSE Passes(P, o, StartPC, EndPC)

---------------------------------------------------------------------------
\* BuildBranchLabels: the branches up to the last label there is room for, and
\* where those go whose target is in the instruction.

Labelled(P, a) == P[a].op \in Branches \ RegisterJumps
BranchLocations(P) ==
    {a \in Words : IsOpcodeBranch(P[a])
                   /\ Cardinality({b \in 0..a - 1 : Labelled(P, b)}) < MaxLabels}
BranchLabels(P) == {P[a].to : a \in {b \in BranchLocations(P) : Labelled(P, b)}}

(* Mutant: labels do not end a section. *)
ReOrderPastLabels(P, o, CurrPC) ==
    IF CurrPC > Top - 3 THEN o
    ELSE ReOrderInstructions(P, o, CurrPC,
             Min({Top} \cup {a \in BranchLocations(P) : a > CurrPC}))
ReOrderSubBlock(P, o, CurrPC) ==
    IF CurrPC > Top - 3 THEN o
    ELSE ReOrderInstructions(P, o, CurrPC,
             Min({Top} \cup {a \in BranchLabels(P) \cup BranchLocations(P) : a > CurrPC}))
=============================================================================
