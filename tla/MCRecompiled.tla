---------------------------- MODULE MCRecompiled ----------------------------
(* One instruction of 4-bit words after every way of knowing two operands. *)
EXTENDS Recompiled

MCNamed == <<1, 2>>
D(hi, lo) == [hi |-> hi, lo |-> lo]
\* The boundaries of 4 and of 8 bits, and addresses on both sides of the page
\* that is not mapped.
MCValues == {D(0, 0), D(0, 8), D(15, 8), D(15, 15), D(1, 2)}
\* Zero high words with and without zero low ones.
MCFlowValues == {D(0, 8), D(15, 8), D(1, 0), D(1, 2), D(0, 0)}
Guests(b, a) == [before |-> b, after |-> a]
MCFlowCrowds == {Guests(<<>>, <<>>), Guests(<<3, 4>>, <<>>)}
\* With those that stay: the operands are then the first that are taken away.
MCCrowds == {Guests(<<>>, <<>>), Guests(<<3>>, <<4>>)}
MCData == [i \in Cells |-> <<9, 6, 13, 14>>[i + 1]]
\* Slots that change what is compared, seen and unseen, and registers beside it.
MCSlots ==
    {Instruction("ADDIU", 0, 2, 1, 3), Instruction("ADDU", 1, 0, 2, 0),
     Instruction("CF", 0, 0, 0, 0), Instruction("CF", 0, 0, 1, 0), Instruction("CT", 0, 0, 1, 0),
     Instruction("DADDIU", 0, 1, 2, 3), Instruction("MFLO", 2, 0, 0, 0)}
=============================================================================
