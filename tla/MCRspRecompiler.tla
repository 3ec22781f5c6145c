-------------------------- MODULE MCRspRecompiler --------------------------
(* Programs of ten words, by the question they put to the recompiler. *)
EXTENDS RspRecompiler

I(op, rs, rt, rd, sa) == Instruction(op, rs, rt, rd, sa)
Stop == I("BREAK", 0, 0, 0, 0)
Product == I("VMUDL", 0, 1, 2, 3)
Sum == I("VMADL", 0, 3, 1, 1)
Add == I("VADD", 0, 1, 1, 3)
AddC == I("VADDC", 0, 1, 1, 3)
Saw == I("VSAW", 0, 0, 0, 3)
And == I("VAND", 0, 3, 3, 1)
LoadV == I("LQV", 1, 3, 0, 0)
LoadV2 == I("LQV", 1, 2, 0, 0)
StoreV == I("SQV", 1, 3, 0, 0)
StoreT == I("STV", 1, 0, 0, 0)
Const == I("ORI", 0, 1, 0, 0)
Change == I("ADDI", 1, 1, 0, 0)
LoadW == I("LW", 2, 1, 0, 0)
StoreW == I("SW", 1, 2, 0, 0)
From == I("MF", 0, 1, 3, 0)
To == I("MT", 0, 1, 3, 0)
FromC == I("CF", 0, 1, 0, 0)
ToC == I("CT", 0, 1, 0, 0)

Program(s) == s \o [k \in 1..Top + 1 - Len(s) |-> IF k = Top + 1 - Len(s) THEN Stop ELSE Nop]

\* Reordering, dropping and the carry in a straight line.
Some == {Product, Sum, Add, AddC, Saw, And, LoadV, LoadV2, StoreV, Const, Change, LoadW, StoreW,
         From, To, FromC, ToC, StoreT, Stop, Nop, I("VRCPH", 0, 3, 0, 1),
         I("VCH", 0, 1, 1, 2), I("MFC0", 0, 1, 0, 0)}
Straight == {Program(<<a, b, c, Product>>) : a \in Some, b \in Some, c \in Some}
                \cup {Program(<<a, b, c, d, Product>>) :
                         a \in {Const, AddC, Product}, b \in {LoadW, Add, From},
                         c \in {LoadV, Add, StoreT}, d \in {Add, StoreW, LoadV}}

\* A branch between what is dropped and what reads it.
Ways == {Going("BEQ", 1, 0, 0, 5), Going("BEQ", 0, 0, 0, 6), Going("BNE", 0, 0, 0, 6),
         Going("BGTZ", 1, 0, 0, 1), Going("BLTZ", 2, 0, 0, 4), Going("BLTZAL", 1, 0, 0, 5),
         Going("J", 0, 0, 0, 5), Going("JAL", 0, 0, 0, 6)}
Crossing == {Program(<<a, b, way, slot, c, d, e, Stop>>) :
               a \in {Add, Product, AddC}, b \in {Product, StoreV, LoadW}, way \in Ways,
               slot \in {Nop, Change, Add}, c \in {Saw, Add, StoreV, Product},
               d \in {Add, Saw}, e \in {Product, StoreV}}

\* A subroutine, which the link may lead back from.
Base == I("ORI", 0, Link, 0, 0)
FromLink == I("LW", Link, 2, 0, 0)
Calling == {<<a, Going("JAL", 0, 0, 0, 7), slot, b, Stop, Nop, Nop, c,
              Going("JR", Link, 0, 0, 0), Nop>> :
              a \in {Base, AddC, Product}, slot \in {Nop, Add}, b \in {Add, Saw, FromLink},
              c \in {Add, AddC, FromLink, StoreV}}

\* More branches than there is room for.
To8(op) == Going(op, 1, 0, 0, 8)
Many == {Program(<<To8("BEQ"), Nop, To8("BGTZ"), slot, a, way, b, c, d>>) :
           slot \in {Nop, Change}, a \in {Const, Add}, way \in {To8("BNE"), Going("J", 0, 0, 0, 7)},
           b \in {Const, StoreW, Add}, c \in {Add, LoadV}, d \in {Product, LoadV}}
        \cup {Program(<<Going("BEQ", 1, 2, 0, 7), a, Going("BNE", 1, 2, 0, 8), Nop,
                        Going("BLEZ", 1, 0, 0, 6), Nop, b, c>>) :
                 a \in {Nop, Change}, b \in {Add, Saw}, c \in {Product, StoreV}}

\* Jumps that lead to word 0 and to one another.
Circling == {Program(<<Going("J", 0, 0, 0, a), Nop, b, Going("J", 0, 0, 0, c), Nop, d>>) :
               a \in {0, 3, 5}, b \in {Add, Product, Nop}, c \in {0, 3, 5}, d \in {Saw, Product}}

\* Targets that only LinkBranches comes to, the last of them too many.
Linking == {Program(<<Going("BEQ", 1, 2, 0, a), Nop, Going("BNE", 1, 2, 0, b), Nop,
                      way, Nop, Stop, Stop, Add, Stop>>) :
              a \in 7..9, b \in 7..9, way \in {Going("BLEZ", 1, 0, 0, 9), Going("J", 0, 0, 0, 2)}}

\* To the top word and past it; a call from there comes back at word 0.
Ending == {[k \in 1..Top + 1 |-> IF k < 4 THEN a ELSE b] : a \in {Product, Const}, b \in {Add, LoadW}}
          \cup {<<Going("J", 0, 0, 0, 8), Nop, Stop, Stop, Stop, Going("JR", Link, 0, 0, 0), a,
                  Stop, Going("JAL", 0, 0, 0, 5), b>> : a \in {Nop, Add}, b \in {Add, Const}}

\* Sums one after the other, the first of them entered by a branch.
Again == {<<Going("BEQ", 1, 2, 0, 4), a, b, Nop, c, Add, Product, Stop, Nop, Nop>> :
            a \in {AddC, Nop}, b \in {Add, AddC}, c \in {Add, Saw}}

MCPrograms == Again \cup Ending \cup Linking \cup Straight \cup Crossing \cup Calling \cup Many \cup Circling
=============================================================================
