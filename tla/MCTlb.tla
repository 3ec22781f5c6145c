-------------------------------- MODULE MCTlb --------------------------------
(* Tlb for TLC: sixteen pages, two entries. *)
EXTENDS Tlb

Hi(v, a) == [vpn2 |-> v, asid |-> a, bit8 |-> FALSE]

(* Pages 0 and 1, or 0 to 7; 8 and 9, or 8 to 15, from the first page of the *)
(* direct segment on.  A miss on page 2 adds pages 2 and 3, or 2 to 9, across *)
(* its edge.                                                                *)
MCHiWrites == {Hi(0, 0), Hi(4, 1)}

Invalid == [valid |-> FALSE, pfn |-> 0]
Valid == [valid |-> TRUE, pfn |-> 1]

MCLoWrites == {Valid}

(* An entry that is not defined, a large one of which the odd half is not   *)
(* valid (TLBR brings it to the registers), and one for the last page of    *)
(* the address space.                                                       *)
MCFileEntries ==
    {[defined |-> FALSE, mask |-> 0, hi |-> Hi(0, 0),
      lo |-> [h \in Halves |-> Valid]],
     [defined |-> TRUE, mask |-> 3, hi |-> Hi(0, 0),
      lo |-> [h \in Halves |-> IF h = Even THEN Valid ELSE Invalid]],
     [defined |-> TRUE, mask |-> 0, hi |-> Hi(7, 0),
      lo |-> [h \in Halves |-> Valid]]}
=============================================================================
