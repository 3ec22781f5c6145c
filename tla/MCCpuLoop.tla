----------------------------- MODULE MCCpuLoop ------------------------------
(* CpuLoop for TLC: the status values that matter, few devices. *)
EXTENDS CpuLoop

On == [ie |-> TRUE, exl |-> FALSE, erl |-> FALSE, im |-> {IP2, IP7}]

MCStatusWrites ==
    {On, [On EXCEPT !.im = {IP2}], [On EXCEPT !.ie = FALSE],
     [On EXCEPT !.exl = TRUE], [On EXCEPT !.erl = TRUE]}

MCMaskWrites == {{"VI"}, {"AI", "SP", "SI"}}
=============================================================================
