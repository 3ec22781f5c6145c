------------------------------ MODULE MCPlayback -----------------------------
(* Playback for TLC: words of four bits, so that 8 and above mean for ever. *)
EXTENDS Playback
=============================================================================
