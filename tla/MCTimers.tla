----------------------------- MODULE MCTimers ------------------------------
EXTENDS Timers
=============================================================================
