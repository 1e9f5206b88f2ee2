-------------------------- MODULE MCTimerInterrupt --------------------------
EXTENDS TimerInterrupt
=============================================================================
