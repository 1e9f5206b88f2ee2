-------------------------- MODULE MCInterruptPath --------------------------
EXTENDS InterruptPath
=============================================================================
