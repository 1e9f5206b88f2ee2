------------------------------- MODULE MCPit -------------------------------
EXTENDS Pit
=============================================================================
