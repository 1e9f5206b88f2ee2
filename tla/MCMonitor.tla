------------------------------ MODULE MCMonitor ------------------------------
(***************************************************************************)
(* The scripts against a machine that runs two ticks.                      *)
(***************************************************************************)
EXTENDS Monitor

AllScripts == {"fault", "diag", "debug", "raw"}
=============================================================================
