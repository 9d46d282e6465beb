----------------------------- MODULE MCExecution -----------------------------
(* A small instance of Execution for TLC.                                  *)
EXTENDS ExecutionProperties
=============================================================================
