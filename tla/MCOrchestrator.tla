--------------------------- MODULE MCOrchestrator ---------------------------
(***************************************************************************)
(* A file of one line, topics and a table that may hold one message or row *)
(* of an earlier run, batches of one message, and short polling loops.     *)
(***************************************************************************)
EXTENDS Orchestrator
=============================================================================
