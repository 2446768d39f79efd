------------------------- MODULE MCWorkflowSchedule -------------------------
(***************************************************************************)
(* Two or three schedules, numbered by run_at, and one or two processes.   *)
(* The file of the run with three has room for two of them, so a save may  *)
(* have to drop the earliest.                                              *)
(***************************************************************************)
EXTENDS WorkflowSchedule

=============================================================================
