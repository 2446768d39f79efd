------------------------- MODULE MCWorkflowRuntime --------------------------
(***************************************************************************)
(* One run of a workflow of four nodes: its managed task, and an API call  *)
(* that may execute it at the same time.                                   *)
(***************************************************************************)
EXTENDS WorkflowRuntime

=============================================================================
