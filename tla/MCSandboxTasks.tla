--------------------------- MODULE MCSandboxTasks ---------------------------
(***************************************************************************)
(* Two submissions to a queue of one, at two priorities, two retries each, *)
(* and one stop of the worker.                                             *)
(***************************************************************************)
EXTENDS SandboxTasks

=============================================================================
