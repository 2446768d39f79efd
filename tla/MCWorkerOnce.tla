---------------------------- MODULE MCWorkerOnce ----------------------------
(***************************************************************************)
(* One schedule is due, for a workflow of a single node.                   *)
(***************************************************************************)
EXTENDS WorkerOnce

=============================================================================
