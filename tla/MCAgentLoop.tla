---------------------------- MODULE MCAgentLoop ----------------------------
(***************************************************************************)
(* One tool of every class the loop tells apart, three subtasks of which   *)
(* the second is the modification, and a run that may be resumed once.     *)
(***************************************************************************)
EXTENDS AgentLoop

=============================================================================
