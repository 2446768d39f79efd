---------------------------- MODULE MCApprovals -----------------------------
(***************************************************************************)
(* Two approvals, of which the file keeps one, and two requests that may   *)
(* wait for a tool at the same time.                                       *)
(***************************************************************************)
EXTENDS Approvals

=============================================================================
