------------------------- MODULE MCDefinitionStore -------------------------
(***************************************************************************)
(* Two threads share the repository.  One id is enough for the file and    *)
(* the versions, which hold the whole map; no symmetry, since the run has  *)
(* temporal properties.                                                    *)
(***************************************************************************)
EXTENDS DefinitionStore

=============================================================================
