------------------------------- MODULE MCScopes -------------------------------
(* Instance of Scopes for TLC. *)
EXTENDS Scopes
=============================================================================
