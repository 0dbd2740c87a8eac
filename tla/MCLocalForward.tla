----------------------------- MODULE MCLocalForward -----------------------------
(***************************************************************************)
(* LocalForward on small sets.                                             *)
(***************************************************************************)
EXTENDS LocalForward

=============================================================================
