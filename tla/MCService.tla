----------------------------- MODULE MCService ------------------------------
(***************************************************************************)
(* Model-checking instance of Service.                                     *)
(***************************************************************************)
EXTENDS Service

=============================================================================
