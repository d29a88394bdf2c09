----------------------------- MODULE MCClientTx -----------------------------
(***************************************************************************)
(* Model-checking instances of ClientTx.                                   *)
(***************************************************************************)
EXTENDS ClientTx, TLC

\* The receivers are interchangeable: no property names one of them.
Symmetry == Permutations(Receivers)

=============================================================================
