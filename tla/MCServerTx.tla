----------------------------- MODULE MCServerTx -----------------------------
(***************************************************************************)
(* Model-checking instances of ServerTx.                                   *)
(***************************************************************************)
EXTENDS ServerTx, TLC

\* Receivers are interchangeable, and so are the TU's responders.
Symmetry == Permutations(Receivers) \cup Permutations(Responders)

=============================================================================
