----------------------------- MODULE MCTxLayer -----------------------------
(***************************************************************************)
(* Model-checking instances of TxLayer.                                    *)
(***************************************************************************)
EXTENDS TxLayer, TLC

\* Handlers are interchangeable.
Symmetry == Permutations(Handlers)

=============================================================================
