----------------------------- MODULE MCConnPool -----------------------------
(***************************************************************************)
(* Model-checking instances of ConnPool.                                   *)
(***************************************************************************)
EXTENDS ConnPool, TLC

\* Connections are interchangeable, and so are keys.
Symmetry == Permutations(Conns) \cup Permutations(Keys)

=============================================================================
