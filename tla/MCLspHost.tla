----------------------------- MODULE MCLspHost ------------------------------
(* Instances of LspHost for TLC.                                           *)
EXTENDS LspHost, TLC

CONSTANTS c1, c2

Symmetry == Permutations({c1, c2})
=============================================================================
