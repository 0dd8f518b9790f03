--------------------------- MODULE MCLspSession -----------------------------
(* Instances of LspSession for TLC.                                        *)
EXTENDS LspSession

CONSTANTS r1, r2
=============================================================================
