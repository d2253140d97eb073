------------------------------ MODULE MCPcre2 ------------------------------
(* Two patterns; matches inside of a callout of a match.                   *)
EXTENDS Pcre2, TLC

Symmetry == Permutations(Rex)
=============================================================================
