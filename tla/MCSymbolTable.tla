-------------------------- MODULE MCSymbolTable --------------------------
(* Values are never compared but for equality, and the functions called x *)
(* differ only by name: both sets may be permuted.                        *)
EXTENDS SymbolTable, TLC

Symmetry == Permutations(Values) \cup Permutations(Self)
=============================================================================
