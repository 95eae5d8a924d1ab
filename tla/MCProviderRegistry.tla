------------------------- MODULE MCProviderRegistry -------------------------
(* Model values and fallback orders for the runs of ProviderRegistry. *)
EXTENDS ProviderRegistry, TLC

CONSTANTS p1, p2

OnlyFirst == <<p1>>
FirstThenSecond == <<p1, p2>>

Symmetry == Permutations(Callers)
=============================================================================
