----------------------------- MODULE MCFactsTx -----------------------------
(***************************************************************************)
(* FactsTx.tla for TLC: two values of one property, and a fact whose       *)
(* symbols coincide.                                                       *)
(***************************************************************************)
EXTENDS FactsTx, TLC

CONSTANTS a, p, b

MCSymbols == {a, p, b}

MCFacts == {<<a, p, b>>, <<a, p, a>>}

ThreadSymmetry == Permutations(Threads)
=============================================================================
