----------------------------- MODULE MCHashSet -----------------------------
(***************************************************************************)
(* HashSet.tla for TLC: hashes that collide, before and after the table    *)
(* grows, and that wrap round its end.                                     *)
(***************************************************************************)
EXTENDS HashSet, TLC

CONSTANTS a, b, c, d, e

MCKeys == {a, b, c, d, e}

MCHash == (a :> 7 @@ b :> 15 @@ c :> 23 @@ d :> 6 @@ e :> 0)
=============================================================================
