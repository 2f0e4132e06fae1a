------------------------------- MODULE MCUrcu -------------------------------
(***************************************************************************)
(* Urcu.tla for TLC: two readers, as many slots, two replacements.         *)
(***************************************************************************)
EXTENDS Urcu
=============================================================================
