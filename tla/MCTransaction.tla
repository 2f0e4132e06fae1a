---------------------------- MODULE MCTransaction ----------------------------
(***************************************************************************)
(* Transaction.tla for TLC.  Threads are interchangeable, so they are a    *)
(* symmetry set; ImplementsTxLock has no liveness part, so that is sound.  *)
(***************************************************************************)
EXTENDS Transaction, TLC

ThreadSymmetry == Permutations(Threads)
=============================================================================
