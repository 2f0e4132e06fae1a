------------------------------ MODULE MCLinda ------------------------------
(***************************************************************************)
(* Linda.tla for TLC: two tuples in different partitions, the patterns     *)
(* that name one of them and the pattern with a variable subject.          *)
(***************************************************************************)
EXTENDS Linda, TLC

CONSTANTS ping, pong

MCTuples == {ping, pong}

MCPartitionOf == (ping :> 1 @@ pong :> 2)

MCPatterns == {[tuples |-> {ping}, cond |-> 1], [tuples |-> {ping, pong}, cond |-> 0]}

MCDerived == {ping}

MCDirectTuples == {pong}

\* The space's life is about one tuple.
OneTuple == {ping}

OnePartition == (ping :> 1)

OneTuplePatterns == {[tuples |-> {ping}, cond |-> 1], [tuples |-> {ping}, cond |-> 0]}

NoTuples == {}

ClientSymmetry == Permutations(Clients)
=============================================================================
