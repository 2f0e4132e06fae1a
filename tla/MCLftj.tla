------------------------------- MODULE MCLftj -------------------------------
(***************************************************************************)
(* Lftj.tla for TLC.  Queries of one pattern with any terms, and joins of  *)
(* two or three patterns over databases in which a join has to skip values *)
(* on either side.                                                         *)
(***************************************************************************)
EXTENDS Lftj

CONSTANTS X, Y, Z

Unbound == [v \in Vars |-> NULL]

Ask(databases, queries, given) == [facts : databases, goals : queries, given : given]

\* One pattern, over every database of at most two facts with two symbols.
Small == {D \in SUBSET [Columns -> {1, 2}] : Cardinality(D) <= 2}

OnePattern == {<<g>> : g \in Triples({1, 2, X, Y}) \union {<<X, Y, Z>>}}

\* Joins whose tries fit, and below them joins whose tries fit some of the databases
\* or none.
Joins == {<< <<X, 1, 2>>, <<X, 2, 2>> >>,
          << <<X, 1, 2>>, <<X, 2, 2>>, <<X, 3, 3>> >>,
          << <<1, 1, Y>>, <<X, 1, Y>> >>,
          << <<1, 1, X>>, <<Y, 1, X>>, <<Y, 2, 2>> >>,
          << <<X, Y, 2>>, <<X, Y, 3>> >>,
          << <<X, Y, Z>>, <<X, 1, 2>> >>,
          << <<X, 1, Y>>, <<Y, 1, Z>> >>,
          << <<X, 1, Y>>, <<X, Z, Y>> >>,
          << <<X, 1, X>>, <<X, 2, Y>> >>}

Pool == {<<1, 1, 2>>, <<2, 1, 2>>, <<3, 1, 2>>, <<1, 2, 2>>, <<3, 2, 2>>, <<1, 1, 3>>, <<3, 3, 3>>}

\* Variables that have a value before the search.
Held == {<< <<X, 1, 2>> >>, << <<X, 2, Y>> >>, << <<X, Y, 2>>, <<1, Y, Z>> >>}

Values == {[Unbound EXCEPT ![v] = n] : v \in {X, Y}, n \in {1, 3}}

AllCalls ==
    Ask(Small, OnePattern, {Unbound}) \union Ask(SUBSET Pool, Joins, {Unbound}) \union Ask(SUBSET Pool, Held, Values)

\* A chain of two steps.
Chain == Ask(SUBSET {<<1, 1, 2>>, <<1, 1, 3>>, <<2, 2, 1>>, <<3, 1, 2>>}, {<< <<X, 1, Y>>, <<Y, 1, Z>> >>}, {Unbound})
=============================================================================
