------------------------------- MODULE MCQuery ------------------------------
(***************************************************************************)
(* Query.tla for TLC: joins, negation and pages over every store that a    *)
(* writer can make of five facts.                                          *)
(***************************************************************************)
EXTENDS Query

CONSTANTS X, Y, Z, W

T(s, p, o) == [s |-> s, p |-> p, o |-> o, negated |-> FALSE]

Not(s, p, o) == [s |-> s, p |-> p, o |-> o, negated |-> TRUE]

\* 1 and 2 are predicates, 3 to 5 the things they relate; no fact holds 6.
FiveFacts == {<<3, 1, 4>>, <<4, 1, 5>>, <<3, 1, 5>>, <<4, 2, 4>>, <<5, 2, 3>>}

\* The texts are in another order than the ids.
Shuffled == <<3, 1, 6, 4, 5, 2>>

\* At most one negated triple, which the sort puts last: its variables are bound
\* by the last positive pattern only.
MCAsked ==
    {<<T(X, Y, Z)>>,
     <<T(3, X, 4)>>,
     <<T(3, 1, 4)>>,
     <<T(X, Y, 5)>>,
     <<Not(3, 1, 6)>>,
     <<T(X, 1, Y), T(Y, 1, Z), T(X, 1, Z)>>,
     <<T(X, 1, Y), T(Z, 2, 4), T(X, 2, Z)>>,
     <<Not(X, 2, X), T(X, 1, Y)>>,
     <<T(X, 1, Y), Not(Y, Z, X)>>,
     <<T(X, 1, Y), Not(X, 2, Z), T(Y, 2, Z)>>,
     <<T(X, 1, 6), T(X, 2, Y)>>}

Mod(limit, offset, var, desc) ==
    [ask |-> FALSE, limit |-> limit, offset |-> offset, sort_var |-> var, sort_desc |-> desc]

MCModifiers ==
    {Mod(-1, 0, NoVar, FALSE), Mod(2, 1, NoVar, FALSE), Mod(-1, 0, X, FALSE), Mod(2, 1, X, TRUE),
     Mod(-1, 4, Z, FALSE), Mod(0, 0, W, FALSE), [Mod(5, 2, NoVar, FALSE) EXCEPT !.ask = TRUE]}

\* Two negated triples about the same thing.
Twice == {<<T(X, 1, Y), Not(X, 2, 5), Not(X, 2, 4)>>}

Plain == {Mod(-1, 0, NoVar, FALSE)}

\* The terms of one query, and those of a few more that leave symbol 2 alone.
Lean == {[a \in Symbols |-> 3], [a \in Symbols |-> IF a = 2 THEN 3 ELSE 9]}

\* A query that excludes something, and its predicate after 100000 queries.
Excluding == {<<T(X, 1, Y), Not(X, 2, Y)>>}

Worn == {[a \in Symbols |-> IF a = 1 THEN 100001 ELSE 1]}

ByName == {Mod(-1, 0, X, FALSE)}

OnePattern == {<<T(X, Y, Z)>>}

\* The hypothesis of the theorems in QueryProofs.tla.
ASSUME \A triples \in MCAsked : Searchable(triples)

=============================================================================
