------------------------------ MODULE MCMagic -------------------------------
(***************************************************************************)
(* Magic.tla for TLC: recursive programs over every graph of four edges.   *)
(***************************************************************************)
EXTENDS Magic

CONSTANTS X, Y, Z, U

P(s, p, o) == Atom(s, p, o, FALSE)

Not(s, p, o) == Atom(s, p, o, TRUE)

Rule(head, body) == [head |-> head, body |-> body]

Edge == Rule(P(X, "path", Y), <<P(X, "edge", Y)>>)
Right == Rule(P(X, "path", Y), <<P(X, "edge", Z), P(Z, "path", Y)>>)
Left == Rule(P(X, "path", Y), <<P(X, "path", Z), P(Z, "edge", Y)>>)
Both == Rule(P(X, "path", Y), <<P(X, "path", Z), P(Z, "path", Y)>>)

\* Each program with the predicate to ask for.
Programs ==
    {<<"path", <<Edge, Right>>>>,
     <<"path", <<Edge, Left>>>>,
     <<"path", <<Both, Edge>>>>,
     <<"path", <<Edge, Rule(P(X, "path", Y), <<P(Z, "path", Y), P(X, "edge", Z)>>)>>>>,
     <<"odd", <<Rule(P(X, "odd", Y), <<P(X, "edge", Y)>>),
                Rule(P(X, "odd", Y), <<P(X, "edge", Z), P(Z, "even", Y)>>),
                Rule(P(X, "even", Y), <<P(Y, "odd", Z), P(Z, "edge", X)>>)>>>>,
     <<"peer", <<Rule(P(X, "peer", Y), <<P(Z, "edge", X), P(Z, "edge", Y)>>),
                 Rule(P(X, "peer", Y), <<P(U, "edge", X), P(U, "peer", Z), P(Z, "edge", Y)>>)>>>>,
     <<"far", <<Rule(P(X, "far", Y), <<P(X, "path", Y), Not(X, "edge", Y)>>), Edge, Right>>>>,
     <<"far", <<Rule(P(X, "far", Y), <<P(X, "edge", Z), Not(X, "edge", X), P(Z, "path", Y)>>), Edge, Left>>>>,
     <<"hub", <<Rule(P(X, "hub", Y), <<P(1, "path", X), P(Y, "path", X)>>),
                Rule(P(X, "hub", 2), <<P(X, "hub", X)>>), Edge, Right>>>>}

MCRounds == {16}

Goals(p) == {P(1, p, Y), P(X, p, 2), P(1, p, 3), P(X, p, Y), P(X, p, X)}

Graphs == {{<<e[1], "edge", e[2]>> : e \in E} : E \in SUBSET {<<1, 2>>, <<2, 3>>, <<3, 1>>, <<1, 3>>}}

MCInputs ==
    UNION {[rules : {q[2]}, facts : Graphs, goal : Goals(q[1])] : q \in Programs}

\* The inputs are such as the theorem about Exact is about.
ASSUME SeparateInputs == Separate
=============================================================================
