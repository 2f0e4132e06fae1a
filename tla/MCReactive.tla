----------------------------- MODULE MCReactive -----------------------------
(***************************************************************************)
(* Reactive.tla for TLC.  Facts over the predicates of small programs: e1, *)
(* e2, e3 and k1, k2 are facts of two stored relations, p1, p2, p3 and q1, *)
(* q2 of derived ones.                                                     *)
(***************************************************************************)
EXTENDS Reactive

CONSTANTS e1, e2, e3, k1, k2, p1, p2, p3, q1, q2, h1

MCAtoms == {e1, e2, e3, k1, k2, p1, p2, p3, q1, q2, h1}

MCPredOf ==
    [x \in MCAtoms |-> CASE x \in {e1, e2, e3} -> "e" [] x \in {k1, k2} -> "k"
                         [] x \in {p1, p2, p3} -> "p" [] x \in {q1, q2} -> "q" [] x = h1 -> "h"]

Rule(h, b, n) == [head |-> h, pos |-> b, neg |-> n]

\* path(1,2), path(2,3) and path(1,3) from edges e1, e2, e3, by a rule that is
\* recursive in both literals.
Closure == {Rule(p1, <<e1>>, {}), Rule(p2, <<e2>>, {}), Rule(p3, <<e3>>, {}), Rule(p3, <<p1, p2>>, {}),
            Rule(q1, <<k1, p3>>, {})}

\* Facts that support each other, and negation above them.
Cycle == {Rule(p1, <<e1>>, {}), Rule(p1, <<p2>>, {}), Rule(p2, <<p1>>, {}), Rule(q1, <<k1>>, {p2})}

\* Three strata.
Tower == {Rule(p1, <<e1>>, {}), Rule(p2, <<p1, e2>>, {}), Rule(q1, <<k1>>, {p2}), Rule(q2, <<q1>>, {}),
          Rule(h1, <<k2>>, {q2})}

\* Positive rules without a cycle, one conclusion with two proofs.
Diamond == {Rule(p1, <<e1>>, {}), Rule(p2, <<e2>>, {}), Rule(q1, <<p1>>, {}), Rule(q1, <<p2>>, {}),
            Rule(h1, <<q1, k1>>, {})}

\* Negation of stored facts only, one proof for each conclusion.
Guarded == {Rule(h1, <<e1>>, {k1}), Rule(q2, <<h1>>, {}), Rule(q1, <<e3, e1>>, {k1, k2}), Rule(p1, <<q1, e3>>, {})}

AllPrograms == {Closure, Diamond, Guarded, Cycle, Tower}

\* The programs that the incremental maintenance keeps right.
Kept == {Closure, Diamond, Guarded}

\* Those of them that the theorems of ReactiveProofs.tla are about, when a commit
\* only adds or only removes.
ASSUME PositiveKept == <<1, 1>> \notin Sizes => MaintainableUnder({Closure, Diamond})

\* A conclusion that negates a derived fact; one that joins a derived fact with
\* a stored one.
NegatedDerived == {{Rule(p1, <<e1>>, {}), Rule(h1, <<k1>>, {p1})}}
Join == {{Rule(p1, <<e1>>, {}), Rule(q1, <<p1, k1>>, {})}}

Loop == {Cycle}

\* Facts that one commit adds and removes.
OneWay == {<<2, 0>>, <<0, 2>>}
Single == {<<1, 0>>, <<0, 1>>}
Both == {<<1, 1>>}
=============================================================================
