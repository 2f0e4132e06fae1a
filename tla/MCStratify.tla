----------------------------- MODULE MCStratify -----------------------------
(***************************************************************************)
(* Stratify.tla for TLC: all programs of up to three dependencies between  *)
(* three predicates, and cycles of four.                                   *)
(***************************************************************************)
EXTENDS Stratify

CONSTANTS p, q, r

MCPreds == {p, q, r}

Ring == { <<[head |-> p, sub |-> q, negated |-> n], [head |-> q, sub |-> r, negated |-> m],
            [head |-> r, sub |-> p, negated |-> k], [head |-> r, sub |-> q, negated |-> j]>>
              : n \in BOOLEAN, m \in BOOLEAN, k \in BOOLEAN, j \in BOOLEAN }

MCPrograms ==
    UNION {[1..n -> [head : MCPreds, sub : MCPreds, negated : BOOLEAN]] : n \in 1..3} \union Ring
=============================================================================
