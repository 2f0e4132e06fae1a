------------------------------ MODULE Stratify ------------------------------
(***************************************************************************)
(* datalog_program_stratify of lib/rule.c: strata for the predicates of a  *)
(* program by relaxation.  The two loops over rules and body literals meet *)
(* the dependencies head <- literal in a fixed order, so a program is the  *)
(* sequence of its dependencies.  One step looks at one dependency.        *)
(***************************************************************************)
EXTENDS Naturals, Sequences, FiniteSets

CONSTANTS Preds,       \* the constant predicates
          Programs,    \* sequences of dependencies
          MaxStratum   \* bound on the stratifications that results are compared with

Dependencies == [head : Preds, sub : Preds, negated : BOOLEAN]

ASSUME StratifyAssumption ==
    /\ Programs \subseteq Seq(Dependencies)
    /\ <<>> \notin Programs
    /\ MaxStratum \in Nat

VARIABLES
    program,
    stratum,    \* of each predicate
    iter,       \* passes begun, less one
    next,       \* the dependency to look at
    changed,    \* this pass has raised a stratum
    answer      \* "none" yet, "strata" or "NULL"

vars == <<program, stratum, iter, next, changed, answer>>

TypeOK ==
    /\ program \in Programs
    /\ stratum \in [Preds -> Nat]
    /\ iter \in Nat
    /\ next \in 1..(Len(program) + 1)
    /\ changed \in BOOLEAN
    /\ answer \in {"none", "strata", "NULL"}

Init ==
    /\ program \in Programs
    /\ stratum = [q \in Preds |-> 0]
    /\ iter = 0
    /\ next = 1
    /\ changed = FALSE
    /\ answer = "none"

-----------------------------------------------------------------------------
\* The collected predicates: pred_count is their number.
Used == {program[i].head : i \in DOMAIN program} \union {program[i].sub : i \in DOMAIN program}

\* Mutation: a negated literal treated like a positive one.
NeededIgnoresNegation(d) == stratum[d.sub]

\* A literal's stratum, one more when it is negated: what its head must reach.
Needed(d) == IF d.negated THEN stratum[d.sub] + 1 ELSE stratum[d.sub]

\* Mutation: the head is raised beyond what the literal needs.
RaiseTooFar ==
    /\ answer = "none"
    /\ next <= Len(program)
    /\ stratum[program[next].head] < Needed(program[next])
    /\ stratum' = [stratum EXCEPT ![program[next].head] = Needed(program[next]) + 1]
    /\ changed' = TRUE
    /\ next' = next + 1
    /\ UNCHANGED <<program, iter, answer>>

Raise ==
    /\ answer = "none"
    /\ next <= Len(program)
    /\ stratum[program[next].head] < Needed(program[next])
    /\ stratum' = [stratum EXCEPT ![program[next].head] = Needed(program[next])]
    /\ changed' = TRUE
    /\ next' = next + 1
    /\ UNCHANGED <<program, iter, answer>>

Keep ==
    /\ answer = "none"
    /\ next <= Len(program)
    /\ stratum[program[next].head] >= Needed(program[next])
    /\ next' = next + 1
    /\ UNCHANGED <<program, stratum, iter, changed, answer>>

\* Another pass: pred_count + 1 of them at most.
Again ==
    /\ answer = "none"
    /\ next = Len(program) + 1
    /\ changed
    /\ iter < Cardinality(Used)
    /\ iter' = iter + 1
    /\ next' = 1
    /\ changed' = FALSE
    /\ UNCHANGED <<program, stratum, answer>>

Accept ==
    /\ answer = "none"
    /\ next = Len(program) + 1
    /\ ~ changed
    /\ answer' = "strata"
    /\ UNCHANGED <<program, stratum, iter, next, changed>>

\* Mutation: the program is refused after any pass that raises a stratum.
RefuseEarly ==
    /\ answer = "none"
    /\ next = Len(program) + 1
    /\ changed
    /\ answer' = "NULL"
    /\ UNCHANGED <<program, stratum, iter, next, changed>>

Refuse ==
    /\ answer = "none"
    /\ next = Len(program) + 1
    /\ changed
    /\ iter = Cardinality(Used)
    /\ answer' = "NULL"
    /\ UNCHANGED <<program, stratum, iter, next, changed>>

Next == Raise \/ Keep \/ Again \/ Accept \/ Refuse

Spec == Init /\ [][Next]_vars

-----------------------------------------------------------------------------
(* Properties *)

\* f is a stratification: no head is below a literal, nor level with a negated one.
Stratifies(f, deps) ==
    \A i \in DOMAIN deps :
        f[deps[i].head] >= (IF deps[i].negated THEN f[deps[i].sub] + 1 ELSE f[deps[i].sub])

\* The strata that datalog_program_stratify returns are a stratification, and
\* the last pass, whose answer says so, has looked at every dependency.
Sound == answer = "strata" => Stratifies(stratum, program)

\* They are the lowest possible: no stratification puts a predicate lower, so
\* that rules are evaluated as early, and in as few strata, as negation allows.
Lowest ==
    \A f \in [Preds -> 0..MaxStratum] :
        Stratifies(f, program) => \A q \in Preds : stratum[q] <= f[q]

\* "If stratum values change in the last iteration, it means there is a cycle
\* with negation" (rule.c:682): a refused program has no stratification.
RefusedRightly ==
    answer = "NULL" => \A f \in [Preds -> 0..MaxStratum] : ~ Stratifies(f, program)

\* What the pass has established so far (StratifyProofs.tla).
PassSoFar ==
    /\ ~ changed => \A i \in 1..(next - 1) :
          stratum[program[i].head] >= Needed(program[i])
    /\ answer = "strata" => ~ changed /\ next = Len(program) + 1

IInv == TypeOK /\ PassSoFar /\ Lowest

(* Why a refused program has no stratification *)

\* The lowest stratification of the program, if there is one.
Least(f) ==
    /\ f \in [Preds -> 0..MaxStratum] /\ Stratifies(f, program)
    /\ \A g \in [Preds -> 0..MaxStratum] :
          Stratifies(g, program) => \A q \in Preds : f[q] <= g[q]

\* The predicates that have reached their stratum.
Settled(f) == {q \in Used : stratum[q] = f[q]}

\* The literal is a reason for its head's stratum.
Decides(f, d) == f[d.head] = IF d.negated THEN f[d.sub] + 1 ELSE f[d.sub]

\* Every pass settles a predicate as long as one is left: it comes to a literal
\* that is settled and decides about a head that is not.
Settling ==
    \A f \in [Preds -> 0..MaxStratum] : Least(f) =>
        /\ Cardinality(Settled(f)) >= iter
        /\ \/ Cardinality(Settled(f)) > iter
           \/ Settled(f) = Used
           \/ \A i \in 1..(next - 1) :
                 program[i].sub \in Settled(f) /\ Decides(f, program[i])
                     => program[i].head \in Settled(f)
        /\ changed => iter < Cardinality(Used)
        /\ answer # "NULL"
=============================================================================
