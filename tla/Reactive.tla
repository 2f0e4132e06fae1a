------------------------------ MODULE Reactive ------------------------------
(***************************************************************************)
(* Derived facts: facts_attach_program (lib/facts.c), the commit listener, *)
(* the full and the incremental evaluation (lib/eval.c) and the graph of   *)
(* justifications (lib/justification.c).                                   *)
(*                                                                         *)
(* Rules are ground: a program is the set of the instances of its rules,   *)
(* and an instance stands for the justification that the code records for  *)
(* it, so a graph is a set of rules.  All the solutions that one pass over *)
(* the rules of a stratum finds are one step: they go to a scratch         *)
(* database and the store changes only after the pass.                     *)
(*                                                                         *)
(* A writer holds the database's lock from the first change to the end of  *)
(* its commit (Transaction.tla), so there is one writer's state here.  The *)
(* thread that attaches a program has one step left after it has released  *)
(* the lock.                                                               *)
(***************************************************************************)
EXTENDS Integers, Sequences, FiniteSets, FiniteSetsExt

CONSTANTS
    Atoms,        \* facts
    PredOf,       \* [Atoms -> predicates]
    Programs,     \* the programs that are attached, stratified
    Assertable,   \* facts that the application asserts
    Sizes,        \* bounds on a transaction: <<facts that appear, facts that disappear>>
    Maintained,   \* the programs under which the application changes facts
    SecondThread  \* another thread writes before facts_attach_program returns

Preds == {PredOf[x] : x \in Atoms}

\* The strata of a predicate are below the number of predicates.
Levels == 0..(Cardinality(Preds) - 1)

\* head :- pos[1], ..., pos[n], NOT x for the x in neg.  prepare_rule_query
\* refuses a body without a positive literal.
IsRule(r) ==
    /\ DOMAIN r = {"head", "pos", "neg"}
    /\ r.head \in Atoms
    /\ r.pos \in Seq(Atoms) /\ r.pos # <<>>
    /\ r.neg \subseteq Atoms

ASSUME ReactiveAssumption ==
    /\ \A P \in Programs : \A r \in P : IsRule(r)
    /\ Assertable \subseteq Atoms
    /\ Sizes \subseteq Nat \X Nat
    /\ Maintained \subseteq Programs
    /\ SecondThread \in BOOLEAN

VARIABLES
    program,    \* the attached program; {} when there is none
    stratum,    \* of its predicates
    asserted,   \* facts with asserted support
    derived,    \* facts with derived support
    graph,      \* facts->justifications
    staged,     \* facts->justifications_staging is not NULL,
    staging,    \* and holds these; {} otherwise
    phase,      \* where the writer is
    added,      \* facts with a ROLLBACK_REMOVE entry in the journal
    removed,    \* facts with a ROLLBACK_ADD entry
    saved,      \* what a rollback brings back
    pending,    \* invalidation events to come: <<fact, negated>>
    seen,       \* all invalidation events
    scan,       \* requires_closure_scan
    s,          \* the stratum at work
    old, delta, \* old_db, delta_db
    plus, minus, \* cumulative_delta_db, cumulative_minus_db
    attach      \* facts_attach_program: "none", "running", or "returning" without the lock

store == <<program, stratum, asserted, derived, graph>>
journal == <<added, removed, saved>>
events == <<pending, seen, scan>>
scratch == <<s, old, delta, plus, minus>>

vars == <<program, stratum, asserted, derived, graph, staged, staging, phase, added, removed, saved,
          pending, seen, scan, s, old, delta, plus, minus, attach>>

Phases == {"idle", "open", "invalidate", "seed", "round", "delete seed", "delete round",
           "insert seed", "insert round"}

Facts == asserted \union derived

TypeOK ==
    /\ program \in Programs \union {{}}
    /\ stratum \in [Preds -> Levels]
    /\ asserted \subseteq Assertable
    /\ derived \subseteq Atoms
    /\ graph \subseteq UNION Programs
    /\ staged \in BOOLEAN
    /\ staging \subseteq program
    /\ ~ staged => staging = {}
    /\ phase \in Phases
    /\ added \subseteq Assertable /\ removed \subseteq Assertable
    /\ pending \subseteq seen /\ seen \subseteq Atoms \X BOOLEAN
    /\ scan \in BOOLEAN
    /\ s \in Nat
    /\ UNION {old, delta, plus, minus} \subseteq Atoms
    /\ attach \in {"none", "running", "returning"}

Init ==
    /\ program = {} /\ stratum = [q \in Preds |-> 0]
    /\ asserted = {} /\ derived = {}
    /\ graph = {} /\ staged = FALSE /\ staging = {}
    /\ phase = "idle"
    /\ added = {} /\ removed = {} /\ saved = <<>>
    /\ pending = {} /\ seen = {} /\ scan = FALSE
    /\ s = 0 /\ old = {} /\ delta = {} /\ plus = {} /\ minus = {}
    /\ attach = "none"

-----------------------------------------------------------------------------
(* Programs *)

Heads(rules) == {r.head : r \in rules}

Body(r) == {r.pos[i] : i \in DOMAIN r.pos}

Stratifies(f, P) ==
    \A r \in P :
        /\ \A x \in Body(r) : f[PredOf[r.head]] >= f[PredOf[x]]
        /\ \A x \in r.neg : f[PredOf[r.head]] > f[PredOf[x]]

\* The result of datalog_program_stratify: the lowest stratification (Lowest
\* in Stratify.tla).
Strata(P) ==
    CHOOSE f \in [Preds -> Levels] :
        /\ Stratifies(f, P)
        /\ \A g \in [Preds -> Levels] : Stratifies(g, P) => \A q \in Preds : f[q] <= g[q]

Rules == {r \in program : stratum[PredOf[r.head]] = s}

num_strata == 1 + Max({0} \union {stratum[PredOf[r.head]] : r \in program})

\* Positions of a body with a predicate that rules of this stratum derive.
Recursive(r) == {i \in DOMAIN r.pos : \E q \in Rules : PredOf[q.head] = PredOf[r.pos[i]]}

Unblocked(r) == r.neg \intersect Facts = {}

-----------------------------------------------------------------------------
(* Transactions of the application *)

Begin ==
    /\ phase = "idle"
    /\ attach = "none" \/ SecondThread
    /\ program \in Maintained \union {{}}
    /\ phase' = "open"
    /\ added' = {} /\ removed' = {}
    /\ saved' = store
    /\ UNCHANGED <<store, staged, staging, events, scratch, attach>>

\* Support next to other support is a ROLLBACK_STATE entry, which the listener ignores.
Assert(x) ==
    /\ phase = "open"
    /\ x \notin asserted
    /\ \E n \in Sizes : Cardinality(added) < n[1] /\ Cardinality(removed) <= n[2]
    /\ asserted' = asserted \union {x}
    /\ added' = IF x \in derived THEN added ELSE added \union {x}
    /\ UNCHANGED <<program, stratum, derived, graph, staged, staging, phase, removed, saved, events, scratch, attach>>

Retract(x) ==
    /\ phase = "open"
    /\ x \in asserted
    /\ \E n \in Sizes : Cardinality(added) <= n[1] /\ Cardinality(removed) < n[2]
    /\ asserted' = asserted \ {x}
    /\ removed' = IF x \in derived THEN removed ELSE removed \union {x}
    /\ UNCHANGED <<program, stratum, derived, graph, staged, staging, phase, added, saved, events, scratch, attach>>

\* transaction_commit calls reactive_tx_listener, which stages a copy of the graph.
Commit ==
    /\ phase = "open"
    /\ staged' = TRUE
    /\ staging' = graph
    /\ pending' = (removed \X {FALSE}) \union (added \X {TRUE})
    /\ seen' = pending'
    /\ scan' = (removed # {})
    /\ phase' = "invalidate"
    /\ UNCHANGED <<store, journal, scratch, attach>>

\* The application's rollback, and the end of a listener that has run out of
\* memory: the staged graph is discarded and the journal undone.
Restored ==
    /\ phase' = "idle"
    /\ staged' = FALSE
    /\ staging' = {}
    /\ program' = saved[1] /\ stratum' = saved[2] /\ asserted' = saved[3]
    /\ derived' = saved[4]
    /\ added' = {} /\ removed' = {} /\ saved' = <<>>
    /\ pending' = {} /\ seen' = {} /\ scan' = FALSE
    /\ s' = 0 /\ old' = {} /\ delta' = {} /\ plus' = {} /\ minus' = {}
    /\ attach' = IF attach = "running" THEN "none" ELSE attach
    /\ UNCHANGED graph

Rollback == phase = "open" /\ Restored

Fail == phase \notin {"idle", "open"} /\ Restored

-----------------------------------------------------------------------------
(* Invalidation: facts_invalidate_justifications *)

\* justification_uses_support; e is <<fact, negated>>.
Uses(r, e) == e[1] \in (IF e[2] THEN r.neg ELSE Body(r))

\* Mutation: the proofs left are counted before those that use the support go.
UnsupportedCountsFirst(gone) == (Heads(gone) \ Heads(staging)) \intersect derived

\* Mutation: a conclusion goes with the first of its proofs.
UnsupportedNoCount(gone) == Heads(gone) \intersect derived

\* Conclusions of the justifications removed that have no other.
Unsupported(gone) == (Heads(gone) \ Heads(staging \ gone)) \intersect derived

\* One event: the justifications that use the support go, and a conclusion
\* left with none loses its derived support.
Invalidate(e) ==
    /\ phase = "invalidate"
    /\ staged
    /\ e \in pending
    /\ LET gone == {r \in staging : Uses(r, e)}
           lost == Unsupported(gone)
           new  == ((lost \ asserted) \X {FALSE}) \ seen
       IN  /\ staging' = staging \ gone
           /\ derived' = derived \ lost
           /\ pending' = (pending \ {e}) \union new
           /\ seen' = seen \union new
           /\ scan' = (scan \/ (e[2] /\ gone # {}))
    /\ UNCHANGED <<program, stratum, asserted, graph, staged, phase, journal, scratch, attach>>

\* facts_datalog_eval or facts_datalog_eval_incremental follows.
Invalidated ==
    /\ phase = "invalidate"
    /\ pending = {}
    /\ phase' = IF scan THEN "seed" ELSE "delete seed"
    /\ s' = 0 /\ old' = {} /\ delta' = {}
    /\ plus' = added /\ minus' = removed
    /\ UNCHANGED <<store, staged, staging, journal, events, attach>>

-----------------------------------------------------------------------------
(* Evaluation: each step is one pass over the rules of stratum s *)

\* Mutation: no justification is recorded for a fact that is derived already.
RecordNewHeads(found) == staging' = IF ~ staged THEN {} ELSE staging \union {r \in found : r.head \notin derived}

\* eval_solution_cb records a justification when a graph is staged.
Record(found) == staging' = IF ~ staged THEN {} ELSE staging \union found

\* The pass has found nothing new: the next stratum.
NextStratum(p) ==
    /\ phase' = p
    /\ s' = s + 1
    /\ UNCHANGED <<derived, old, delta, plus, minus>>

Evaluating(p) == phase = p /\ s < num_strata

Pass == UNCHANGED <<program, stratum, asserted, graph, staged, journal, events, attach>>

\* Full evaluation, iteration 0: predicates of the stratum are read from the
\* empty old_db, the others from the store.
Seed ==
    /\ Evaluating("seed")
    /\ LET found == {r \in Rules : Unblocked(r) /\ Recursive(r) = {} /\ Body(r) \subseteq Facts}
           new   == Heads(found) \ derived
       IN  /\ Record(found)
           /\ \/ new = {} /\ NextStratum("seed")
              \/ /\ new # {}
                 /\ phase' = "round"
                 /\ derived' = derived \union new
                 /\ old' = new /\ delta' = new
                 /\ UNCHANGED <<s, plus, minus>>
    /\ Pass

\* Semi-naive iteration: one recursive position v reads the facts of the last
\* iteration, those before it older ones, those after it both.
Source(r, i, v) ==
    CASE i \notin Recursive(r) -> Facts
      [] i = v -> delta
      [] i \in Recursive(r) /\ i < v -> old
      [] i \in Recursive(r) /\ i > v -> old \union delta

\* Mutation: facts that are derived already count as new.
FreshKeepsAll(found) == Heads(found)

\* eval_solution_cb drops the conclusions that are in the store with derived
\* support, in old_db or found before.
Fresh(found) == Heads(found) \ (derived \union old)

Round ==
    /\ Evaluating("round")
    /\ LET found == {r \in Rules : /\ Unblocked(r)
                                   /\ \E v \in Recursive(r) : \A i \in DOMAIN r.pos :
                                         r.pos[i] \in Source(r, i, v)}
           new   == Fresh(found)
       IN  /\ Record(found)
           /\ \/ new = {} /\ NextStratum("seed")
              \/ /\ new # {}
                 /\ derived' = derived \union new
                 /\ old' = old \union delta
                 /\ delta' = new
                 /\ UNCHANGED <<phase, s, plus, minus>>
    /\ Pass

\* Solutions of the incremental evaluation: position v reads the delta, the
\* others the store.
Triggered(d) ==
    {r \in Rules : /\ Unblocked(r)
                   /\ \E v \in DOMAIN r.pos :
                         /\ r.pos[v] \in d
                         /\ \A i \in DOMAIN r.pos \ {v} : r.pos[i] \in Facts}

\* A negated literal is read from d and not checked against the store.
NegationTriggered(d) ==
    {r \in Rules : /\ Body(r) \subseteq Facts
                   /\ \E x \in r.neg \intersect d : (r.neg \ {x}) \intersect Facts = {}}

\* Deletions: heads of rules with a negated literal among the new facts.
DeleteSeed ==
    /\ Evaluating("delete seed")
    /\ LET new == Heads(NegationTriggered(plus))
       IN  IF minus \union new = {}
           THEN NextStratum("delete seed")
           ELSE /\ phase' = "delete round"
                /\ derived' = derived \ new
                /\ delta' = minus \union new
                /\ UNCHANGED <<s, old, plus, minus>>
    /\ UNCHANGED staging
    /\ Pass

DeleteRound ==
    /\ Evaluating("delete round")
    /\ LET new == Heads(Triggered(delta))
       IN  \/ new = {} /\ NextStratum("delete seed")
           \/ /\ new # {}
              /\ derived' = derived \ new
              /\ delta' = new
              /\ minus' = minus \union new
              /\ UNCHANGED <<phase, s, old, plus>>
    /\ UNCHANGED staging
    /\ Pass

Deleted ==
    /\ phase = "delete seed"
    /\ s = num_strata
    /\ phase' = "insert seed"
    /\ s' = 0
    /\ UNCHANGED <<derived, staging, old, delta, plus, minus>>
    /\ Pass

\* Insertions: heads of rules with a negated literal among the deleted facts.
InsertSeed ==
    /\ Evaluating("insert seed")
    /\ LET found == NegationTriggered(minus)
           new   == Heads(found) \ derived
       IN  /\ Record(found)
           /\ IF plus \union new = {}
              THEN NextStratum("insert seed")
              ELSE /\ phase' = "insert round"
                   /\ derived' = derived \union new
                   /\ plus' = plus \union new
                   /\ delta' = plus'
                   /\ old' = plus'
                   /\ UNCHANGED <<s, minus>>
    /\ Pass

InsertRound ==
    /\ Evaluating("insert round")
    /\ LET found == Triggered(delta)
           new   == Fresh(found)
       IN  /\ Record(found)
           /\ \/ new = {} /\ NextStratum("insert seed")
              \/ /\ new # {}
                 /\ derived' = derived \union new
                 /\ old' = old \union delta
                 /\ delta' = new
                 /\ plus' = plus \union new
                 /\ UNCHANGED <<phase, s, minus>>
    /\ Pass

\* The commit succeeds: the staged graph, if it is still there, takes the
\* place of the old one.
Finish ==
    /\ phase \in {"seed", "insert seed"}
    /\ s = num_strata
    /\ phase' = "idle"
    /\ graph' = IF staged THEN staging ELSE graph
    /\ staged' = FALSE
    /\ staging' = {}
    /\ added' = {} /\ removed' = {} /\ saved' = <<>>
    /\ pending' = {} /\ seen' = {} /\ scan' = FALSE
    /\ s' = 0 /\ old' = {} /\ delta' = {} /\ plus' = {} /\ minus' = {}
    /\ attach' = IF attach = "running" THEN "returning" ELSE attach
    /\ UNCHANGED <<program, stratum, asserted, derived>>

-----------------------------------------------------------------------------
(* facts_attach_program; {} is facts_detach_program *)

Attach(P) ==
    /\ phase = "idle"
    /\ attach = "none"
    /\ program' = P /\ stratum' = Strata(P)
    /\ derived' = {}
    /\ staged' = TRUE
    /\ staging' = {}
    /\ saved' = store
    /\ phase' = "seed"
    /\ attach' = "running"
    /\ UNCHANGED <<asserted, graph, added, removed, events, scratch>>

\* Its last call comes after the lock has been released: a graph that another
\* writer has staged is published.
LateCommit ==
    /\ attach = "returning"
    /\ attach' = "none"
    /\ graph' = IF staged THEN staging ELSE graph
    /\ staged' = FALSE
    /\ staging' = {}
    /\ UNCHANGED <<program, stratum, asserted, derived, phase, journal, events, scratch>>

Application ==
    \/ Begin
    \/ \E x \in Assertable : Assert(x) \/ Retract(x)
    \/ Rollback
    \/ \E P \in Programs \union {{}} : Attach(P)

Listener ==
    \/ \E x \in Atoms, n \in BOOLEAN : Invalidate(<<x, n>>)
    \/ Invalidated
    \/ Seed \/ Round
    \/ DeleteSeed \/ DeleteRound \/ Deleted
    \/ InsertSeed \/ InsertRound
    \/ Finish

Next == Application \/ Commit \/ Listener \/ Fail \/ LateCommit

Spec == Init /\ [][Next]_vars

\* A thread inside a call goes on with it.
FairSpec == Spec /\ WF_vars(Listener)
-----------------------------------------------------------------------------
(* Properties *)

\* A set of facts that the rules, with negation judged in the store, add nothing to.
Closed(S) == \A r \in program : Body(r) \subseteq S /\ Unblocked(r) => r.head \in S

\* Between commits every fact of the store follows from asserted facts: no
\* smaller set holds them and is closed under the rules.
Sound ==
    phase = "idle" => \A S \in SUBSET derived : Closed(asserted \union S) => Facts = asserted \union S

\* Between commits nothing is missing from the store.
Complete == phase = "idle" => Closed(Facts)

\* Between commits the graph holds the justifications of the store's facts:
\* the applications of rules that hold, and no others.
GraphExact ==
    phase = "idle" => graph = {r \in program : Body(r) \subseteq Facts /\ Unblocked(r)}

\* Between commits, whatever the program, a fact with derived support has a
\* justification, and all justifications are by rules of the attached program:
\* neither a rollback nor a change of programs leaves others behind.
Justified ==
    ~ SecondThread /\ phase = "idle" => derived \subseteq Heads(graph) /\ graph \subseteq program

\* Every commit and every call of facts_attach_program comes to an end: the
\* loops of the evaluation run out of new facts.
EvaluationEnds == phase \notin {"idle", "open"} ~> phase = "idle"

\* Why Justified holds (ReactiveProofs.tla): the listener keeps it for the
\* staged graph, and what a rollback brings back has it with the old graph.
Staged ==
    /\ phase \in {"idle", "open"} => ~ staged /\ derived \subseteq Heads(graph) /\ graph \subseteq program
    /\ phase \notin {"idle", "open"} => staged /\ derived \subseteq Heads(staging) /\ staging \subseteq program
    /\ phase # "idle" => saved[4] \subseteq Heads(graph) /\ graph \subseteq saved[1]
    /\ attach = "returning" => phase = "idle"

IInv == ~ SecondThread => Staged

(* Why the evaluation is exact (ReactiveProofs.tla) *)

Positive(P) == \A r \in P : r.neg = {}

\* No facts support each other in a cycle.
Acyclic(P) ==
    \A X \in SUBSET Atoms : X # {} => \E x \in X : \A r \in P : r.head = x => Body(r) \intersect X = {}

\* Programs are stratified, their conclusions are of other predicates than the
\* facts that are asserted, and facts change only under the programs M, which are
\* positive and without cycles, by commits that either add or remove.
MaintainableUnder(M) ==
    /\ IsFiniteSet(Atoms)
    /\ \A P \in Programs : \E f \in [Preds -> Levels] : Stratifies(f, P)
    /\ \A P \in Programs : \A r \in P : \A x \in Assertable : PredOf[r.head] # PredOf[x]
    /\ \A P \in M : Positive(P) /\ Acyclic(P)
    /\ \A n \in Sizes : n[1] = 0 \/ n[2] = 0

Maintainable == MaintainableUnder(Maintained) /\ ~ SecondThread

Holds(r, F) == Body(r) \subseteq F /\ r.neg \intersect F = {}

ClosedUnder(rules, S, F) == \A r \in rules : Body(r) \subseteq S /\ r.neg \intersect F = {} => r.head \in S

\* What P derives from the facts A, and with which justifications.
IsModel(P, A, D, G) ==
    /\ G = {r \in P : Holds(r, A \union D)}
    /\ D = Heads(G)
    /\ \A S \in SUBSET D : ClosedUnder(P, A \union S, A \union D) => D \subseteq A \union S

\* The rules of the strata below n.
Below(n) == {r \in program : stratum[PredOf[r.head]] < n}

\* The program is one that may be attached, and stratum a stratification of it.
IsStratified(P, f) == P \in Programs \union {{}} /\ f \in [Preds -> Levels] /\ Stratifies(f, P)

\* A full evaluation from nothing: the strata that are done are closed, nothing
\* follows from less, and in the stratum at work only rules with a fact of the
\* last iteration are left.
Attaching ==
    LET begun == IF phase = "seed" THEN s ELSE s + 1
    IN  /\ phase \in {"seed", "round"}
        /\ derived = Heads(staging)
        /\ staging \subseteq {r \in Below(begun) : Holds(r, Facts)}
        /\ {r \in Below(s) : Holds(r, Facts)} \subseteq staging
        /\ \A S \in SUBSET Atoms :
              ClosedUnder(Below(begun), asserted \union S, Facts) => derived \subseteq asserted \union S
        /\ phase = "round" =>
              /\ old \union delta \subseteq derived
              /\ \A x \in derived : stratum[PredOf[x]] = s => x \in old \union delta
              /\ \A r \in Rules :
                    Holds(r, Facts) /\ (\A i \in Recursive(r) : r.pos[i] \notin delta) => r \in staging

\* One commit adds facts, or it removes facts.
AddsOrRemoves ==
    /\ added \union removed \subseteq Assertable
    /\ \/ removed = {} /\ asserted = saved[3] \union added
       \/ added = {} /\ asserted = saved[3] \ removed

\* The justifications left are those of facts that are left, but for the events
\* to come.
Invalidating ==
    /\ staging \subseteq graph
    /\ derived = Heads(staging)
    /\ pending \subseteq seen
    /\ removed = {} => \A e \in seen : e[2]
    /\ \A e \in seen : ~ e[2] => e[1] \notin Facts
    /\ \A r \in graph \ staging : \E x \in Body(r) : <<x, FALSE>> \in seen
    /\ \A r \in staging : \A x \in Body(r) : x \in Facts \/ <<x, FALSE>> \in pending
    /\ scan <=> removed # {}

\* An insertion: what is new is in plus, and what is new and not yet used in delta.
Inserting ==
    /\ removed = {} /\ minus = {}
    /\ derived = Heads(staging)
    /\ staging \subseteq {r \in program : Body(r) \subseteq Facts}
    /\ graph \subseteq staging
    /\ added \subseteq plus /\ derived \subseteq saved[4] \union plus /\ plus \subseteq added \union derived
    /\ phase \in {"insert seed", "insert round"} => {r \in Below(s) : Body(r) \subseteq Facts} \subseteq staging
    /\ phase = "insert round" =>
          /\ old \subseteq plus /\ delta \subseteq plus
          /\ \A r \in Rules : Body(r) \subseteq Facts /\ Body(r) \intersect delta = {} => r \in staging

\* A commit of the application.
Committing ==
    /\ program \in Maintained \union {{}} /\ program = saved[1]
    /\ phase \in {"open", "invalidate", "seed", "delete seed", "insert seed", "insert round"}
    /\ AddsOrRemoves
    /\ phase = "open" => derived = saved[4]
    /\ phase = "invalidate" => Invalidating
    /\ phase = "seed" => staging = {r \in program : Body(r) \subseteq Facts} /\ derived = Heads(staging)
    /\ phase \in {"delete seed", "insert seed", "insert round"} => Inserting

Maintaining ==
    /\ asserted \subseteq Assertable /\ s \in Nat
    /\ IsStratified(program, stratum)
    /\ phase = "idle" => s = 0 /\ IsModel(program, asserted, derived, graph)
    /\ phase # "idle" => /\ saved[3] \subseteq Assertable
                         /\ IsStratified(saved[1], saved[2])
                         /\ IsModel(saved[1], saved[3], saved[4], graph)
    /\ attach = "running" => Attaching
    /\ attach # "running" /\ phase # "idle" => Committing
=============================================================================
