--------------------------- MODULE ReactiveProofs ---------------------------
(***************************************************************************)
(* Derived support is always justified: for every set of facts and of      *)
(* programs, recursive and with negation, and for transactions of any      *)
(* size, as long as facts_attach_program returns before the next writer    *)
(* begins (IInvHolds, JustifiedHolds).                                     *)
(*                                                                         *)
(* Under Maintainable the store holds exactly what the program derives,    *)
(* and the graph exactly its justifications (SoundHolds, CompleteHolds,    *)
(* GraphExactHolds).  Attaching a program is an evaluation from nothing,   *)
(* stratum by stratum (Attaching); a commit is an invalidation, which      *)
(* leaves the justifications that still hold (Invalidating), and then an   *)
(* insertion (Inserting) or a full evaluation that finds nothing new.      *)
(***************************************************************************)
EXTENDS Reactive, FiniteSetTheorems, WellFoundedInduction, TLAPS

LEMMA HeadsUnion ==
    ASSUME NEW S, NEW T, NEW D, NEW N, D \subseteq Heads(S), N \subseteq Heads(T)
    PROVE  D \union N \subseteq Heads(S \union T)
BY DEF Heads

LEMMA HeadsMore ==
    ASSUME NEW S, NEW T, NEW D, D \subseteq Heads(S)
    PROVE  D \subseteq Heads(S \union T)
BY DEF Heads

\* What a listener's step has to establish.
LEMMA ListenerStep ==
    ASSUME Staged, phase \notin {"idle", "open"}, phase' \notin {"idle", "open"},
           UNCHANGED <<program, graph, staged, saved, attach>>,
           derived' \subseteq Heads(staging'), staging' \subseteq program
    PROVE  Staged'
BY DEF Staged, Heads

LEMMA InitStaged == Init => Staged
BY DEF Init, Staged

LEMMA ApplicationStep ==
    ASSUME Staged, NEW x \in Assertable,
           Begin \/ Assert(x) \/ Retract(x), ~ SecondThread
    PROVE  Staged'
<1>1. CASE Begin
  BY <1>1 DEF Begin, Staged, store, Heads
<1>2. CASE Assert(x)
  BY <1>2 DEF Assert, Staged, Heads
<1>3. CASE Retract(x)
  BY <1>3 DEF Retract, Staged, Heads
<1> QED  BY <1>1, <1>2, <1>3

LEMMA RestoredStep ==
    ASSUME Staged, Rollback \/ Fail PROVE Staged'
<1>1. phase # "idle" /\ Restored
  BY DEF Rollback, Fail
<1>2. saved[4] \subseteq Heads(graph) /\ graph \subseteq saved[1]
  BY <1>1 DEF Staged
<1> QED  BY <1>1, <1>2 DEF Restored, Staged, Heads

LEMMA AttachStep ==
    ASSUME Staged, NEW P, Attach(P) PROVE Staged'
<1>1. derived \subseteq Heads(graph) /\ graph \subseteq program
  BY DEF Attach, Staged
<1>2. saved' = <<program, stratum, asserted, derived, graph>>
  BY DEF Attach, store
<1>3. saved'[4] = derived /\ saved'[1] = program
  BY <1>2
<1> QED  BY <1>1, <1>3 DEF Attach, Staged, Heads

LEMMA CommitStep ==
    ASSUME Staged, Commit PROVE Staged'
BY DEF Commit, Staged, store, journal, scratch, Heads

\* A conclusion that keeps its derived support has a justification that does
\* not use the event's fact.
LEMMA InvalidateStep ==
    ASSUME Staged, NEW e, Invalidate(e) PROVE Staged'
<1> DEFINE gone == {r \in staging : Uses(r, e)}
<1>1. /\ staging' = staging \ gone /\ derived' = derived \ Unsupported(gone)
      /\ phase = "invalidate" /\ phase' = phase
      /\ UNCHANGED <<program, graph, staged, saved, attach>>
  BY DEF Invalidate, journal
<1>2. derived \subseteq Heads(staging) /\ staging \subseteq program
  BY <1>1 DEF Staged
<1> HIDE DEF gone
<1>3. derived' \subseteq Heads(staging')
  BY <1>1, <1>2 DEF Heads, Unsupported
<1>4. staging' \subseteq program
  BY <1>1, <1>2
<1> QED  BY <1>1, <1>3, <1>4, ListenerStep

LEMMA InvalidatedStep ==
    ASSUME Staged, Invalidated PROVE Staged'
<1>1. /\ phase = "invalidate" /\ phase' \in {"seed", "delete seed"}
      /\ UNCHANGED <<program, derived, graph, staged, staging, saved, attach>>
  BY DEF Invalidated, store, journal
<1>2. derived' \subseteq Heads(staging') /\ staging' \subseteq program
  BY <1>1 DEF Staged, Heads
<1> QED  BY <1>1, <1>2, ListenerStep

\* A pass that records what it finds adds only heads of what it has found.
LEMMA RecordStep ==
    ASSUME Staged, phase \notin {"idle", "open"}, phase' \notin {"idle", "open"}, Pass,
           NEW found, found \subseteq program, Record(found),
           NEW new, new \subseteq Heads(found),
           derived' = derived \/ derived' = derived \union new
    PROVE  Staged'
<1>1. /\ staged /\ derived \subseteq Heads(staging) /\ staging \subseteq program
      /\ UNCHANGED <<program, graph, staged, saved, attach>>
  BY DEF Staged, Pass, journal
<1>2. staging' = staging \union found
  BY <1>1 DEF Record
<1>3. derived' \subseteq Heads(staging')
  BY <1>1, <1>2, HeadsUnion, HeadsMore
<1> QED  BY <1>1, <1>2, <1>3, ListenerStep

\* A pass over the store that only takes derived support away.
LEMMA DeleteStep ==
    ASSUME Staged, phase \notin {"idle", "open"}, phase' \notin {"idle", "open"}, Pass,
           UNCHANGED staging, derived' \subseteq derived
    PROVE  Staged'
<1>1. /\ derived \subseteq Heads(staging) /\ staging \subseteq program
      /\ UNCHANGED <<program, graph, staged, saved, attach>>
  BY DEF Staged, Pass, journal
<1>2. derived' \subseteq Heads(staging')
  BY <1>1 DEF Heads
<1> QED  BY <1>1, <1>2, ListenerStep

LEMMA SeedStep ==
    ASSUME Staged, Seed PROVE Staged'
<1> DEFINE found == {r \in Rules : Unblocked(r) /\ Recursive(r) = {} /\ Body(r) \subseteq Facts}
           new == Heads(found) \ derived
<1>1. found \subseteq program /\ new \subseteq Heads(found)
  BY DEF Rules
<1>2. /\ phase = "seed" /\ phase' \in {"seed", "round"} /\ Pass /\ Record(found)
      /\ derived' = derived \/ derived' = derived \union new
  BY DEF Seed, Evaluating, NextStratum
<1> HIDE DEF found, new
<1> QED  BY <1>1, <1>2, RecordStep

LEMMA RoundStep ==
    ASSUME Staged, Round PROVE Staged'
<1> DEFINE found == {r \in Rules : /\ Unblocked(r)
                                   /\ \E v \in Recursive(r) : \A i \in DOMAIN r.pos :
                                         r.pos[i] \in Source(r, i, v)}
           new == Heads(found) \ (derived \union old)
<1>1. found \subseteq program /\ new \subseteq Heads(found)
  BY DEF Rules
<1>2. /\ phase = "round" /\ phase' \in {"seed", "round"} /\ Pass /\ Record(found)
      /\ derived' = derived \/ derived' = derived \union new
  BY DEF Round, Fresh, Evaluating, NextStratum
<1> HIDE DEF found, new
<1> QED  BY <1>1, <1>2, RecordStep

LEMMA DeletePassStep ==
    ASSUME Staged, DeleteSeed \/ DeleteRound \/ Deleted PROVE Staged'
<1>1. /\ phase \in {"delete seed", "delete round"}
      /\ phase' \in {"delete seed", "delete round", "insert seed"}
      /\ Pass /\ UNCHANGED staging /\ derived' \subseteq derived
  <2>1. CASE DeleteSeed
    BY <2>1 DEF DeleteSeed, Evaluating, NextStratum
  <2>2. CASE DeleteRound
    BY <2>2 DEF DeleteRound, Evaluating, NextStratum
  <2>3. CASE Deleted
    BY <2>3 DEF Deleted
  <2> QED  BY <2>1, <2>2, <2>3
<1> QED  BY <1>1, DeleteStep

LEMMA InsertSeedStep ==
    ASSUME Staged, InsertSeed PROVE Staged'
<1> DEFINE found == NegationTriggered(minus)
           new == Heads(found) \ derived
<1>1. found \subseteq program /\ new \subseteq Heads(found)
  BY DEF Rules, NegationTriggered
<1>2. /\ phase = "insert seed" /\ phase' \in {"insert seed", "insert round"} /\ Pass
      /\ Record(found)
      /\ derived' = derived \/ derived' = derived \union new
  BY DEF InsertSeed, Evaluating, NextStratum
<1> HIDE DEF found, new
<1> QED  BY <1>1, <1>2, RecordStep

LEMMA InsertRoundStep ==
    ASSUME Staged, InsertRound PROVE Staged'
<1> DEFINE found == Triggered(delta)
           new == Heads(found) \ (derived \union old)
<1>1. found \subseteq program /\ new \subseteq Heads(found)
  BY DEF Rules, Triggered
<1>2. /\ phase = "insert round" /\ phase' \in {"insert seed", "insert round"} /\ Pass
      /\ Record(found)
      /\ derived' = derived \/ derived' = derived \union new
  BY DEF InsertRound, Fresh, Evaluating, NextStratum
<1> HIDE DEF found, new
<1> QED  BY <1>1, <1>2, RecordStep

LEMMA FinishStep ==
    ASSUME Staged, Finish PROVE Staged'
<1>1. staged /\ derived \subseteq Heads(staging) /\ staging \subseteq program
  BY DEF Finish, Staged
<1> QED  BY <1>1 DEF Finish, Staged, Heads

\* Alone, facts_attach_program finds no staged graph when it returns.
LEMMA LateCommitStep ==
    ASSUME Staged, LateCommit PROVE Staged'
<1>1. phase = "idle" /\ ~ staged
  BY DEF LateCommit, Staged
<1> QED  BY <1>1 DEF LateCommit, Staged, Heads

\* IInv is inductive.
THEOREM IInvHolds == Spec => []IInv
<1>1. Init => IInv
  BY InitStaged DEF IInv
<1>2. IInv /\ [Next]_vars => IInv'
  <2> SUFFICES ASSUME Staged, [Next]_vars, ~ SecondThread PROVE Staged'
    BY DEF IInv
  <2>1. CASE UNCHANGED vars
    BY <2>1 DEF vars, Staged, Heads
  <2>2. CASE Application
    <3>1. CASE Begin \/ \E x \in Assertable : Assert(x) \/ Retract(x)
      <4>1. CASE Begin
        BY <4>1 DEF Begin, Staged, store, Heads
      <4>2. CASE \E x \in Assertable : Assert(x) \/ Retract(x)
        BY <4>2, ApplicationStep
      <4> QED  BY <3>1, <4>1, <4>2
    <3>2. CASE Rollback
      BY <3>2, RestoredStep
    <3>3. CASE \E P \in Programs \union {{}} : Attach(P)
      BY <3>3, AttachStep
    <3> QED  BY <2>2, <3>1, <3>2, <3>3 DEF Application
  <2>3. CASE Commit
    BY <2>3, CommitStep
  <2>4. CASE Listener
    BY <2>4, InvalidateStep, InvalidatedStep, SeedStep, RoundStep, DeletePassStep,
       InsertSeedStep, InsertRoundStep, FinishStep DEF Listener
  <2>5. CASE Fail
    BY <2>5, RestoredStep
  <2>6. CASE LateCommit
    BY <2>6, LateCommitStep
  <2> QED  BY <2>1, <2>2, <2>3, <2>4, <2>5, <2>6 DEF Next
<1> QED  BY <1>1, <1>2, PTL DEF Spec

\* Between commits every fact with derived support has a justification, by a
\* rule of the attached program, whatever the program: through invalidation,
\* both evaluations, running out of memory, rollback and the replacement of
\* the program (eval.c, justification.c, facts_attach_program).
THEOREM JustifiedHolds == Spec => []Justified
<1>1. IInv => Justified
  BY DEF IInv, Staged, Justified
<1> QED  BY <1>1, IInvHolds, PTL

-----------------------------------------------------------------------------
(* The evaluation is exact *)

LEMMA LeastNatural ==
    ASSUME NEW T, T \subseteq Nat, T # {}
    PROVE  \E x \in T : \A y \in T : x <= y
<1>1. PICK x \in T : \A y \in T : <<y, x>> \notin OpToRel(<, Nat)
  BY NatLessThanWellFounded, WFMin, Zenon
<1>2. \A y \in T : ~ (y < x)
  BY <1>1 DEF OpToRel
<1> QED  BY <1>2

LEMMA LevelFacts ==
    ASSUME Maintainable
    PROVE  /\ Cardinality(Preds) \in Nat
           /\ Levels \subseteq Nat
           /\ Preds # {} => 0 \in Levels
<1> DEFINE f == [x \in Atoms |-> PredOf[x]]
<1>1. f \in Surjection(Atoms, Preds)
  BY DEF Surjection, Preds
<1>2. IsFiniteSet(Atoms)
  BY DEF Maintainable, MaintainableUnder
<1>3. IsFiniteSet(Preds)
  BY <1>1, <1>2, FS_Surjection
<1>4. Cardinality(Preds) \in Nat /\ (Cardinality(Preds) = 0 <=> Preds = {})
  BY <1>3, FS_CardinalityType, FS_EmptySet
<1> QED  BY <1>4 DEF Levels

\* What datalog_program_stratify returns for a program that has strata.
LEMMA StrataFacts ==
    ASSUME Maintainable, NEW P \in Programs \union {{}}
    PROVE  IsStratified(P, Strata(P))
<1> DEFINE All == {h \in [Preds -> Levels] : Stratifies(h, P)}
           At(q) == {h[q] : h \in All}
           IsLow(q, n) == n \in At(q) /\ \A m \in At(q) : n <= m
           g == [q \in Preds |-> CHOOSE n : IsLow(q, n)]
           Low(f) == /\ Stratifies(f, P)
                     /\ \A h \in [Preds -> Levels] : Stratifies(h, P) => \A q \in Preds : f[q] <= h[q]
<1>1. PICK f : f \in All
  <2>1. CASE P \in Programs
    BY <2>1 DEF Maintainable, MaintainableUnder
  <2>2. CASE P = {}
    <3>1. [q \in Preds |-> 0] \in [Preds -> Levels]
      BY LevelFacts
    <3> QED  BY <2>2, <3>1 DEF Stratifies
  <2> QED  BY <2>1, <2>2
<1>2. ASSUME NEW q \in Preds PROVE IsLow(q, g[q])
  <2>1. f[q] \in At(q) /\ At(q) \subseteq Nat
    BY <1>1, LevelFacts
  <2> HIDE DEF At
  <2>2. \E n : IsLow(q, n)
    BY <2>1, LeastNatural
  <2> HIDE DEF IsLow
  <2> QED  BY <2>2
<1>3. g = [q \in Preds |-> g[q]]
  OBVIOUS
<1> HIDE DEF g
<1>4. ASSUME NEW q \in Preds
      PROVE  /\ g[q] \in Levels /\ g[q] \in Nat
             /\ \A h \in All : g[q] <= h[q]
             /\ \E h \in All : g[q] = h[q]
  BY <1>2, LevelFacts
<1>5. g \in [Preds -> Levels]
  BY <1>3, <1>4
<1>6. \A h \in All : h \in [Preds -> Levels] /\ Stratifies(h, P)
  OBVIOUS
<1>7. \A r \in P : IsRule(r)
  BY ReactiveAssumption
<1> HIDE DEF All
<1>8. ASSUME NEW r \in P, NEW x \in Body(r) \union r.neg
      PROVE  /\ PredOf[r.head] \in Preds /\ PredOf[x] \in Preds
             /\ \E h \in All : /\ g[PredOf[r.head]] = h[PredOf[r.head]]
                               /\ g[PredOf[x]] <= h[PredOf[x]]
                               /\ h[PredOf[x]] \in Nat
  <2>1. r.head \in Atoms /\ x \in Atoms
    BY <1>7, <1>8 DEF IsRule, Body
  <2>2. PredOf[r.head] \in Preds /\ PredOf[x] \in Preds
    BY <2>1 DEF Preds
  <2> QED  BY <1>4, <1>6, <2>2, LevelFacts
<1>9. ASSUME NEW r \in P, NEW x \in Body(r) PROVE g[PredOf[r.head]] >= g[PredOf[x]]
  <2>1. PICK h \in All : /\ g[PredOf[r.head]] = h[PredOf[r.head]]
                         /\ g[PredOf[x]] <= h[PredOf[x]]
                         /\ h[PredOf[x]] \in Nat
    BY <1>8, <1>9
  <2>2. h[PredOf[r.head]] >= h[PredOf[x]]
    BY <1>6, <1>9 DEF Stratifies
  <2> QED  BY <1>4, <1>8, <1>9, <2>1, <2>2
<1>10. ASSUME NEW r \in P, NEW x \in r.neg PROVE g[PredOf[r.head]] > g[PredOf[x]]
  <2>1. PICK h \in All : /\ g[PredOf[r.head]] = h[PredOf[r.head]]
                         /\ g[PredOf[x]] <= h[PredOf[x]]
                         /\ h[PredOf[x]] \in Nat
    BY <1>8, <1>10
  <2>2. h[PredOf[r.head]] > h[PredOf[x]]
    BY <1>6, <1>10 DEF Stratifies
  <2> QED  BY <1>4, <1>8, <1>10, <2>1, <2>2
<1>11. g \in [Preds -> Levels] /\ Low(g)
  BY <1>4, <1>5, <1>9, <1>10 DEF Stratifies, All
<1> HIDE DEF Low
<1>12. Strata(P) = CHOOSE h \in [Preds -> Levels] : Low(h)
  BY DEF Strata, Low
<1>13. Strata(P) \in [Preds -> Levels] /\ Low(Strata(P))
  BY <1>11, <1>12
<1> QED  BY <1>13 DEF IsStratified, Low

\* A rule of a stratified program.
LEMMA RuleFacts ==
    ASSUME Maintainable, NEW P, NEW f, IsStratified(P, f), NEW r \in P
    PROVE  /\ r.head \in Atoms /\ Body(r) \subseteq Atoms /\ r.neg \subseteq Atoms
           /\ DOMAIN r.pos \subseteq Nat
           /\ f[PredOf[r.head]] \in Nat
           /\ \A x \in Atoms : PredOf[x] \in Preds /\ f[PredOf[x]] \in Nat
           /\ \A x \in Body(r) : f[PredOf[x]] <= f[PredOf[r.head]]
           /\ \A x \in r.neg : f[PredOf[x]] < f[PredOf[r.head]]
           /\ r.head \notin Assertable
           /\ \A x \in Assertable : PredOf[x] # PredOf[r.head]
<1>1. P \in Programs /\ f \in [Preds -> Levels] /\ Stratifies(f, P)
  BY DEF IsStratified
<1>2. IsRule(r)
  BY <1>1, ReactiveAssumption
<1>3. r.head \in Atoms /\ Body(r) \subseteq Atoms /\ r.neg \subseteq Atoms /\ DOMAIN r.pos \subseteq Nat
  BY <1>2 DEF IsRule, Body
<1>4. \A x \in Atoms : PredOf[x] \in Preds /\ f[PredOf[x]] \in Nat
  BY <1>1, LevelFacts DEF Preds
<1>5. /\ \A x \in Body(r) : f[PredOf[x]] <= f[PredOf[r.head]]
      /\ \A x \in r.neg : f[PredOf[x]] < f[PredOf[r.head]]
  BY <1>1, <1>3, <1>4 DEF Stratifies
<1>6. \A x \in Assertable : PredOf[x] # PredOf[r.head]
  BY <1>1 DEF Maintainable, MaintainableUnder
<1> QED  BY <1>3, <1>4, <1>5, <1>6

\* num_strata is above every stratum.
LEMMA StrataNumber ==
    ASSUME Maintainable, IsStratified(program, stratum)
    PROVE  num_strata \in Nat /\ Below(num_strata) = program
<1> DEFINE T == {0} \union {stratum[PredOf[r.head]] : r \in program}
           K == Cardinality(Preds)
           Top == {K - n : n \in T}
<1>1. K \in Nat
  BY LevelFacts
<1>2. \A n \in T : n \in 0..K
  <2> SUFFICES ASSUME NEW r \in program PROVE stratum[PredOf[r.head]] \in 0..K
    BY <1>1
  <2>1. PredOf[r.head] \in Preds
    BY RuleFacts
  <2>2. stratum[PredOf[r.head]] \in Levels
    BY <2>1 DEF IsStratified
  <2> QED  BY <1>1, <2>2 DEF Levels
<1>3. 0 \in T
  OBVIOUS
<1> HIDE DEF T, K
<1>4. Top \subseteq Nat /\ K - 0 \in Top
  BY <1>1, <1>2, <1>3
<1>5. PICK t \in Top : \A y \in Top : t <= y
  BY <1>4, LeastNatural
<1>6. PICK m \in T : t = K - m
  BY <1>5
<1>7. \A n \in T : K - m <= K - n
  BY <1>5, <1>6
<1>8. \A n \in T : m >= n
  BY <1>1, <1>2, <1>6, <1>7
<1>9. Max(T) \in T /\ \A n \in T : Max(T) >= n
  BY <1>6, <1>8 DEF Max
<1>10. num_strata = 1 + Max(T)
  BY DEF num_strata, T
<1>11. num_strata \in Nat /\ \A n \in T : n < num_strata
  BY <1>1, <1>2, <1>9, <1>10
<1>12. \A r \in program : stratum[PredOf[r.head]] \in T
  BY DEF T
<1> QED  BY <1>11, <1>12 DEF Below

\* The facts that a pass over the rules of stratum s derives: they are of that
\* stratum, so no rule of a lower one reads them, and none of this one negates them.
LEMMA NewFacts ==
    ASSUME Maintainable, IsStratified(program, stratum), asserted \subseteq Assertable, s \in Nat,
           NEW found, found \subseteq Rules, NEW new, new \subseteq Heads(found)
    PROVE  /\ \A x \in new : x \in Atoms /\ x \notin asserted /\ stratum[PredOf[x]] = s
           /\ \A x \in new : \E q \in Rules : PredOf[q.head] = PredOf[x]
           /\ \A r \in Below(s) : Body(r) \intersect new = {} /\ r.neg \intersect new = {}
           /\ \A r \in Rules : r.neg \intersect new = {}
           /\ \A r \in Rules : \A i \in DOMAIN r.pos : r.pos[i] \in new => i \in Recursive(r)
<1>1. \A r \in Rules : r \in program /\ stratum[PredOf[r.head]] = s
  BY DEF Rules
<1>2. /\ \A x \in new : x \in Atoms /\ x \notin asserted /\ stratum[PredOf[x]] = s
      /\ \A x \in new : \E q \in Rules : PredOf[q.head] = PredOf[x]
  <2> SUFFICES ASSUME NEW x \in new
               PROVE  /\ x \in Atoms /\ x \notin asserted /\ stratum[PredOf[x]] = s
                      /\ \E q \in Rules : PredOf[q.head] = PredOf[x]
    OBVIOUS
  <2>1. PICK r \in found : r.head = x
    BY DEF Heads
  <2> QED  BY <1>1, <2>1, RuleFacts
<1>3. ASSUME NEW r \in Below(s) PROVE Body(r) \intersect new = {} /\ r.neg \intersect new = {}
  <2>1. r \in program /\ stratum[PredOf[r.head]] < s
    BY DEF Below
  <2>2. \A x \in Body(r) \union r.neg : stratum[PredOf[x]] \in Nat /\ stratum[PredOf[x]] < s
    BY <2>1, RuleFacts
  <2> QED  BY <1>2, <2>2
<1>4. ASSUME NEW r \in Rules PROVE r.neg \intersect new = {}
  <2>2. \A x \in r.neg : stratum[PredOf[x]] \in Nat /\ stratum[PredOf[x]] < s
    BY <1>1, RuleFacts
  <2> QED  BY <1>2, <2>2
<1>5. \A r \in Rules : \A i \in DOMAIN r.pos : r.pos[i] \in new => i \in Recursive(r)
  BY <1>2 DEF Recursive
<1> QED  BY <1>2, <1>3, <1>4, <1>5

\* The strata up to s are those below it and s.
LEMMA BelowNext ==
    ASSUME Maintainable, IsStratified(program, stratum), s \in Nat
    PROVE  Below(s + 1) = Below(s) \union Rules /\ Below(0) = {}
<1>1. \A r \in program : stratum[PredOf[r.head]] \in Nat
  BY RuleFacts
<1>2. \A r : r \in Below(s + 1) <=> r \in Below(s) \union Rules
  BY <1>1 DEF Below, Rules
<1> QED  BY <1>1, <1>2 DEF Below

\* What a step inside a call of the listener has to establish.
LEMMA Keeps ==
    ASSUME Maintaining, phase # "idle", phase' # "idle", s' \in Nat,
           UNCHANGED <<program, stratum, asserted, graph, saved, attach>>,
           attach = "running" => Attaching',
           attach # "running" => Committing'
    PROVE  Maintaining'
<1>1. IsModel(saved'[1], saved'[3], saved'[4], graph')
  BY DEF Maintaining
<1>2. IsStratified(saved'[1], saved'[2]) /\ IsStratified(program', stratum')
  BY DEF Maintaining
<1> QED  BY <1>1, <1>2 DEF Maintaining

\* A pass of the full evaluation that finds rules that hold, and adds their heads.
LEMMA AttachPass ==
    ASSUME Maintainable, Maintaining, Attaching, UNCHANGED asserted,
           NEW found, found \subseteq {r \in Rules : Holds(r, Facts)},
           staging' = staging \union found, derived' = derived \union Heads(found)
    PROVE  /\ derived' = Heads(staging')
           /\ staging' \subseteq {r \in Below(s + 1) : Holds(r, Facts')}
           /\ {r \in Below(s) : Holds(r, Facts')} \subseteq staging'
           /\ \A r \in Rules :
                 Holds(r, Facts') /\ (\A i \in Recursive(r) : r.pos[i] \notin derived' \ derived) => Holds(r, Facts)
           /\ \A S \in SUBSET Atoms :
                 ClosedUnder(Below(s + 1), asserted \union S, Facts') => derived' \subseteq asserted \union S
<1> DEFINE new == derived' \ derived
<1>1. IsStratified(program, stratum) /\ s \in Nat /\ asserted \subseteq Assertable
  BY DEF Maintaining
<1>2. found \subseteq Rules /\ new \subseteq Heads(found)
  OBVIOUS
<1>3. /\ \A r \in Below(s) : Body(r) \intersect new = {} /\ r.neg \intersect new = {}
      /\ \A r \in Rules : r.neg \intersect new = {}
      /\ \A r \in Rules : \A i \in DOMAIN r.pos : r.pos[i] \in new => i \in Recursive(r)
  BY <1>1, <1>2, NewFacts
<1>4. Below(s + 1) = Below(s) \union Rules
  BY <1>1, BelowNext
<1>5. /\ derived = Heads(staging)
      /\ staging \subseteq {r \in Below(s + 1) : Holds(r, Facts)}
      /\ {r \in Below(s) : Holds(r, Facts)} \subseteq staging
      /\ \A S \in SUBSET Atoms :
            ClosedUnder(Below(s + 1), asserted \union S, Facts) => derived \subseteq asserted \union S
  BY <1>4 DEF Attaching, ClosedUnder
<1>6. Facts' = Facts \union new
  BY DEF Facts
<1>7. derived' = Heads(staging')
  BY <1>5 DEF Heads
<1> HIDE DEF new
<1>8. \A r \in Below(s + 1) : r.neg \intersect Facts' = {} <=> r.neg \intersect Facts = {}
  BY <1>3, <1>4, <1>6
<1>9. staging' \subseteq {r \in Below(s + 1) : Holds(r, Facts')}
  BY <1>4, <1>5, <1>6, <1>8 DEF Holds
<1>10. {r \in Below(s) : Holds(r, Facts')} \subseteq staging'
  BY <1>3, <1>4, <1>5, <1>6, <1>8 DEF Holds
<1>11. ASSUME NEW r \in Rules, Holds(r, Facts'), \A i \in Recursive(r) : r.pos[i] \notin new
       PROVE  Holds(r, Facts)
  <2>1. Body(r) \intersect new = {}
    BY <1>3, <1>11 DEF Body
  <2> QED  BY <1>4, <1>6, <1>8, <1>11, <2>1 DEF Holds
<1>12. ASSUME NEW S \in SUBSET Atoms, ClosedUnder(Below(s + 1), asserted \union S, Facts')
       PROVE  derived' \subseteq asserted \union S
  <2>1. ClosedUnder(Below(s + 1), asserted \union S, Facts)
    BY <1>8, <1>12 DEF ClosedUnder
  <2>2. derived \subseteq asserted \union S
    BY <1>5, <2>1
  <2>3. ASSUME NEW r \in found PROVE r.head \in asserted \union S
    <3>1. Body(r) \subseteq asserted \union S /\ r.neg \intersect Facts = {} /\ r \in Below(s + 1)
      BY <1>4, <2>2 DEF Holds, Facts
    <3> QED  BY <2>1, <3>1 DEF ClosedUnder
  <2> QED  BY <2>2, <2>3 DEF Heads
<1> QED  BY <1>7, <1>9, <1>10, <1>11, <1>12 DEF new

\* Facts of the predicates of the stratum at work are of that stratum, and not
\* asserted.
LEMMA RecursiveFacts ==
    ASSUME Maintainable, Maintaining, NEW r \in Rules, NEW i \in Recursive(r)
    PROVE  r.pos[i] \notin asserted /\ stratum[PredOf[r.pos[i]]] = s /\ r.pos[i] \in Body(r)
<1>1. PICK q \in Rules : PredOf[q.head] = PredOf[r.pos[i]]
  BY DEF Recursive
<1>2. q \in program /\ stratum[PredOf[q.head]] = s
  BY DEF Rules
<1>3. r.pos[i] \notin asserted
  BY <1>1, <1>2, RuleFacts DEF Maintaining
<1> QED  BY <1>1, <1>2, <1>3 DEF Recursive, Body

\* The state that AttachPass describes is one of a full evaluation.
LEMMA AttachKeeps ==
    ASSUME Maintaining, phase # "idle", attach = "running", Pass, s' \in Nat, Attaching',
           phase' \in {"seed", "round"}
    PROVE  Maintaining'
<1>1. UNCHANGED <<program, stratum, asserted, graph, saved, attach>>
  BY DEF Pass, journal
<1> QED  BY <1>1, Keeps

LEMMA AttachSeed ==
    ASSUME Maintainable, Maintaining, Staged, Seed, attach = "running" PROVE Maintaining'
<1> DEFINE found == {r \in Rules : Unblocked(r) /\ Recursive(r) = {} /\ Body(r) \subseteq Facts}
           new == Heads(found) \ derived
<1>1. /\ phase = "seed" /\ Pass /\ Record(found)
      /\ \/ new = {} /\ NextStratum("seed")
         \/ phase' = "round" /\ derived' = derived \union new /\ old' = new /\ delta' = new /\ s' = s
  BY DEF Seed, Evaluating
<1>2. Attaching /\ s \in Nat /\ IsStratified(program, stratum) /\ asserted \subseteq Assertable
  BY DEF Maintaining
<1>3. found \subseteq {r \in Rules : Holds(r, Facts)}
  BY DEF Holds, Unblocked
<1>4. /\ staging' = staging \union found /\ derived' = derived \union Heads(found)
      /\ UNCHANGED <<program, stratum, asserted, graph, saved, attach>>
  BY <1>1 DEF Staged, Record, NextStratum, Pass, journal
<1>5. \A x \in derived : stratum[PredOf[x]] \in Nat /\ stratum[PredOf[x]] < s
  <2> SUFFICES ASSUME NEW r \in staging
               PROVE  stratum[PredOf[r.head]] \in Nat /\ stratum[PredOf[r.head]] < s
    BY <1>1, <1>2 DEF Attaching, Heads
  <2>1. r \in program /\ stratum[PredOf[r.head]] < s
    BY <1>1, <1>2 DEF Attaching, Below
  <2> QED  BY <1>2, <2>1, RuleFacts
<1>6. ASSUME NEW r \in Rules, NEW i \in Recursive(r) PROVE r.pos[i] \notin Facts
  BY <1>2, <1>5, RecursiveFacts DEF Facts
<1>7. \A r \in Rules : Holds(r, Facts) => r \in staging'
  BY <1>4, <1>6, RecursiveFacts DEF Holds, Unblocked
<1> HIDE DEF found
<1>8. /\ derived' = Heads(staging')
      /\ staging' \subseteq {r \in Below(s + 1) : Holds(r, Facts')}
      /\ {r \in Below(s) : Holds(r, Facts')} \subseteq staging'
      /\ \A r \in Rules :
            Holds(r, Facts') /\ (\A i \in Recursive(r) : r.pos[i] \notin derived' \ derived) => Holds(r, Facts)
      /\ \A S \in SUBSET Atoms :
            ClosedUnder(Below(s + 1), asserted \union S, Facts') => derived' \subseteq asserted \union S
  BY <1>2, <1>3, <1>4, AttachPass
<1>9. Below(s + 1) = Below(s) \union Rules
  BY <1>2, BelowNext
<1>10. CASE new = {} /\ NextStratum("seed")
  <2>1. phase' = "seed" /\ s' = s + 1 /\ Facts' = Facts
    BY <1>4, <1>10 DEF NextStratum, Facts
  <2>2. {r \in Below(s + 1) : Holds(r, Facts')} \subseteq staging'
    BY <1>7, <1>8, <1>9, <2>1
  <2>3. Below(s)' = Below(s + 1)
    BY <1>4, <2>1 DEF Below
  <2>4. Attaching'
    BY <1>4, <1>8, <2>1, <2>2, <2>3 DEF Attaching
  <2> QED  BY <1>1, <1>2, <2>1, <2>4, AttachKeeps
<1>11. CASE phase' = "round" /\ derived' = derived \union new /\ old' = new /\ delta' = new /\ s' = s
  <2>1. \A x \in derived' : stratum[PredOf[x]] = s => x \in new
    BY <1>2, <1>5, <1>11
  <2>2. derived' \ derived = new
    BY <1>11
  <2>3. Rules' = Rules
    BY <1>4, <1>11 DEF Rules
  <2>4. \A r : Recursive(r)' = Recursive(r)
    BY <2>3 DEF Recursive
  <2>5. Below(s)' = Below(s) /\ Below(s + 1)' = Below(s + 1)
    BY <1>4, <1>11 DEF Below
  <2> HIDE DEF new
  <2>6. \A r \in Rules : Holds(r, Facts') /\ (\A i \in Recursive(r) : r.pos[i] \notin new) => r \in staging'
    BY <1>7, <1>8, <2>2
  <2>7. Attaching'
    <3>1. asserted' = asserted /\ stratum' = stratum /\ s' = s /\ phase' = "round"
      BY <1>4, <1>11
    <3>2. {r \in Below(s)' : Holds(r, Facts)'} \subseteq staging'
      BY <1>8, <2>5
    <3>3. /\ staging' \subseteq {r \in Below(s + 1)' : Holds(r, Facts)'}
          /\ \A S \in SUBSET Atoms :
                ClosedUnder(Below(s + 1)', asserted' \union S, Facts') => derived' \subseteq asserted' \union S
      BY <1>8, <2>5, <3>1
    <3>4. /\ old' \union delta' \subseteq derived'
          /\ \A x \in derived' : stratum'[PredOf[x]] = s' => x \in old' \union delta'
      BY <1>11, <2>1, <3>1
    <3>5. \A r \in Rules' : Holds(r, Facts)' /\ (\A i \in Recursive(r)' : r.pos[i] \notin delta') => r \in staging'
      BY <1>11, <2>3, <2>4, <2>6
    <3> QED
      BY <1>8, <3>1, <3>2, <3>3, <3>4, <3>5 DEF Attaching
  <2> QED  BY <1>1, <1>2, <1>11, <2>7, AttachKeeps
<1> QED  BY <1>1, <1>10, <1>11

\* The semi-naive iteration misses nothing: a rule that holds and has a fact of
\* the last iteration in a recursive position is found with v the first of the
\* positions that older facts do not fill.
LEMMA RoundFinds ==
    ASSUME Maintainable, Maintaining, Attaching, phase = "round", NEW r \in Rules, Holds(r, Facts),
           NEW w \in Recursive(r), r.pos[w] \in delta
    PROVE  \E v \in Recursive(r) : \A i \in DOMAIN r.pos : r.pos[i] \in Source(r, i, v)
<1> DEFINE T == {i \in Recursive(r) : r.pos[i] \notin old}
<1>1. r \in program /\ IsStratified(program, stratum)
  BY DEF Rules, Maintaining
<1>2. DOMAIN r.pos \subseteq Nat /\ Recursive(r) \subseteq DOMAIN r.pos
  BY <1>1, RuleFacts DEF Recursive
<1>3. \A i \in Recursive(r) : r.pos[i] \in old \union delta
  <2> SUFFICES ASSUME NEW i \in Recursive(r) PROVE r.pos[i] \in old \union delta
    OBVIOUS
  <2>1. r.pos[i] \in derived /\ stratum[PredOf[r.pos[i]]] = s
    BY RecursiveFacts DEF Holds, Facts
  <2> QED  BY <2>1 DEF Attaching
<1>4. \A i \in DOMAIN r.pos : r.pos[i] \in Facts
  BY DEF Holds, Body
<1>5. \E v \in Recursive(r) : r.pos[v] \in delta /\ \A i \in Recursive(r) : i < v => r.pos[i] \in old
  <2>1. CASE T = {}
    BY <2>1
  <2>2. CASE T # {}
    <3>1. PICK v \in T : \A i \in T : v <= i
      BY <1>2, <2>2, LeastNatural
    <3>2. \A i \in Recursive(r) : i < v => i \notin T
      BY <1>2, <3>1
    <3> QED  BY <1>3, <3>1, <3>2
  <2> QED  BY <2>1, <2>2
<1>6. PICK v \in Recursive(r) : r.pos[v] \in delta /\ \A i \in Recursive(r) : i < v => r.pos[i] \in old
  BY <1>5
<1>7. ASSUME NEW i \in DOMAIN r.pos PROVE r.pos[i] \in Source(r, i, v)
  <2>1. CASE i \notin Recursive(r)
    BY <1>4, <1>6, <2>1 DEF Source
  <2>2. CASE i = v
    BY <1>6, <2>2 DEF Source
  <2>3. CASE i \in Recursive(r) /\ i < v
    BY <1>2, <1>6, <2>3 DEF Source
  <2>4. CASE i \in Recursive(r) /\ i > v
    BY <1>2, <1>3, <1>6, <2>4 DEF Source
  <2> QED  BY <1>2, <2>1, <2>2, <2>3, <2>4
<1> QED  BY <1>7

LEMMA AttachRound ==
    ASSUME Maintainable, Maintaining, Staged, Round, attach = "running" PROVE Maintaining'
<1> DEFINE found == {r \in Rules : /\ Unblocked(r)
                                   /\ \E v \in Recursive(r) : \A i \in DOMAIN r.pos :
                                         r.pos[i] \in Source(r, i, v)}
           new == Heads(found) \ derived
<1>1. Attaching /\ s \in Nat /\ IsStratified(program, stratum) /\ asserted \subseteq Assertable
  BY DEF Maintaining
<1>2. phase = "round" /\ Pass
  BY DEF Round, Evaluating
<1>3. old \union delta \subseteq derived
  BY <1>1, <1>2 DEF Attaching
<1>4. Fresh(found) = new
  BY <1>3 DEF Fresh
<1>5. /\ Record(found)
      /\ \/ new = {} /\ NextStratum("seed")
         \/ phase' = phase /\ derived' = derived \union new /\ old' = old \union delta /\ delta' = new /\ s' = s
  BY <1>4 DEF Round
<1>6. found \subseteq {r \in Rules : Holds(r, Facts)}
  <2> SUFFICES ASSUME NEW r \in found PROVE r \in Rules /\ Unblocked(r) /\ Body(r) \subseteq Facts
    BY DEF Holds, Unblocked
  <2>1. PICK v \in Recursive(r) : \A i \in DOMAIN r.pos : r.pos[i] \in Source(r, i, v)
    OBVIOUS
  <2>2. DOMAIN r.pos \subseteq Nat /\ Recursive(r) \subseteq DOMAIN r.pos
    BY <1>1, RuleFacts DEF Rules, Recursive
  <2>3. \A i \in DOMAIN r.pos : Source(r, i, v) \subseteq Facts
    BY <1>3, <2>2 DEF Source, Facts
  <2> QED  BY <2>1, <2>3 DEF Body
<1>7. /\ staging' = staging \union found /\ derived' = derived \union Heads(found)
      /\ UNCHANGED <<program, stratum, asserted, graph, saved, attach>>
  BY <1>2, <1>5 DEF Staged, Record, NextStratum, Pass, journal
<1>8. ASSUME NEW r \in Rules, Holds(r, Facts) PROVE r \in staging'
  <2>1. CASE \A i \in Recursive(r) : r.pos[i] \notin delta
    BY <1>1, <1>2, <1>7, <1>8, <2>1 DEF Attaching
  <2>2. CASE \E w \in Recursive(r) : r.pos[w] \in delta
    <3>1. \E v \in Recursive(r) : \A i \in DOMAIN r.pos : r.pos[i] \in Source(r, i, v)
      BY <1>1, <1>2, <1>8, <2>2, RoundFinds
    <3> QED  BY <1>7, <1>8, <3>1 DEF Holds, Unblocked
  <2> QED  BY <2>1, <2>2
<1> HIDE DEF found
<1>9. /\ derived' = Heads(staging')
      /\ staging' \subseteq {r \in Below(s + 1) : Holds(r, Facts')}
      /\ {r \in Below(s) : Holds(r, Facts')} \subseteq staging'
      /\ \A r \in Rules :
            Holds(r, Facts') /\ (\A i \in Recursive(r) : r.pos[i] \notin derived' \ derived) => Holds(r, Facts)
      /\ \A S \in SUBSET Atoms :
            ClosedUnder(Below(s + 1), asserted \union S, Facts') => derived' \subseteq asserted \union S
  BY <1>1, <1>6, <1>7, AttachPass
<1>10. CASE new = {} /\ NextStratum("seed")
  <2>1. phase' = "seed" /\ s' = s + 1 /\ Facts' = Facts
    BY <1>7, <1>10 DEF NextStratum, Facts
  <2>2. {r \in Below(s + 1) : Holds(r, Facts')} \subseteq staging'
    BY <1>1, <1>8, <1>9, <2>1, BelowNext
  <2>3. Below(s)' = Below(s + 1)
    BY <1>7, <2>1 DEF Below
  <2>4. Attaching'
    BY <1>7, <1>9, <2>1, <2>2, <2>3 DEF Attaching
  <2> QED  BY <1>1, <1>2, <2>1, <2>4, AttachKeeps
<1>11. CASE phase' = phase /\ derived' = derived \union new /\ old' = old \union delta /\ delta' = new /\ s' = s
  <2>1. \A x \in derived' : stratum[PredOf[x]] = s => x \in old' \union delta'
    BY <1>1, <1>2, <1>11 DEF Attaching
  <2>2. derived' \ derived = new /\ old' \union delta' \subseteq derived'
    BY <1>3, <1>11
  <2>3. Rules' = Rules
    BY <1>7, <1>11 DEF Rules
  <2>4. \A r : Recursive(r)' = Recursive(r)
    BY <2>3 DEF Recursive
  <2>5. Below(s)' = Below(s) /\ Below(s + 1)' = Below(s + 1)
    BY <1>7, <1>11 DEF Below
  <2> HIDE DEF new
  <2>6. \A r \in Rules : Holds(r, Facts') /\ (\A i \in Recursive(r) : r.pos[i] \notin new) => r \in staging'
    BY <1>8, <1>9, <2>2
  <2>7. phase' = "round" /\ delta' = new /\ s' = s
    BY <1>2, <1>11
  <2>8. /\ old' \union delta' \subseteq derived'
        /\ \A x \in derived' : stratum'[PredOf[x]] = s' => x \in old' \union delta'
    BY <1>7, <2>1, <2>2, <2>7
  <2>9. \A r \in Rules' : Holds(r, Facts') /\ (\A i \in Recursive(r)' : r.pos[i] \notin delta') => r \in staging'
    BY <2>3, <2>4, <2>6, <2>7
  <2>10. /\ staging' \subseteq {r \in Below(s + 1)' : Holds(r, Facts')}
         /\ {r \in Below(s)' : Holds(r, Facts')} \subseteq staging'
         /\ \A S \in SUBSET Atoms :
               ClosedUnder(Below(s + 1)', asserted' \union S, Facts') => derived' \subseteq asserted' \union S
    BY <1>7, <1>9, <2>5
  <2>11. derived' = Heads(staging')
    BY <1>9
  <2>12. Attaching'
    BY <2>7, <2>8, <2>9, <2>10, <2>11 DEF Attaching
  <2> QED  BY <1>1, <1>2, <2>7, <2>12, AttachKeeps
<1> QED  BY <1>5, <1>10, <1>11

\* The evaluation of the last stratum leaves what the program derives.
LEMMA AttachFinish ==
    ASSUME Maintainable, Maintaining, Staged, Finish, attach = "running" PROVE Maintaining'
<1>1. Attaching /\ IsStratified(program, stratum) /\ asserted \subseteq Assertable
  BY DEF Maintaining
<1>2. phase = "seed" /\ s = num_strata /\ staged
  BY <1>1 DEF Finish, Attaching, Staged
<1>3. Below(s) = program
  BY <1>1, <1>2, StrataNumber
<1>4. /\ derived = Heads(staging)
      /\ staging = {r \in program : Holds(r, asserted \union derived)}
      /\ \A S \in SUBSET Atoms :
            ClosedUnder(program, asserted \union S, asserted \union derived) => derived \subseteq asserted \union S
  BY <1>1, <1>2, <1>3 DEF Attaching, Facts
<1>5. derived \subseteq Atoms
  BY <1>1, <1>4, RuleFacts DEF Heads
<1>6. IsModel(program, asserted, derived, staging)
  BY <1>4, <1>5 DEF IsModel
<1>7. /\ phase' = "idle" /\ s' = 0 /\ attach' = "returning" /\ graph' = staging
      /\ UNCHANGED <<program, stratum, asserted, derived>>
  BY <1>2 DEF Finish
<1> QED  BY <1>1, <1>6, <1>7 DEF Maintaining

\* Attaching begins from nothing.
LEMMA AttachBegin ==
    ASSUME Maintainable, Maintaining, NEW P \in Programs \union {{}}, Attach(P) PROVE Maintaining'
<1>1. /\ phase = "idle" /\ s = 0 /\ IsModel(program, asserted, derived, graph)
      /\ IsStratified(program, stratum) /\ asserted \subseteq Assertable
  BY DEF Attach, Maintaining
<1>2. /\ program' = P /\ stratum' = Strata(P) /\ derived' = {} /\ staging' = {}
      /\ saved' = <<program, stratum, asserted, derived, graph>>
      /\ phase' = "seed" /\ attach' = "running" /\ s' = s /\ asserted' = asserted /\ graph' = graph
  BY DEF Attach, store, scratch
<1>3. IsStratified(program', stratum')
  BY <1>2, StrataFacts
<1>4. Below(s)' = {}
  BY <1>1, <1>2, <1>3, RuleFacts DEF Below
<1>5. Attaching'
  BY <1>2, <1>4 DEF Attaching, Heads
<1>6. saved'[1] = program /\ saved'[2] = stratum /\ saved'[3] = asserted /\ saved'[4] = derived
  BY <1>2
<1> QED  BY <1>1, <1>2, <1>3, <1>5, <1>6 DEF Maintaining

-----------------------------------------------------------------------------
(* Commits of the application *)

\* What the state before a commit says of the rules that facts change under.
LEMMA CommitFacts ==
    ASSUME Maintainable, Maintaining, Committing, phase # "idle"
    PROVE  /\ \A r \in program : r.neg = {}
           /\ Acyclic(program)
           /\ IsStratified(program, stratum)
           /\ saved[4] = Heads(graph)
           /\ graph = {r \in program : Body(r) \subseteq saved[3] \union saved[4]}
           /\ \A r \in program : r.head \notin Assertable
           /\ asserted \subseteq Assertable /\ saved[3] \subseteq Assertable
           /\ s \in Nat
<1>1. program \in Maintained \union {{}} /\ program = saved[1]
  BY DEF Committing
<1>2. \A r \in program : r.neg = {}
  BY <1>1 DEF Maintainable, MaintainableUnder, Positive
<1>3. Acyclic(program)
  BY <1>1 DEF Maintainable, MaintainableUnder, Acyclic
<1>4. IsStratified(program, stratum) /\ s \in Nat /\ asserted \subseteq Assertable /\ saved[3] \subseteq Assertable
  BY DEF Maintaining
<1>5. IsModel(program, saved[3], saved[4], graph)
  BY <1>1 DEF Maintaining
<1>6. graph = {r \in program : Body(r) \subseteq saved[3] \union saved[4]} /\ saved[4] = Heads(graph)
  <2>1. graph = {r \in program : Holds(r, saved[3] \union saved[4])} /\ saved[4] = Heads(graph)
    BY <1>5 DEF IsModel
  <2>2. \A r \in program : Holds(r, saved[3] \union saved[4]) <=> Body(r) \subseteq saved[3] \union saved[4]
    BY <1>2 DEF Holds
  <2> QED  BY <2>1, <2>2
<1>7. \A r \in program : r.head \notin Assertable
  BY <1>4, RuleFacts
<1> QED  BY <1>2, <1>3, <1>4, <1>6, <1>7

LEMMA CommitKeeps ==
    ASSUME Maintaining, phase # "idle", attach # "running", s' \in Nat,
           UNCHANGED <<program, stratum, asserted, graph, saved, attach>>,
           Committing'
    PROVE  Maintaining'
<1>1. phase' # "idle"
  BY DEF Committing
<1> QED  BY <1>1, Keeps

LEMMA BeginMaintains ==
    ASSUME Maintainable, Maintaining, Begin PROVE Maintaining'
<1>1. /\ phase = "idle" /\ attach = "none" /\ program \in Maintained \union {{}}
      /\ phase' = "open" /\ added' = {} /\ removed' = {}
      /\ saved' = <<program, stratum, asserted, derived, graph>>
      /\ UNCHANGED <<program, stratum, asserted, derived, graph, s, attach>>
  BY DEF Begin, Maintainable, MaintainableUnder, store, scratch
<1>2. saved'[1] = program /\ saved'[2] = stratum /\ saved'[3] = asserted /\ saved'[4] = derived
  BY <1>1
<1>3. Committing'
  BY <1>1, <1>2 DEF Committing, AddsOrRemoves
<1> QED  BY <1>1, <1>2, <1>3 DEF Maintaining

\* A transaction that adds facts removes none: Sizes.
LEMMA AddOrRemove ==
    ASSUME Maintainable, NEW X \in SUBSET Assertable, NEW Y \in SUBSET Assertable,
           NEW n \in Sizes
    PROVE  /\ Cardinality(X) < n[1] /\ Cardinality(Y) <= n[2] => Y = {}
           /\ Cardinality(X) <= n[1] /\ Cardinality(Y) < n[2] => X = {}
<1>1. IsFiniteSet(X) /\ IsFiniteSet(Y)
  BY ReactiveAssumption, FS_Subset DEF Maintainable, MaintainableUnder
<1>2. /\ Cardinality(X) \in Nat /\ (Cardinality(X) = 0 <=> X = {})
      /\ Cardinality(Y) \in Nat /\ (Cardinality(Y) = 0 <=> Y = {})
  BY <1>1, FS_CardinalityType, FS_EmptySet
<1>3. n[1] \in Nat /\ n[2] \in Nat /\ (n[1] = 0 \/ n[2] = 0)
  BY ReactiveAssumption DEF Maintainable, MaintainableUnder
<1> QED  BY <1>2, <1>3

LEMMA ChangeMaintains ==
    ASSUME Maintainable, Maintaining, Staged, NEW x \in Assertable, Assert(x) \/ Retract(x) PROVE Maintaining'
<1>1. phase = "open" /\ phase' = phase /\ s' = s
  BY DEF Assert, Retract, scratch
<1>2. /\ attach # "running" /\ Committing
  BY <1>1 DEF Maintaining, Attaching
<1>3. derived = saved[4] /\ AddsOrRemoves
  BY <1>1, <1>2 DEF Committing
<1>4. x \notin derived
  BY <1>1, <1>2, <1>3, CommitFacts DEF Heads
<1>5. /\ asserted' \subseteq Assertable
      /\ UNCHANGED <<program, stratum, derived, graph, saved, attach>>
  BY <1>1, <1>2, CommitFacts DEF Assert, Retract
<1>6. AddsOrRemoves'
  <2>1. CASE Assert(x)
    <3>1. /\ added' = added \union {x} /\ removed' = removed /\ asserted' = asserted \union {x} /\ saved' = saved
          /\ \E n \in Sizes : Cardinality(added) < n[1] /\ Cardinality(removed) <= n[2]
      BY <1>4, <2>1 DEF Assert
    <3>2. added \subseteq Assertable /\ removed \subseteq Assertable
      BY <1>3 DEF AddsOrRemoves
    <3>3. removed = {}
      BY <3>1, <3>2, AddOrRemove
    <3> QED  BY <1>3, <3>1, <3>3 DEF AddsOrRemoves
  <2>2. CASE Retract(x)
    <3>1. /\ removed' = removed \union {x} /\ added' = added /\ asserted' = asserted \ {x} /\ saved' = saved
          /\ \E n \in Sizes : Cardinality(added) <= n[1] /\ Cardinality(removed) < n[2]
      BY <1>4, <2>2 DEF Retract
    <3>2. added \subseteq Assertable /\ removed \subseteq Assertable
      BY <1>3 DEF AddsOrRemoves
    <3>3. added = {}
      BY <3>1, <3>2, AddOrRemove
    <3> QED  BY <1>3, <3>1, <3>3 DEF AddsOrRemoves
  <2> QED  BY <2>1, <2>2
<1>7. Committing'
  BY <1>1, <1>2, <1>3, <1>5, <1>6 DEF Committing
<1>8. IsModel(saved'[1], saved'[3], saved'[4], graph')
  BY <1>1, <1>5 DEF Maintaining
<1>9. IsStratified(saved'[1], saved'[2]) /\ IsStratified(program', stratum') /\ saved'[3] \subseteq Assertable
  BY <1>1, <1>5 DEF Maintaining
<1> QED  BY <1>1, <1>2, <1>5, <1>7, <1>8, <1>9 DEF Maintaining

LEMMA CommitMaintains ==
    ASSUME Maintainable, Maintaining, Commit PROVE Maintaining'
<1>1. /\ phase = "open" /\ phase' = "invalidate" /\ staging' = graph
      /\ pending' = (removed \X {FALSE}) \union (added \X {TRUE}) /\ seen' = pending'
      /\ scan' = (removed # {})
      /\ UNCHANGED <<program, stratum, asserted, derived, graph, added, removed, saved, s, attach>>
  BY DEF Commit, store, journal, scratch
<1>2. attach # "running" /\ Committing
  BY <1>1 DEF Maintaining, Attaching
<1>3. derived = saved[4] /\ AddsOrRemoves
  BY <1>1, <1>2 DEF Committing
<1>4. /\ saved[4] = Heads(graph)
      /\ graph = {r \in program : Body(r) \subseteq saved[3] \union saved[4]}
      /\ \A r \in program : r.head \notin Assertable
  BY <1>1, <1>2, CommitFacts
<1>5. \A x \in removed : x \notin Facts
  BY <1>3, <1>4 DEF AddsOrRemoves, Facts, Heads
<1>6. \A e \in seen' : ~ e[2] => e[1] \in removed
  BY <1>1
<1>7. \A r \in graph : \A x \in Body(r) : x \in Facts \/ x \in removed
  BY <1>3, <1>4 DEF AddsOrRemoves, Facts
<1>8. \A x \in removed : <<x, FALSE>> \in pending'
  BY <1>1
<1>9. Facts' = Facts
  BY <1>1 DEF Facts
<1>10. Invalidating'
  BY <1>1, <1>3, <1>4, <1>5, <1>6, <1>7, <1>8, <1>9 DEF Invalidating
<1>11. Committing'
  BY <1>1, <1>2, <1>3, <1>10 DEF Committing, AddsOrRemoves
<1>12. s' \in Nat /\ phase # "idle"
  BY <1>1 DEF Maintaining
<1> QED  BY <1>1, <1>2, <1>11, <1>12, CommitKeeps

LEMMA InvalidateMaintains ==
    ASSUME Maintainable, Maintaining, NEW y, NEW neg \in BOOLEAN, Invalidate(<<y, neg>>) PROVE Maintaining'
<1> DEFINE e == <<y, neg>>
           gone == {r \in staging : Uses(r, e)}
           lost == Unsupported(gone)
           new == ((lost \ asserted) \X {FALSE}) \ seen
<1>1. /\ phase = "invalidate" /\ phase' = phase /\ e \in pending
      /\ staging' = staging \ gone /\ derived' = derived \ lost
      /\ pending' = (pending \ {e}) \union new /\ seen' = seen \union new
      /\ scan' = (scan \/ (neg /\ gone # {}))
      /\ UNCHANGED <<program, stratum, asserted, graph, added, removed, saved, s, attach>>
  BY DEF Invalidate, journal, scratch
<1>2. attach # "running" /\ Committing /\ s' \in Nat /\ phase # "idle"
  BY <1>1 DEF Maintaining, Attaching
<1>3. Invalidating
  BY <1>1, <1>2 DEF Committing
<1>4. \A r \in program : r.neg = {} /\ r.head \notin Assertable
  BY <1>2, CommitFacts
<1>5. staging \subseteq graph /\ graph \subseteq program /\ asserted \subseteq Assertable
  BY <1>2, <1>3, CommitFacts DEF Invalidating
<1>6. gone = IF neg THEN {} ELSE {r \in staging : y \in Body(r)}
  BY <1>4, <1>5 DEF Uses
<1>7. neg => gone = {} /\ lost = {} /\ new = {}
  BY <1>6 DEF Unsupported, Heads
<1> HIDE DEF gone
<1>8. derived = Heads(staging) /\ derived' = Heads(staging')
  BY <1>1, <1>3 DEF Invalidating, Unsupported, Heads
<1>9. \A x \in lost : x \notin asserted /\ x \in derived
  BY <1>4, <1>5, <1>8 DEF Unsupported, Heads
<1> HIDE DEF lost
<1>10. Facts' = Facts \ lost
  BY <1>1, <1>9 DEF Facts
<1>11. \A e1 \in new : ~ e1[2] /\ e1[1] \in lost
  OBVIOUS
<1>12. \A x \in lost : <<x, FALSE>> \in new \/ <<x, FALSE>> \in seen
  BY <1>9
<1> HIDE DEF new
<1>13. staging' \subseteq graph /\ pending' \subseteq seen'
  BY <1>1, <1>3 DEF Invalidating
<1>14. removed' = {} => \A e1 \in seen' : e1[2]
  <2>1. removed = {} => neg
    BY <1>1, <1>3 DEF Invalidating
  <2> QED  BY <1>1, <1>3, <1>7, <2>1 DEF Invalidating
<1>15. \A e1 \in seen' : ~ e1[2] => e1[1] \notin Facts'
  BY <1>1, <1>3, <1>10, <1>11 DEF Invalidating
<1>16. ASSUME NEW r \in graph \ staging' PROVE \E x \in Body(r) : <<x, FALSE>> \in seen'
  <2>1. CASE r \notin staging
    BY <1>1, <1>3, <1>16, <2>1 DEF Invalidating
  <2>2. CASE r \in gone
    <3>1. neg = FALSE /\ y \in Body(r)
      BY <1>6, <2>2
    <3>2. <<y, FALSE>> \in seen
      BY <1>1, <1>3, <3>1 DEF Invalidating
    <3> QED  BY <1>1, <3>1, <3>2
  <2> QED  BY <1>1, <1>16, <2>1, <2>2
<1>17. ASSUME NEW r \in staging', NEW x \in Body(r) PROVE x \in Facts' \/ <<x, FALSE>> \in pending'
  <2>1. r \in staging /\ r \notin gone
    BY <1>1
  <2>2. CASE x \in Facts
    <3>1. <<x, FALSE>> \notin seen
      BY <1>3, <2>2 DEF Invalidating
    <3> QED  BY <1>1, <1>10, <1>12, <2>2, <3>1
  <2>3. CASE <<x, FALSE>> \in pending
    <3>1. <<x, FALSE>> # e
      BY <1>6, <2>1
    <3> QED  BY <1>1, <2>3, <3>1
  <2> QED  BY <1>3, <2>1, <2>2, <2>3 DEF Invalidating
<1>18. scan' <=> removed' # {}
  BY <1>1, <1>3, <1>7 DEF Invalidating
<1>19. Invalidating'
  BY <1>1, <1>8, <1>13, <1>14, <1>15, <1>16, <1>17, <1>18 DEF Invalidating
<1>20. Committing'
  BY <1>1, <1>2, <1>19 DEF Committing, AddsOrRemoves
<1> QED  BY <1>1, <1>2, <1>20, CommitKeeps

\* With no event to come, the justifications left are those that hold when facts
\* were removed, and all the old ones when facts were added.
LEMMA InvalidatedMaintains ==
    ASSUME Maintainable, Maintaining, Invalidated PROVE Maintaining'
<1>1. /\ phase = "invalidate" /\ pending = {} /\ s' = 0 /\ plus' = added /\ minus' = removed
      /\ phase' = IF scan THEN "seed" ELSE "delete seed"
      /\ UNCHANGED <<program, stratum, asserted, derived, graph, staging, added, removed, saved, attach>>
  BY DEF Invalidated, store, journal
<1>2. attach # "running" /\ Committing /\ phase # "idle"
  BY <1>1 DEF Maintaining, Attaching
<1>3. Invalidating /\ AddsOrRemoves
  BY <1>1, <1>2 DEF Committing
<1>4. /\ saved[4] = Heads(graph)
      /\ graph = {r \in program : Body(r) \subseteq saved[3] \union saved[4]}
  BY <1>2, CommitFacts
<1>5. /\ staging \subseteq graph /\ derived = Heads(staging)
      /\ \A r \in staging : Body(r) \subseteq Facts
      /\ \A r \in graph \ staging : \E x \in Body(r) : <<x, FALSE>> \in seen
      /\ \A x : <<x, FALSE>> \in seen => x \notin Facts /\ removed # {}
      /\ scan <=> removed # {}
  BY <1>1, <1>3 DEF Invalidating
<1>6. derived \subseteq saved[4]
  BY <1>4, <1>5 DEF Heads
<1>7. CASE scan
  <2>1. phase' = "seed" /\ added = {} /\ asserted = saved[3] \ removed
    BY <1>1, <1>3, <1>5, <1>7 DEF AddsOrRemoves
  <2>2. \A r \in program : Body(r) \subseteq Facts => r \in graph
    BY <1>4, <1>6, <2>1 DEF Facts
  <2>3. staging = {r \in program : Body(r) \subseteq Facts}
    BY <1>4, <1>5, <2>2
  <2>4. Facts' = Facts
    BY <1>1 DEF Facts
  <2>5. Committing'
    BY <1>1, <1>2, <1>3, <1>5, <2>1, <2>3, <2>4 DEF Committing, AddsOrRemoves
  <2> QED  BY <1>1, <1>2, <2>5, CommitKeeps
<1>8. CASE ~ scan
  <2>1. phase' = "delete seed" /\ removed = {}
    BY <1>1, <1>5, <1>8
  <2>2. staging = graph /\ Facts' = Facts
    BY <1>1, <1>5, <2>1 DEF Facts
  <2>3. Inserting'
    BY <1>1, <1>4, <1>5, <1>6, <2>1, <2>2 DEF Inserting
  <2>4. Committing'
    BY <1>1, <1>2, <1>3, <2>1, <2>3 DEF Committing, AddsOrRemoves
  <2> QED  BY <1>1, <1>2, <2>4, CommitKeeps
<1> QED  BY <1>7, <1>8

\* After invalidation, the full evaluation of a commit finds nothing new.
LEMMA SeedMaintains ==
    ASSUME Maintainable, Maintaining, Staged, Seed, attach # "running" PROVE Maintaining'
<1> DEFINE found == {r \in Rules : Unblocked(r) /\ Recursive(r) = {} /\ Body(r) \subseteq Facts}
           new == Heads(found) \ derived
<1>1. /\ phase = "seed" /\ Pass /\ Record(found)
      /\ \/ new = {} /\ NextStratum("seed")
         \/ new # {}
  BY DEF Seed, Evaluating
<1>2. Committing /\ s \in Nat /\ staged
  BY <1>1 DEF Maintaining, Staged
<1>3. staging = {r \in program : Body(r) \subseteq Facts} /\ derived = Heads(staging)
  BY <1>1, <1>2 DEF Committing
<1>4. found \subseteq staging /\ new = {}
  BY <1>3 DEF Rules, Heads
<1>5. /\ phase' = phase /\ s' = s + 1
      /\ UNCHANGED <<program, stratum, asserted, derived, graph, staging, added, removed, saved, attach>>
  BY <1>1, <1>2, <1>4 DEF NextStratum, Pass, journal, Record
<1>6. Facts' = Facts
  BY <1>5 DEF Facts
<1>7. Committing'
  BY <1>1, <1>2, <1>3, <1>5, <1>6 DEF Committing, AddsOrRemoves
<1> QED  BY <1>1, <1>2, <1>5, <1>7, CommitKeeps

\* An insertion deletes nothing: there is no negation.
LEMMA DeleteMaintains ==
    ASSUME Maintainable, Maintaining, DeleteSeed \/ Deleted PROVE Maintaining'
<1>1. phase = "delete seed"
  BY DEF DeleteSeed, Deleted, Evaluating
<1>2. attach # "running" /\ Committing /\ phase # "idle"
  BY <1>1 DEF Maintaining, Attaching
<1>3. Inserting
  BY <1>1, <1>2 DEF Committing
<1>4. s \in Nat /\ IsStratified(program, stratum) /\ \A r \in program : r.neg = {}
  BY <1>2, CommitFacts
<1>5. minus = {} /\ Heads(NegationTriggered(plus)) = {}
  BY <1>3, <1>4 DEF Inserting, NegationTriggered, Heads, Rules
<1>6. /\ UNCHANGED <<program, stratum, asserted, derived, graph, staging, added, removed, saved, plus, minus, attach>>
      /\ \/ phase' = "delete seed" /\ s' = s + 1
         \/ phase' = "insert seed" /\ s' = 0
  BY <1>5 DEF DeleteSeed, Deleted, NextStratum, Pass, journal
<1>7. s' = s + 1 \/ s' = 0
  BY <1>6
<1>8. s' \in Nat
  BY <1>4, <1>7
<1>9. Facts' = Facts
  BY <1>6 DEF Facts
<1>10. Below(0)' = {}
  BY <1>4, <1>6, BelowNext DEF Below
<1>11. Inserting'
  <2>1. CASE phase' = "delete seed" /\ s' = s + 1
    BY <1>3, <1>6, <1>9, <2>1 DEF Inserting
  <2>2. CASE phase' = "insert seed" /\ s' = 0
    <3>1. {r \in Below(s)' : Body(r) \subseteq Facts'} \subseteq staging'
      BY <1>10, <2>2 DEF Below
    <3> QED  BY <1>3, <1>6, <1>9, <2>2, <3>1 DEF Inserting
  <2> QED  BY <1>6, <2>1, <2>2
<1>12. Committing'
  BY <1>2, <1>6, <1>11 DEF Committing, AddsOrRemoves
<1> QED  BY <1>2, <1>8, <1>6, <1>12, CommitKeeps

\* A rule that holds without a new fact was in the graph before.
LEMMA InsertOld ==
    ASSUME Maintainable, Maintaining, Committing, Inserting, phase # "idle",
           NEW r \in program, Body(r) \subseteq Facts, Body(r) \intersect plus = {}
    PROVE  r \in staging
<1>1. graph = {q \in program : Body(q) \subseteq saved[3] \union saved[4]}
  BY CommitFacts
<1>2. removed = {} /\ added \subseteq plus /\ derived \subseteq saved[4] \union plus /\ graph \subseteq staging
  BY DEF Inserting
<1>3. asserted \subseteq saved[3] \union added
  BY <1>2 DEF Committing, AddsOrRemoves
<1> QED  BY <1>1, <1>2, <1>3 DEF Facts

LEMMA InsertSeedMaintains ==
    ASSUME Maintainable, Maintaining, Staged, InsertSeed PROVE Maintaining'
<1>1. phase = "insert seed" /\ Pass
  BY DEF InsertSeed, Evaluating
<1>2. attach # "running" /\ Committing /\ phase # "idle" /\ staged
  BY <1>1 DEF Maintaining, Attaching, Staged
<1>3. Inserting
  BY <1>1, <1>2 DEF Committing
<1>4. s \in Nat /\ IsStratified(program, stratum)
  BY <1>2, CommitFacts
<1>5. NegationTriggered(minus) = {}
  BY <1>3 DEF Inserting, NegationTriggered
<1>6. /\ staging' = staging
      /\ IF plus = {} THEN NextStratum("insert seed")
         ELSE /\ phase' = "insert round" /\ delta' = plus /\ old' = plus
              /\ UNCHANGED <<derived, plus, s, minus>>
  BY <1>2, <1>5 DEF InsertSeed, Record, Heads
<1>7. UNCHANGED <<program, stratum, asserted, derived, graph, staging, added, removed, saved, plus, minus, attach>>
  BY <1>1, <1>6 DEF NextStratum, Pass, journal
<1>8. Facts' = Facts
  BY <1>7 DEF Facts
<1>9. {r \in Below(s) : Body(r) \subseteq Facts} \subseteq staging
  BY <1>1, <1>3 DEF Inserting
<1>10. /\ removed = {} /\ minus = {}
       /\ derived = Heads(staging)
       /\ staging \subseteq {r \in program : Body(r) \subseteq Facts}
       /\ graph \subseteq staging
       /\ added \subseteq plus /\ derived \subseteq saved[4] \union plus /\ plus \subseteq added \union derived
  BY <1>3 DEF Inserting
<1>11. CASE plus = {}
  <2>1. phase' = "insert seed" /\ s' = s + 1
    BY <1>6, <1>11 DEF NextStratum
  <2>2. s' = s + 1
    BY <2>1
  <2>3. s' \in Nat
    BY <1>4, <2>2
  <2>4. \A r \in program : Body(r) \subseteq Facts => r \in staging
    BY <1>2, <1>3, <1>11, InsertOld
  <2>5. {r \in Below(s)' : Body(r) \subseteq Facts} \subseteq staging
    BY <1>7, <2>4 DEF Below
  <2>6. Inserting'
    BY <1>7, <1>8, <1>10, <2>1, <2>5 DEF Inserting
  <2>7. Committing'
    BY <1>2, <1>7, <2>1, <2>6 DEF Committing, AddsOrRemoves
  <2> QED  BY <1>2, <1>7, <2>3, <2>7, CommitKeeps
<1>12. CASE plus # {}
  <2>1. phase' = "insert round" /\ delta' = plus /\ old' = plus /\ s' = s
    BY <1>6, <1>12
  <2>2. \A r \in Rules : Body(r) \subseteq Facts /\ Body(r) \intersect plus = {} => r \in staging
    BY <1>2, <1>3, InsertOld DEF Rules
  <2>3. Rules' = Rules /\ Below(s)' = Below(s)
    BY <1>7, <2>1 DEF Rules, Below
  <2>4. Inserting'
    BY <1>7, <1>8, <1>9, <1>10, <2>1, <2>2, <2>3 DEF Inserting
  <2>5. Committing'
    BY <1>2, <1>7, <2>1, <2>4 DEF Committing, AddsOrRemoves
  <2> QED  BY <1>2, <1>4, <1>7, <2>1, <2>5, CommitKeeps
<1> QED  BY <1>11, <1>12

LEMMA InsertRoundMaintains ==
    ASSUME Maintainable, Maintaining, Staged, InsertRound PROVE Maintaining'
<1> DEFINE found == Triggered(delta)
           new == Heads(found) \ derived
<1>1. phase = "insert round" /\ Pass
  BY DEF InsertRound, Evaluating
<1>2. attach # "running" /\ Committing /\ phase # "idle" /\ staged
  BY <1>1 DEF Maintaining, Attaching, Staged
<1>3. Inserting
  BY <1>1, <1>2 DEF Committing
<1>4. /\ s \in Nat /\ IsStratified(program, stratum) /\ asserted \subseteq Assertable
      /\ \A r \in program : r.neg = {} /\ r.head \notin Assertable
  BY <1>2, CommitFacts
<1>5. /\ removed = {} /\ minus = {}
      /\ derived = Heads(staging)
      /\ staging \subseteq {r \in program : Body(r) \subseteq Facts}
      /\ graph \subseteq staging
      /\ added \subseteq plus /\ derived \subseteq saved[4] \union plus /\ plus \subseteq added \union derived
      /\ old \subseteq plus /\ delta \subseteq plus
      /\ {r \in Below(s) : Body(r) \subseteq Facts} \subseteq staging
      /\ \A r \in Rules : Body(r) \subseteq Facts /\ Body(r) \intersect delta = {} => r \in staging
  BY <1>1, <1>3 DEF Inserting
<1>6. added \subseteq asserted /\ added \subseteq Assertable
  BY <1>2, <1>5 DEF Committing, AddsOrRemoves
<1>7. delta \subseteq Facts
  BY <1>5, <1>6 DEF Facts
<1>8. found \subseteq {r \in Rules : Body(r) \subseteq Facts}
  BY <1>7 DEF Triggered, Body
<1>9. \A r \in Rules : Body(r) \subseteq Facts /\ Body(r) \intersect delta # {} => r \in found
  BY <1>4 DEF Triggered, Body, Unblocked, Rules
<1>10. \A r \in found : r \in program /\ r.head \notin added
  BY <1>4, <1>6, <1>8 DEF Rules
<1> HIDE DEF found
<1>11. Fresh(found) = new
  BY <1>5, <1>10 DEF Fresh, Heads
<1>12. /\ staging' = staging \union found
       /\ \/ new = {} /\ NextStratum("insert seed")
          \/ /\ derived' = derived \union new
             /\ old' = old \union delta /\ delta' = new /\ plus' = plus \union new
             /\ UNCHANGED <<phase, s, minus>>
  BY <1>2, <1>11 DEF InsertRound, Record, found
<1>13. /\ UNCHANGED <<program, stratum, asserted, graph, added, removed, saved, minus, attach>>
       /\ derived' = derived \union new
  BY <1>1, <1>12 DEF NextStratum, Pass, journal
<1>14. derived' = Heads(staging')
  BY <1>5, <1>12, <1>13 DEF Heads
<1>15. Facts' = Facts \union new
  BY <1>13 DEF Facts
<1>16. staging' \subseteq {r \in program : Body(r) \subseteq Facts'}
  BY <1>5, <1>8, <1>10, <1>12, <1>15
<1>17. \A r \in Rules : Body(r) \subseteq Facts => r \in staging'
  BY <1>5, <1>9, <1>12
<1>18. \A r \in Below(s) : Body(r) \intersect new = {}
  BY <1>4, <1>8, NewFacts
<1>19. CASE new = {} /\ NextStratum("insert seed")
  <2>1. phase' = "insert seed" /\ s' = s + 1 /\ Facts' = Facts /\ plus' = plus
    BY <1>15, <1>19 DEF NextStratum
  <2>2. s' = s + 1
    BY <2>1
  <2>3. s' \in Nat
    BY <1>4, <2>2
  <2>4. Below(s)' = Below(s) \union Rules
    BY <1>4, <1>13, <2>1, BelowNext DEF Below
  <2>5. {r \in Below(s)' : Body(r) \subseteq Facts'} \subseteq staging'
    BY <1>5, <1>12, <1>17, <2>1, <2>4
  <2>6. graph' \subseteq staging' /\ derived' \subseteq saved'[4] \union plus' /\ plus' \subseteq added' \union derived'
    BY <1>5, <1>12, <1>13, <1>19, <2>1
  <2>7. Inserting'
    BY <1>5, <1>13, <1>14, <1>16, <2>1, <2>5, <2>6 DEF Inserting
  <2>8. Committing'
    BY <1>2, <1>13, <2>1, <2>7 DEF Committing, AddsOrRemoves
  <2> QED  BY <1>2, <1>13, <2>3, <2>8, CommitKeeps
<1>20. CASE /\ derived' = derived \union new
            /\ old' = old \union delta /\ delta' = new /\ plus' = plus \union new
            /\ UNCHANGED <<phase, s, minus>>
  <2>1. phase' = "insert round" /\ s' = s /\ delta' = new
    BY <1>1, <1>20
  <2>2. Rules' = Rules /\ Below(s)' = Below(s)
    BY <1>13, <2>1 DEF Rules, Below
  <2>3. {r \in Below(s)' : Body(r) \subseteq Facts'} \subseteq staging'
    <3>1. staging \subseteq staging'
      BY <1>12
    <3> QED  BY <1>5, <1>15, <1>18, <2>2, <3>1
  <2>4. \A r \in Rules' : Body(r) \subseteq Facts' /\ Body(r) \intersect delta' = {} => r \in staging'
    BY <1>15, <1>17, <2>1, <2>2
  <2>5. /\ graph' \subseteq staging' /\ added' \subseteq plus'
        /\ derived' \subseteq saved'[4] \union plus' /\ plus' \subseteq added' \union derived'
        /\ old' \subseteq plus' /\ delta' \subseteq plus'
    BY <1>5, <1>12, <1>13, <1>20
  <2>6. Inserting'
    BY <1>5, <1>13, <1>14, <1>16, <2>1, <2>3, <2>4, <2>5 DEF Inserting
  <2>7. Committing'
    BY <1>2, <1>13, <2>1, <2>6 DEF Committing, AddsOrRemoves
  <2> QED  BY <1>2, <1>4, <1>13, <2>1, <2>7, CommitKeeps
<1> QED  BY <1>12, <1>19, <1>20

\* Without a cycle, what has justifications that hold follows from less only if
\* it is there.
LEMMA AcyclicMinimal ==
    ASSUME NEW P, NEW A, NEW D, NEW G, Acyclic(P), Positive(P), D \subseteq Atoms,
           G = {r \in P : Body(r) \subseteq A \union D}, D = Heads(G)
    PROVE  IsModel(P, A, D, G)
<1>1. \A r \in P : Holds(r, A \union D) <=> Body(r) \subseteq A \union D
  BY DEF Holds, Positive
<1>2. G = {r \in P : Holds(r, A \union D)}
  BY <1>1
<1>3. ASSUME NEW S \in SUBSET D, ClosedUnder(P, A \union S, A \union D), ~ (D \subseteq A \union S)
      PROVE  FALSE
  <2> DEFINE X == D \ (A \union S)
  <2>1. X \in SUBSET Atoms /\ X # {}
    BY <1>3
  <2>2. PICK x \in X : \A r \in P : r.head = x => Body(r) \intersect X = {}
    BY <2>1 DEF Acyclic
  <2>3. PICK r \in G : r.head = x
    BY DEF Heads
  <2>4. r \in P /\ Body(r) \subseteq A \union S
    BY <2>2, <2>3
  <2>5. r.head \in A \union S
    BY <1>3, <2>4 DEF ClosedUnder, Positive
  <2> QED  BY <2>3, <2>5
<1> QED  BY <1>2, <1>3 DEF IsModel

LEMMA FinishMaintains ==
    ASSUME Maintainable, Maintaining, Staged, Finish, attach # "running" PROVE Maintaining'
<1>1. phase \in {"seed", "insert seed"} /\ s = num_strata
  BY DEF Finish
<1>2. Committing /\ staged /\ phase # "idle"
  BY <1>1 DEF Maintaining, Staged
<1>3. /\ \A r \in program : r.neg = {}
      /\ Acyclic(program) /\ IsStratified(program, stratum) /\ asserted \subseteq Assertable
  BY <1>2, CommitFacts
<1>4. Below(s) = program
  BY <1>1, <1>3, StrataNumber
<1>5. staging = {r \in program : Body(r) \subseteq asserted \union derived} /\ derived = Heads(staging)
  <2>1. CASE phase = "seed"
    BY <1>2, <2>1 DEF Committing, Facts
  <2>2. CASE phase = "insert seed"
    BY <1>2, <1>4, <2>2 DEF Committing, Inserting, Facts
  <2> QED  BY <1>1, <2>1, <2>2
<1>6. derived \subseteq Atoms
  BY <1>3, <1>5, RuleFacts DEF Heads
<1>7. IsModel(program, asserted, derived, staging)
  BY <1>3, <1>5, <1>6, AcyclicMinimal DEF Positive
<1>8. /\ phase' = "idle" /\ s' = 0 /\ attach' = attach /\ graph' = staging
      /\ UNCHANGED <<program, stratum, asserted, derived>>
  BY <1>2 DEF Finish
<1> QED  BY <1>3, <1>7, <1>8 DEF Maintaining

\* What a rollback brings back is what the graph justifies.
LEMMA RestoredMaintains ==
    ASSUME Maintaining, Rollback \/ Fail PROVE Maintaining'
<1>1. phase # "idle" /\ Restored
  BY DEF Rollback, Fail
<1>2. /\ saved[3] \subseteq Assertable /\ IsStratified(saved[1], saved[2])
      /\ IsModel(saved[1], saved[3], saved[4], graph)
  BY <1>1 DEF Maintaining
<1>3. /\ phase' = "idle" /\ program' = saved[1] /\ stratum' = saved[2] /\ asserted' = saved[3]
      /\ derived' = saved[4] /\ graph' = graph /\ s' = 0 /\ attach' # "running"
  BY <1>1 DEF Restored
<1> QED  BY <1>2, <1>3 DEF Maintaining

LEMMA LateCommitMaintains ==
    ASSUME Maintaining, Staged, LateCommit PROVE Maintaining'
<1>1. phase = "idle" /\ ~ staged
  BY DEF LateCommit, Staged
<1>2. /\ phase' = "idle" /\ attach' = "none"
      /\ UNCHANGED <<program, stratum, asserted, derived, graph, s>>
  BY <1>1 DEF LateCommit, scratch
<1> QED  BY <1>1, <1>2 DEF Maintaining

LEMMA InitMaintains ==
    ASSUME Maintainable, Init PROVE Maintaining
<1>1. [q \in Preds |-> 0] \in [Preds -> Levels]
  BY LevelFacts
<1>2. IsStratified(program, stratum)
  BY <1>1 DEF Init, IsStratified, Stratifies
<1>3. IsModel({}, {}, {}, {})
  BY DEF IsModel, Heads
<1> QED  BY <1>2, <1>3 DEF Init, Maintaining

LEMMA NextMaintains ==
    ASSUME Maintainable, Maintaining, Staged, [Next]_vars PROVE Maintaining'
<1>1. CASE UNCHANGED vars
  <2>1. phase = "idle" => IsModel(program', asserted', derived', graph')
    BY <1>1 DEF vars, Maintaining
  <2>2. phase # "idle" => IsModel(saved'[1], saved'[3], saved'[4], graph')
    BY <1>1 DEF vars, Maintaining
  <2>3. attach = "running" => Attaching'
    <3>1. Facts' = Facts /\ Rules' = Rules /\ Below(s)' = Below(s) /\ Below(s + 1)' = Below(s + 1)
      BY <1>1 DEF vars, Facts, Below, Rules
    <3>2. \A r : Recursive(r)' = Recursive(r)
      BY <3>1 DEF Recursive
    <3>3. UNCHANGED <<phase, derived, staging, s, old, delta, stratum, asserted>>
      BY <1>1 DEF vars
    <3> QED  BY <3>1, <3>2, <3>3 DEF Maintaining, Attaching
  <2>4. attach # "running" /\ phase # "idle" => Committing'
    BY <1>1 DEF vars, Maintaining, Committing, AddsOrRemoves, Invalidating, Inserting, Facts, Below, Rules
  <2> QED  BY <1>1, <2>1, <2>2, <2>3, <2>4 DEF vars, Maintaining
<1>2. CASE Application
  <2>1. CASE \E x \in Assertable : Assert(x) \/ Retract(x)
    BY <2>1, ChangeMaintains
  <2>2. CASE \E P \in Programs \union {{}} : Attach(P)
    BY <2>2, AttachBegin
  <2> QED  BY <1>2, <2>1, <2>2, BeginMaintains, RestoredMaintains DEF Application
<1>3. CASE Listener
  <2>1. CASE \E x \in Atoms, n \in BOOLEAN : Invalidate(<<x, n>>)
    BY <2>1, InvalidateMaintains
  <2>2. CASE Seed
    BY <2>2, AttachSeed, SeedMaintains
  <2>3. CASE Round
    <3>1. attach = "running"
      BY <2>3 DEF Round, Evaluating, Maintaining, Committing
    <3> QED  BY <2>3, <3>1, AttachRound
  <2>4. CASE DeleteRound
    BY <2>4 DEF DeleteRound, Evaluating, Maintaining, Attaching, Committing
  <2>5. CASE Finish
    BY <2>5, AttachFinish, FinishMaintains
  <2> QED  BY <1>3, <2>1, <2>2, <2>3, <2>4, <2>5, InvalidatedMaintains, DeleteMaintains,
              InsertSeedMaintains, InsertRoundMaintains DEF Listener
<1> QED  BY <1>1, <1>2, <1>3, CommitMaintains, RestoredMaintains, LateCommitMaintains DEF Next

\* Maintaining is inductive, next to Staged.
THEOREM MaintainingHolds ==
    ASSUME Maintainable PROVE Spec => []Maintaining
<1>1. Init => Maintaining
  BY InitMaintains
<1>2. Maintaining /\ IInv /\ [Next]_vars => Maintaining'
  BY NextMaintains DEF IInv, Maintainable, MaintainableUnder
<1> QED  BY <1>1, <1>2, IInvHolds, PTL DEF Spec

\* Between commits every fact of the store follows from asserted facts, whatever
\* recursion and negation the program that was attached has, and after every
\* commit, rollback and failure under the programs that facts change under
\* (facts_datalog_eval, facts_datalog_eval_incremental, reactive_tx_listener).
THEOREM SoundHolds ==
    ASSUME Maintainable PROVE Spec => []Sound
<1>1. Maintaining => Sound
  <2> SUFFICES ASSUME IsModel(program, asserted, derived, graph), NEW S \in SUBSET derived,
                      Closed(asserted \union S)
               PROVE  Facts = asserted \union S
    BY DEF Maintaining, Sound
  <2>1. ClosedUnder(program, asserted \union S, asserted \union derived)
    BY DEF Closed, ClosedUnder, Unblocked, Facts
  <2>2. derived \subseteq asserted \union S
    BY <2>1 DEF IsModel
  <2> QED  BY <2>2 DEF Facts
<1> QED  BY <1>1, MaintainingHolds, PTL

\* Between commits nothing that follows is missing from the store: the
\* semi-naive evaluation and the insertions find every solution.
THEOREM CompleteHolds ==
    ASSUME Maintainable PROVE Spec => []Complete
<1>1. Maintaining => Complete
  <2> SUFFICES ASSUME IsModel(program, asserted, derived, graph), NEW r \in program,
                      Body(r) \subseteq Facts, Unblocked(r)
               PROVE  r.head \in Facts
    BY DEF Maintaining, Complete, Closed
  <2> QED  BY DEF IsModel, Holds, Unblocked, Heads, Facts
<1> QED  BY <1>1, MaintainingHolds, PTL

\* Between commits the graph of justifications holds the applications of rules
\* that hold, and no others (justification.c, facts_commit_justifications).
THEOREM GraphExactHolds ==
    ASSUME Maintainable PROVE Spec => []GraphExact
<1>1. Maintaining => GraphExact
  BY DEF Maintaining, GraphExact, IsModel, Holds, Unblocked, Facts
<1> QED  BY <1>1, MaintainingHolds, PTL
=============================================================================
