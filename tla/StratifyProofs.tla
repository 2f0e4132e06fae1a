--------------------------- MODULE StratifyProofs ---------------------------
(***************************************************************************)
(* The strata that datalog_program_stratify returns are a stratification,  *)
(* and the lowest one, and it refuses only programs that have none: for    *)
(* every set of predicates and of programs.  And the magic transformation, *)
(* the other one of a whole program, turns safe rules into safe rules that *)
(* derive exactly what is asked for.                                       *)
(***************************************************************************)
EXTENDS Stratify, Magic, FiniteSetTheorems, WellFoundedInduction, TLAPS

\* The dependency that a step looks at, with its types.
LEMMA DependencyType ==
    ASSUME TypeOK, NEW i \in 1..Len(program)
    PROVE  /\ program \in Seq(Dependencies)
           /\ program[i] \in Dependencies
           /\ program[i].head \in Preds
           /\ program[i].sub \in Preds
           /\ program[i].negated \in BOOLEAN
           /\ Needed(program[i]) \in Nat
<1>1. program \in Seq(Dependencies) /\ program[i] \in Dependencies
  BY StratifyAssumption DEF TypeOK
<1>2. program[i].head \in Preds /\ program[i].sub \in Preds /\ program[i].negated \in BOOLEAN
  BY <1>1 DEF Dependencies
<1>3. Needed(program[i]) \in Nat
  BY <1>2 DEF Needed, TypeOK
<1> QED  BY <1>1, <1>2, <1>3

\* No stratification can leave the head below what the literal needs, when the
\* literal's own stratum is no higher than in that stratification.
LEMMA NeededIsNeeded ==
    ASSUME TypeOK, NEW i \in 1..Len(program),
           NEW f \in [Preds -> 0..MaxStratum], Stratifies(f, program),
           \A q \in Preds : stratum[q] <= f[q]
    PROVE  Needed(program[i]) <= f[program[i].head]
<1> DEFINE d == program[i]
<1>1. d.head \in Preds /\ d.sub \in Preds /\ d.negated \in BOOLEAN /\ program \in Seq(Dependencies)
  BY DependencyType
<1>2. i \in DOMAIN program
  BY <1>1
<1>3. f[d.head] >= (IF d.negated THEN f[d.sub] + 1 ELSE f[d.sub])
  BY <1>2 DEF Stratifies
<1>4. f[d.head] \in Nat /\ f[d.sub] \in Nat /\ stratum[d.sub] \in Nat /\ stratum[d.sub] <= f[d.sub]
  BY <1>1, StratifyAssumption DEF TypeOK
<1>5. Needed(d) = IF d.negated THEN stratum[d.sub] + 1 ELSE stratum[d.sub]
  BY DEF Needed
<1> HIDE DEF d
<1>6. Needed(d) <= f[d.head]
  BY <1>3, <1>4, <1>5
<1> QED  BY <1>6 DEF d

LEMMA InitIInv == Init => IInv
<1> SUFFICES ASSUME Init PROVE IInv
  OBVIOUS
<1>1. program \in Seq(Dependencies) /\ Len(program) \in Nat
  BY StratifyAssumption DEF Init
<1>2. TypeOK
  <2>1. next \in 1..(Len(program) + 1) /\ iter \in Nat /\ stratum \in [Preds -> Nat]
    BY <1>1 DEF Init
  <2> QED  BY <2>1, Zenon DEF Init, TypeOK
<1>3. PassSoFar
  BY DEF Init, PassSoFar
<1>4. Lowest
  BY StratifyAssumption DEF Init, Lowest
<1> QED  BY <1>2, <1>3, <1>4 DEF IInv

LEMMA RaiseKeepsIInv == IInv /\ Raise => IInv'
<1> SUFFICES ASSUME IInv, Raise PROVE IInv'
  OBVIOUS
<1> USE DEF IInv
<1> DEFINE d == program[next]
<1>1. next \in 1..Len(program) /\ Len(program) \in Nat
  BY StratifyAssumption DEF TypeOK, Raise
<1>2. d.head \in Preds /\ Needed(d) \in Nat
  BY <1>1, DependencyType
<1>3. stratum' = [stratum EXCEPT ![d.head] = Needed(d)]
  BY DEF Raise
<1>4. TypeOK'
  <2> HIDE DEF d
  <2>1. stratum' \in [Preds -> Nat]
    BY <1>2, <1>3 DEF TypeOK
  <2>2. next' \in 1..(Len(program) + 1)
    BY <1>1 DEF Raise
  <2> QED  BY <2>1, <2>2 DEF TypeOK, Raise
<1>5. PassSoFar'
  BY DEF PassSoFar, Raise
<1>6. Lowest'
  <2> SUFFICES ASSUME NEW f \in [Preds -> 0..MaxStratum], Stratifies(f, program), NEW q \in Preds
               PROVE  stratum'[q] <= f[q]
    BY DEF Lowest, Raise, Stratifies
  <2>1. \A x \in Preds : stratum[x] <= f[x]
    BY DEF Lowest
  <2>2. Needed(d) <= f[d.head]
    BY <1>1, <2>1, NeededIsNeeded
  <2> HIDE DEF d
  <2> QED  BY <1>2, <1>3, <2>1, <2>2 DEF TypeOK
<1> QED  BY <1>4, <1>5, <1>6

LEMMA KeepKeepsIInv == IInv /\ Keep => IInv'
<1> SUFFICES ASSUME IInv, Keep PROVE IInv'
  OBVIOUS
<1> USE DEF IInv
<1>1. next \in 1..Len(program) /\ Len(program) \in Nat
  BY StratifyAssumption DEF TypeOK, Keep
<1>2. TypeOK'
  BY <1>1 DEF TypeOK, Keep
<1>3. PassSoFar'
  <2>1. ASSUME ~ changed, NEW i \in 1..next
        PROVE  stratum[program[i].head] >= Needed(program[i])
    <3>1. CASE i = next
      BY <3>1 DEF Keep
    <3>2. CASE i # next
      <4>1. i \in 1..(next - 1)
        BY <1>1, <3>2
      <4> QED  BY <2>1, <4>1 DEF PassSoFar
    <3> QED  BY <3>1, <3>2
  <2>2. (next + 1) - 1 = next
    BY <1>1
  <2> QED  BY <2>1, <2>2 DEF PassSoFar, Keep, Needed
<1>4. Lowest'
  BY DEF Lowest, Keep, Stratifies
<1> QED  BY <1>2, <1>3, <1>4

LEMMA AgainKeepsIInv == IInv /\ Again => IInv'
<1> SUFFICES ASSUME IInv, Again PROVE IInv'
  OBVIOUS
<1> USE DEF IInv
<1>1. Len(program) \in Nat
  BY StratifyAssumption DEF TypeOK
<1>2. TypeOK'
  <2>1. next' \in 1..(Len(program) + 1) /\ iter' \in Nat
    BY <1>1 DEF TypeOK, Again
  <2>2. changed' \in BOOLEAN
    BY Zenon DEF Again
  <2> QED  BY <2>1, <2>2 DEF TypeOK, Again
<1>3. PassSoFar'
  BY DEF PassSoFar, Again
<1>4. Lowest'
  BY DEF Lowest, Again, Stratifies
<1> QED  BY <1>2, <1>3, <1>4

LEMMA AnswerKeepsIInv == IInv /\ (Accept \/ Refuse) => IInv'
<1> SUFFICES ASSUME IInv, Accept \/ Refuse PROVE IInv'
  OBVIOUS
<1> USE DEF IInv
<1>1. TypeOK'
  BY DEF TypeOK, Accept, Refuse
<1>2. PassSoFar'
  BY DEF PassSoFar, Accept, Refuse, Needed
<1>3. Lowest'
  BY DEF Lowest, Accept, Refuse, Stratifies
<1> QED  BY <1>1, <1>2, <1>3

\* IInv is inductive.
THEOREM IInvHolds == Spec => []IInv
<1>1. IInv /\ [Next]_vars => IInv'
  <2> SUFFICES ASSUME IInv, [Next]_vars PROVE IInv'
    OBVIOUS
  <2>1. CASE UNCHANGED vars
    BY <2>1 DEF vars, IInv, TypeOK, PassSoFar, Lowest, Stratifies, Needed
  <2>2. CASE Next
    BY <2>2, RaiseKeepsIInv, KeepKeepsIInv, AgainKeepsIInv, AnswerKeepsIInv DEF Next
  <2> QED  BY <2>1, <2>2
<1> QED  BY InitIInv, <1>1, PTL DEF Spec

\* The strata of datalog_program_stratify are a stratification, whatever the
\* program: the pass that changes nothing has compared every dependency with
\* the strata that are returned.
THEOREM SoundHolds == Spec => []Sound
<1>1. IInv => Sound
  <2> SUFFICES ASSUME IInv, answer = "strata", NEW i \in DOMAIN program
               PROVE  stratum[program[i].head] >= Needed(program[i])
    BY DEF Sound, Stratifies, Needed
  <2>1. next = Len(program) + 1 /\ ~ changed
    BY DEF IInv, PassSoFar
  <2>2. i \in 1..Len(program) /\ Len(program) \in Nat
    BY StratifyAssumption DEF IInv, TypeOK
  <2>3. i \in 1..(next - 1)
    BY <2>1, <2>2
  <2> QED  BY <2>1, <2>3 DEF IInv, PassSoFar
<1> QED  BY <1>1, IInvHolds, PTL

\* They are the lowest, at every moment of the relaxation and for any bound on
\* the stratifications that they are compared with.
THEOREM LowestHolds == Spec => []Lowest
<1>1. IInv => Lowest
  BY DEF IInv
<1> QED  BY <1>1, IInvHolds, PTL

-----------------------------------------------------------------------------
(* A refused program has no stratification *)

LEMMA LeastNatural ==
    ASSUME NEW T, T \subseteq Nat, T # {}
    PROVE  \E x \in T : \A y \in T : x <= y
<1>1. PICK x \in T : \A y \in T : <<y, x>> \notin OpToRel(<, Nat)
  BY NatLessThanWellFounded, WFMin, Zenon
<1>2. \A y \in T : ~ (y < x)
  BY <1>1 DEF OpToRel
<1> QED  BY <1>2

LEMMA UsedFacts ==
    ASSUME TypeOK
    PROVE  /\ program \in Seq(Dependencies) /\ Len(program) \in Nat
           /\ DOMAIN program = 1..Len(program)
           /\ Used \subseteq Preds /\ IsFiniteSet(Used) /\ Cardinality(Used) \in Nat
           /\ \A i \in 1..Len(program) : program[i].head \in Used /\ program[i].sub \in Used
<1>1. program \in Seq(Dependencies) /\ Len(program) \in Nat /\ DOMAIN program = 1..Len(program)
  BY StratifyAssumption DEF TypeOK
<1> DEFINE heads == [i \in 1..Len(program) |-> program[i].head]
           subs == [i \in 1..Len(program) |-> program[i].sub]
           H == {program[i].head : i \in DOMAIN program}
           S == {program[i].sub : i \in DOMAIN program}
<1>2. IsFiniteSet(1..Len(program))
  <2>1. 1 \in Int /\ Len(program) \in Int
    BY <1>1
  <2> QED  BY <2>1, FS_Interval, Zenon
<1>3. heads \in Surjection(1..Len(program), H) /\ subs \in Surjection(1..Len(program), S)
  BY <1>1 DEF Surjection
<1> HIDE DEF heads, subs
<1>4. IsFiniteSet(H) /\ IsFiniteSet(S)
  BY <1>2, <1>3, FS_Surjection
<1>5. Used = H \cup S
  BY DEF Used
<1>6. H \subseteq Preds /\ S \subseteq Preds
  BY <1>1, DependencyType
<1>7. \A i \in 1..Len(program) : program[i].head \in H /\ program[i].sub \in S
  BY <1>1
<1> HIDE DEF H, S
<1>8. IsFiniteSet(Used)
  BY <1>4, <1>5, FS_Union
<1> QED  BY <1>1, <1>5, <1>6, <1>7, <1>8, FS_CardinalityType

\* A program that has a stratification has a lowest one.
LEMMA LeastExists ==
    ASSUME TypeOK, NEW f \in [Preds -> 0..MaxStratum], Stratifies(f, program)
    PROVE  \E g : Least(g)
<1> DEFINE All == {h \in [Preds -> 0..MaxStratum] : Stratifies(h, program)}
           At(q) == {h[q] : h \in All}
           IsLow(q, n) == n \in At(q) /\ \A m \in At(q) : n <= m
           g == [q \in Preds |-> CHOOSE n : IsLow(q, n)]
<1>1. ASSUME NEW q \in Preds PROVE IsLow(q, g[q])
  <2>1. f[q] \in At(q) /\ At(q) \subseteq Nat
    BY StratifyAssumption
  <2> HIDE DEF At
  <2>2. \E n : IsLow(q, n)
    BY <2>1, LeastNatural
  <2> HIDE DEF IsLow
  <2> QED  BY <2>2
<1>2. g = [q \in Preds |-> g[q]]
  OBVIOUS
<1> HIDE DEF g
<1>3. ASSUME NEW q \in Preds
      PROVE  /\ g[q] \in 0..MaxStratum /\ g[q] \in Nat
             /\ \A h \in All : g[q] <= h[q]
             /\ \E h \in All : g[q] = h[q]
  BY <1>1, StratifyAssumption
<1>4. g \in [Preds -> 0..MaxStratum]
  BY <1>2, <1>3
<1> HIDE DEF All
<1>5. Stratifies(g, program)
  <2> SUFFICES ASSUME NEW i \in DOMAIN program
               PROVE  g[program[i].head] >= (IF program[i].negated THEN g[program[i].sub] + 1
                                                                  ELSE g[program[i].sub])
    BY DEF Stratifies
  <2> DEFINE d == program[i]
  <2>1. d.head \in Preds /\ d.sub \in Preds
    BY UsedFacts, DependencyType
  <2>2. PICK h \in All : g[d.head] = h[d.head]
    BY <1>3, <2>1
  <2>3. h[d.head] >= (IF d.negated THEN h[d.sub] + 1 ELSE h[d.sub]) /\ h \in [Preds -> 0..MaxStratum]
    BY <2>2 DEF All, Stratifies
  <2>4. g[d.sub] <= h[d.sub] /\ g[d.sub] \in Nat /\ g[d.head] \in Nat /\ h[d.sub] \in Nat
    BY <1>3, <2>1, <2>2, <2>3, StratifyAssumption
  <2> HIDE DEF d
  <2>5. g[d.head] >= (IF d.negated THEN g[d.sub] + 1 ELSE g[d.sub])
    BY <2>2, <2>3, <2>4
  <2> QED  BY <2>5 DEF d
<1>6. Least(g)
  BY <1>3, <1>4, <1>5 DEF Least, All
<1> QED  BY <1>6

\* What the step looks at.
LEMMA SettledFacts ==
    ASSUME IInv, NEW f, Least(f)
    PROVE  /\ f \in [Preds -> 0..MaxStratum]
           /\ \A q \in Preds : f[q] \in Nat /\ stratum[q] \in Nat /\ stratum[q] <= f[q]
           /\ Settled(f) \in SUBSET Used /\ IsFiniteSet(Settled(f))
           /\ Cardinality(Settled(f)) \in Nat /\ Cardinality(Settled(f)) <= Cardinality(Used)
           /\ Cardinality(Settled(f)) = Cardinality(Used) => Settled(f) = Used
<1>1. f \in [Preds -> 0..MaxStratum] /\ Stratifies(f, program)
  BY DEF Least
<1>2. \A q \in Preds : f[q] \in Nat /\ stratum[q] \in Nat /\ stratum[q] <= f[q]
  BY <1>1, StratifyAssumption DEF IInv, TypeOK, Lowest
<1>3. Settled(f) \in SUBSET Used
  BY DEF Settled
<1>4. IsFiniteSet(Used)
  BY UsedFacts DEF IInv
<1> QED  BY <1>1, <1>2, <1>3, <1>4, FS_Subset, FS_CardinalityType

\* While a predicate is left, some settled literal decides about a head that is
\* not settled: otherwise those that are left could all be one lower.
LEMMA SomeDecides ==
    ASSUME IInv, NEW f, Least(f),
           \A i \in 1..Len(program) :
              program[i].sub \in Settled(f) /\ Decides(f, program[i])
                  => program[i].head \in Settled(f)
    PROVE  Settled(f) = Used
<1> SUFFICES ASSUME Settled(f) # Used PROVE FALSE
  OBVIOUS
<1> DEFINE W == Used \ Settled(f)
           g == [q \in Preds |-> IF q \in W THEN f[q] - 1 ELSE f[q]]
<1>1. PICK w \in W : TRUE
  BY SettledFacts
<1>2. W \subseteq Preds
  BY UsedFacts DEF IInv
<1>3. \A q \in W : f[q] >= 1
  <2> SUFFICES ASSUME NEW q \in W PROVE f[q] >= 1
    OBVIOUS
  <2>1. q \in Preds /\ stratum[q] # f[q]
    BY <1>2 DEF Settled
  <2>2. f[q] \in Nat /\ stratum[q] \in Nat /\ stratum[q] <= f[q]
    BY <2>1, SettledFacts
  <2> QED  BY <2>1, <2>2
<1>4. \A q \in Preds : /\ g[q] = IF q \in W THEN f[q] - 1 ELSE f[q]
                       /\ g[q] \in 0..MaxStratum /\ f[q] \in 0..MaxStratum
  BY <1>3, SettledFacts, StratifyAssumption
<1>5. g \in [Preds -> 0..MaxStratum]
  BY <1>4
<1> HIDE DEF g
<1>6. Stratifies(g, program)
  <2> SUFFICES ASSUME NEW i \in 1..Len(program)
               PROVE  g[program[i].head] >= (IF program[i].negated THEN g[program[i].sub] + 1
                                                                  ELSE g[program[i].sub])
    BY UsedFacts DEF Stratifies, IInv
  <2> DEFINE d == program[i]
  <2>1. d.head \in Preds /\ d.sub \in Preds /\ d.head \in Used /\ d.sub \in Used
    BY UsedFacts DEF IInv
  <2>2. f[d.head] >= (IF d.negated THEN f[d.sub] + 1 ELSE f[d.sub])
    BY UsedFacts DEF Least, Stratifies, IInv
  <2>3. d.sub \notin W /\ d.head \in W => f[d.head] # IF d.negated THEN f[d.sub] + 1 ELSE f[d.sub]
    BY <2>1 DEF Decides
  <2>4. f[d.head] \in Nat /\ f[d.sub] \in Nat
    BY <2>1, SettledFacts
  <2> HIDE DEF d, W
  <2>5. g[d.head] >= (IF d.negated THEN g[d.sub] + 1 ELSE g[d.sub])
    <3>1. /\ g[d.head] = IF d.head \in W THEN f[d.head] - 1 ELSE f[d.head]
          /\ g[d.sub] = IF d.sub \in W THEN f[d.sub] - 1 ELSE f[d.sub]
      BY <1>4, <2>1
    <3>2. CASE d.negated
      <4>1. /\ f[d.head] >= f[d.sub] + 1
            /\ d.sub \notin W /\ d.head \in W => f[d.head] # f[d.sub] + 1
        BY <2>2, <2>3, <3>2
      <4>2. g[d.head] >= g[d.sub] + 1
        <5>1. PICK a, b : a = f[d.head] /\ b = f[d.sub] /\ a \in Nat /\ b \in Nat
          BY <2>4
        <5>2. CASE d.sub \in W
          BY <3>1, <4>1, <5>1, <5>2
        <5>3. CASE d.sub \notin W /\ d.head \in W
          BY <3>1, <4>1, <5>1, <5>3
        <5>4. CASE d.sub \notin W /\ d.head \notin W
          BY <3>1, <4>1, <5>1, <5>4
        <5> QED  BY <5>2, <5>3, <5>4
      <4> QED  BY <3>2, <4>2
    <3>3. CASE ~ d.negated
      BY <2>2, <2>3, <2>4, <3>1, <3>3
    <3> QED  BY <3>2, <3>3
  <2> QED  BY <2>5 DEF d
<1>7. f[w] <= g[w]
  BY <1>2, <1>5, <1>6 DEF Least
<1> QED  BY <1>2, <1>4, <1>7, SettledFacts

\* A step of a pass, for the lowest stratification f: Raise or Keep.
LEMMA LookSettles ==
    ASSUME IInv, Settling, Raise \/ Keep, NEW f, Least(f), Least(f)'
    PROVE  /\ Cardinality(Settled(f)') >= iter
           /\ \/ Cardinality(Settled(f)') > iter
              \/ Settled(f)' = Used
              \/ \A i \in 1..next :
                    program[i].sub \in Settled(f)' /\ Decides(f, program[i])
                        => program[i].head \in Settled(f)'
           /\ changed' => iter < Cardinality(Used)
<1> DEFINE d == program[next]
<1>1. /\ next \in 1..Len(program) /\ d.head \in Preds /\ d.sub \in Preds
      /\ d.head \in Used /\ d.sub \in Used /\ d.negated \in BOOLEAN /\ Needed(d) \in Nat
  <2>1. next \in 1..Len(program)
    BY UsedFacts DEF IInv, TypeOK, Raise, Keep
  <2> QED  BY <2>1, UsedFacts, DependencyType DEF IInv
<1>2. program' = program /\ Used' = Used /\ next' = next + 1 /\ iter' = iter
  BY DEF Raise, Keep, Used
<1>3. /\ stratum' \in [Preds -> Nat]
      /\ \A q \in Preds :
            stratum'[q] \in Nat /\ stratum[q] <= stratum'[q] /\ stratum'[q] <= f[q]
  <2>1. IInv'
    BY RaiseKeepsIInv, KeepKeepsIInv
  <2>2. stratum' \in [Preds -> Nat] /\ \A q \in Preds : stratum'[q] <= f[q]
    BY <2>1 DEF IInv, TypeOK, Lowest, Least
  <2>3. \A q \in Preds : stratum[q] <= stratum'[q]
    <3>1. CASE Raise
      <4>1. stratum' = [stratum EXCEPT ![d.head] = Needed(d)] /\ stratum[d.head] < Needed(d)
        BY <3>1 DEF Raise
      <4> HIDE DEF d
      <4> QED  BY <1>1, <4>1 DEF IInv, TypeOK
    <3>2. CASE Keep
      BY <3>2 DEF Keep, IInv, TypeOK
    <3> QED  BY <3>1, <3>2
  <2> QED  BY <2>2, <2>3
<1>4. Settled(f)' = {q \in Used : stratum'[q] = f[q]}
  BY <1>2 DEF Settled
<1>5. Settled(f) \subseteq Settled(f)'
  <2> SUFFICES ASSUME NEW q \in Settled(f) PROVE q \in Settled(f)'
    OBVIOUS
  <2>1. q \in Used /\ q \in Preds /\ stratum[q] = f[q]
    BY UsedFacts DEF Settled, IInv
  <2>2. stratum'[q] = f[q]
    BY <1>3, <2>1, SettledFacts
  <2> QED  BY <1>4, <2>1, <2>2
<1>6. /\ Settled(f)' \in SUBSET Used /\ IsFiniteSet(Settled(f)')
      /\ Cardinality(Settled(f)') \in Nat
      /\ Cardinality(Settled(f)) <= Cardinality(Settled(f)')
      /\ Cardinality(Settled(f)) = Cardinality(Settled(f)') => Settled(f)' = Settled(f)
      /\ Cardinality(Settled(f)) \in Nat
  <2>1. Settled(f)' \in SUBSET Used
    BY <1>4
  <2>2. IsFiniteSet(Settled(f)')
    BY <2>1, UsedFacts, FS_Subset DEF IInv
  <2> QED  BY <1>5, <2>1, <2>2, FS_Subset, FS_CardinalityType, SettledFacts
<1>7. iter \in Nat /\ Cardinality(Settled(f)) >= iter
  BY DEF Settling, IInv, TypeOK, Least
<1>8. Cardinality(Settled(f)') >= iter
  BY <1>6, <1>7
<1>9. stratum'[d.head] >= Needed(d)
  <2>1. CASE Raise
    <3>1. stratum' = [stratum EXCEPT ![d.head] = Needed(d)]
      BY <2>1 DEF Raise
    <3> HIDE DEF d
    <3> QED  BY <1>1, <3>1 DEF IInv, TypeOK
  <2>2. CASE Keep
    BY <2>2 DEF Keep
  <2> QED  BY <2>1, <2>2
<1>10. d.sub \in Settled(f) /\ Decides(f, d) => d.head \in Settled(f)'
  <2> SUFFICES ASSUME d.sub \in Settled(f), Decides(f, d) PROVE d.head \in Settled(f)'
    OBVIOUS
  <2> HIDE DEF d
  <2>1. stratum[d.sub] = f[d.sub]
    BY DEF Settled
  <2>2. Needed(d) = f[d.head]
    BY <2>1 DEF Needed, Decides
  <2>3. stratum'[d.head] = f[d.head]
    BY <1>1, <1>3, <1>9, <2>2, SettledFacts
  <2> QED  BY <1>1, <1>4, <2>3
<1>11. ASSUME Cardinality(Settled(f)') <= iter, Settled(f)' # Used,
              NEW i \in 1..next, program[i].sub \in Settled(f)', Decides(f, program[i])
       PROVE  program[i].head \in Settled(f)'
  <2>1. Cardinality(Settled(f)) = Cardinality(Settled(f)') /\ ~ (Cardinality(Settled(f)) > iter)
    BY <1>6, <1>7, <1>11
  <2>2. Settled(f)' = Settled(f)
    BY <1>6, <2>1
  <2>3. CASE i = next
    BY <1>10, <1>11, <2>2, <2>3
  <2>4. CASE i # next
    <3>1. i \in 1..(next - 1)
      BY <1>1, <1>11, <2>4, UsedFacts DEF IInv
    <3> QED  BY <1>11, <2>1, <2>2, <3>1 DEF Settling, Least
  <2> QED  BY <2>3, <2>4
<1>12. changed' => iter < Cardinality(Used)
  <2>1. CASE Keep
    BY <2>1 DEF Keep, Settling, Least
  <2>2. CASE Raise
    <3> SUFFICES ASSUME ~ (iter < Cardinality(Used)) PROVE FALSE
      OBVIOUS
    <3>1. Settled(f) = Used
      BY <1>7, UsedFacts, SettledFacts DEF IInv
    <3>2. stratum[d.head] = f[d.head]
      BY <1>1, <3>1 DEF Settled
    <3>3. stratum[d.head] < Needed(d)
      BY <2>2 DEF Raise
    <3> HIDE DEF d
    <3> QED  BY <1>1, <1>3, <1>9, <3>2, <3>3, SettledFacts
  <2> QED  BY <2>1, <2>2
<1> QED  BY <1>6, <1>7, <1>8, <1>11, <1>12

\* At the end of a pass.
LEMMA PassSettles ==
    ASSUME IInv, Settling, next = Len(program) + 1, NEW f, Least(f)
    PROVE  /\ iter \in Nat
           /\ Cardinality(Settled(f)) > iter \/ Settled(f) = Used
           /\ changed => iter < Cardinality(Used)
<1>1. next - 1 = Len(program) /\ iter \in Nat
  BY UsedFacts DEF IInv, TypeOK
<1> QED  BY <1>1, SomeDecides DEF Settling, Least

LEMMA NextSettling ==
    ASSUME IInv, Settling, [Next]_vars
    PROVE  Settling'
<1>0. program' = program /\ Used' = Used
  BY DEF Next, vars, Raise, Keep, Again, Accept, Refuse, Used
<1>1. ASSUME NEW f PROVE Least(f)' <=> Least(f)
  BY <1>0 DEF Least, Stratifies
<1> SUFFICES ASSUME NEW f \in [Preds -> 0..MaxStratum], Least(f), Least(f)'
             PROVE  /\ Cardinality(Settled(f)') >= iter'
                    /\ \/ Cardinality(Settled(f)') > iter'
                       \/ Settled(f)' = Used'
                       \/ \A i \in 1..(next' - 1) :
                             program[i].sub \in Settled(f)' /\ Decides(f, program[i])
                                 => program[i].head \in Settled(f)'
                    /\ changed' => iter' < Cardinality(Used)
                    /\ answer' # "NULL"
  BY <1>0, <1>1 DEF Settling, Decides
<1>2. /\ Cardinality(Settled(f)) >= iter
      /\ \/ Cardinality(Settled(f)) > iter
         \/ Settled(f) = Used
         \/ \A i \in 1..(next - 1) :
               program[i].sub \in Settled(f) /\ Decides(f, program[i])
                   => program[i].head \in Settled(f)
      /\ changed => iter < Cardinality(Used)
      /\ answer # "NULL"
  BY DEF Settling
<1>3. CASE Raise \/ Keep
  <2>1. next' - 1 = next /\ iter' = iter /\ answer' = "none"
    BY <1>3 DEF Raise, Keep, IInv, TypeOK
  <2> QED  BY <1>0, <1>3, <2>1, LookSettles
<1>4. CASE Again
  <2>1. /\ Settled(f)' = Settled(f) /\ iter' = iter + 1 /\ next' = 1 /\ ~ changed' /\ answer' = "none"
        /\ iter < Cardinality(Used) /\ next = Len(program) + 1
    BY <1>0, <1>4 DEF Again, Settled
  <2>2. iter \in Nat /\ (Cardinality(Settled(f)) > iter \/ Settled(f) = Used)
    BY <2>1, PassSettles
  <2>3. Cardinality(Settled(f)) >= iter + 1
    BY <2>1, <2>2, SettledFacts, UsedFacts DEF IInv
  <2>4. 1..(next' - 1) = {}
    BY <2>1
  <2> QED  BY <2>1, <2>3, <2>4
<1>5. CASE Accept \/ UNCHANGED vars
  <2>1. /\ Settled(f)' = Settled(f) /\ iter' = iter /\ next' = next /\ changed' = changed
        /\ answer' \in {"strata", answer}
    BY <1>0, <1>5 DEF Accept, vars, Settled
  <2> QED  BY <1>0, <1>2, <2>1
<1>6. CASE Refuse
  <2>1. next = Len(program) + 1 /\ changed /\ iter = Cardinality(Used)
    BY <1>6 DEF Refuse
  <2> QED  BY <1>2, <2>1, UsedFacts DEF IInv
<1> QED  BY <1>3, <1>4, <1>5, <1>6 DEF Next

\* "If stratum values change in the last iteration, it means there is a cycle with
\* negation" (rule.c:682): pred_count + 1 passes are enough for every program, so
\* that datalog_program_stratify refuses none that has a stratification.
THEOREM RefusedRightlyHolds == Spec => []RefusedRightly
<1>1. Init => Settling
  <2> SUFFICES ASSUME Init, NEW f \in [Preds -> 0..MaxStratum], Least(f)
               PROVE  /\ Cardinality(Settled(f)) >= iter
                      /\ 1..(next - 1) = {} /\ ~ changed /\ answer # "NULL"
    BY DEF Settling
  <2> QED  BY InitIInv, SettledFacts DEF Init
<1>2. IInv /\ Settling /\ [Next]_vars => Settling'
  BY NextSettling
<1>3. IInv /\ Settling => RefusedRightly
  <2> SUFFICES ASSUME IInv, Settling, answer = "NULL",
                      NEW f \in [Preds -> 0..MaxStratum], Stratifies(f, program)
               PROVE  FALSE
    BY DEF RefusedRightly
  <2>1. PICK g : Least(g)
    BY LeastExists DEF IInv
  <2> QED  BY <2>1 DEF Settling, Least
<1> QED  BY <1>1, <1>2, <1>3, IInvHolds, PTL DEF Spec
-----------------------------------------------------------------------------
(* Magic sets: what a program of safe rules becomes is safe *)

Adornments == {"bb", "bf", "fb", "ff"}

Adorned == [name : Predicates, adornment : Adornments]

Rules == [head : Atoms, body : Seq(Atoms)]

\* The terms, names, atoms and safe rules of a rewritten program.
Terms == Var \union Values \union {TrueValue}

NewNames == {"", "magic_"} \X Predicates \X (Adornments \union {""})

NewAtoms == [s : Terms, p : NewNames, o : Terms, negated : BOOLEAN]

SafeRules == {rule \in [head : NewAtoms, body : Seq(NewAtoms)] : datalog_rule_validate(rule)}

\* What the loop keeps.
MagicInv ==
    /\ input \in Inputs
    /\ queue \in Seq(Adorned)
    /\ processed \in Nat
    /\ r \in Nat \ {0}
    /\ magic_prog \in Seq(SafeRules)

\* The adornment of a subgoal is one of the four.
LEMMA AdornmentType == ASSUME NEW s \in BOOLEAN, NEW o \in BOOLEAN PROVE Adornment(s, o) \in Adornments
  BY DEF Adornment, Adornments

\* A magic fact is positive, and has the variables that the caller gives.
LEMMA MagicFact ==
    ASSUME NEW name \in Predicates, NEW adornment \in Adornments \ {"ff"},
           NEW s \in Var \union Values, NEW o \in Var \union Values
    PROVE  LET m == make_magic_fact(name, adornment, s, o)
               given == (IF SubjectBound(adornment) THEN {s} ELSE {})
                            \union (IF ObjectBound(adornment) THEN {o} ELSE {})
           IN  m \in NewAtoms /\ ~m.negated /\ VarsOf(m) = given \intersect Var
<1> DEFINE p == format_name("magic_", name, adornment)
           m == make_magic_fact(name, adornment, s, o)
<1>1. p \in NewNames
  BY Zenon DEF NewNames, format_name
<1>2. TrueValue \notin Var
  BY MagicAssumption DEF WellFormed
<1>3. m = CASE adornment = "bf" -> Atom(s, p, TrueValue, FALSE)
            [] adornment = "fb" -> Atom(o, p, TrueValue, FALSE)
            [] adornment = "bb" -> Atom(s, p, o, FALSE)
  BY Zenon DEF make_magic_fact
<1> HIDE DEF p, m
<1>4. CASE adornment = "bf"
  <2>1. m = [s |-> s, p |-> p, o |-> TrueValue, negated |-> FALSE]
    BY <1>3, <1>4 DEF Atom
  <2>2. m \in NewAtoms /\ ~m.negated /\ VarsOf(m) = {s} \intersect Var
    BY <1>1, <1>2, <2>1 DEF NewAtoms, Terms, VarsOf
  <2> QED  BY <1>4, <2>2 DEF SubjectBound, ObjectBound, m
<1>5. CASE adornment = "fb"
  <2>1. m = [s |-> o, p |-> p, o |-> TrueValue, negated |-> FALSE]
    BY <1>3, <1>5 DEF Atom
  <2>2. m \in NewAtoms /\ ~m.negated /\ VarsOf(m) = {o} \intersect Var
    BY <1>1, <1>2, <2>1 DEF NewAtoms, Terms, VarsOf
  <2> QED  BY <1>5, <2>2 DEF SubjectBound, ObjectBound, m
<1>6. CASE adornment = "bb"
  <2>1. m = [s |-> s, p |-> p, o |-> o, negated |-> FALSE]
    BY <1>3, <1>6 DEF Atom
  <2>2. m \in NewAtoms /\ ~m.negated /\ VarsOf(m) = {s, o} \intersect Var
    BY <1>1, <2>1 DEF NewAtoms, Terms, VarsOf
  <2> QED  BY <1>6, <2>2 DEF SubjectBound, ObjectBound, m
<1> QED  BY <1>4, <1>5, <1>6 DEF Adornments

\* A rule's first n subgoals and its support: they bind what the caller gives and
\* what the positive ones among those subgoals bind, and the negated ones are
\* those of the rule.
LEMMA PrefixFacts ==
    ASSUME NEW rule \in Rules, NEW current \in Adorned, NEW n \in 0..Len(rule.body)
    PROVE  LET body == Prefix(rule, current, n)
           IN  /\ body \in Seq(NewAtoms)
               /\ GivenVars(rule, current.adornment) \union PositiveVars(rule, 1..n)
                    \subseteq UNION {VarsOf(body[k]) : k \in {i \in DOMAIN body : ~body[i].negated}}
               /\ \A k \in DOMAIN body : body[k].negated =>
                    \E i \in 1..n : rule.body[i].negated /\ VarsOf(body[k]) = VarsOf(rule.body[i])
<1> DEFINE support == MagicSupport(rule, current)
           body == Prefix(rule, current, n)
           rest == [k \in 1..n |-> make_adorned_subgoal(rule, current.adornment, k)]
           positive == {i \in DOMAIN body : ~body[i].negated}
           bound == UNION {VarsOf(body[k]) : k \in positive}
<1>1. /\ rule.body \in Seq(Atoms) /\ rule.head \in Atoms /\ Len(rule.body) \in Nat
      /\ current.name \in Predicates /\ current.adornment \in Adornments
  BY DEF Rules, Adorned
<1>2. \A k \in 1..n : /\ k \in DOMAIN rule.body /\ rule.body[k] \in Atoms
                      /\ rule.body[k].p \in Predicates
                      /\ rule.body[k].s \in Var \union Values /\ rule.body[k].o \in Var \union Values
                      /\ rule.body[k].negated \in BOOLEAN
  <2>1. \A k \in 1..n : k \in DOMAIN rule.body /\ rule.body[k] \in Atoms
    BY <1>1
  <2>2. \A a \in Atoms : /\ a.p \in Predicates /\ a.s \in Var \union Values /\ a.o \in Var \union Values
                           /\ a.negated \in BOOLEAN
    BY Zenon DEF Atoms
  <2> QED  BY <2>1, <2>2, Zenon
<1>3. ASSUME NEW k \in 1..n
      PROVE  /\ rest[k] \in NewAtoms
             /\ rest[k].negated = rule.body[k].negated
             /\ VarsOf(rest[k]) = VarsOf(rule.body[k])
  <2> DEFINE a == rule.body[k]
             name == IF is_idb_predicate(a.p)
                     THEN format_name("", a.p, SubAdornment(rule, current.adornment, k)) ELSE Plain(a.p)
  <2>1. rest[k] = [s |-> a.s, p |-> name, o |-> a.o, negated |-> a.negated]
    BY DEF make_adorned_subgoal, Subgoal, Atom
  <2>2. SubAdornment(rule, current.adornment, k) \in Adornments
    BY AdornmentType DEF SubAdornment
  <2>3. name \in NewNames
    BY <1>2, <2>2, Zenon DEF NewNames, format_name, Plain
  <2>4. a.s \in Terms /\ a.o \in Terms /\ a.negated \in BOOLEAN
    BY <1>2 DEF Terms
  <2> HIDE DEF name, a, rest
  <2>5. rest[k] \in NewAtoms
    BY <2>1, <2>3, <2>4 DEF NewAtoms
  <2>6. rest[k].negated = a.negated /\ VarsOf(rest[k]) = VarsOf(a)
    BY <2>1 DEF VarsOf
  <2> QED  BY <2>5, <2>6 DEF a
<1>4. rest \in Seq(NewAtoms) /\ Len(rest) = n
  <2>1. rest \in [1..n -> NewAtoms]
    BY <1>3
  <2> QED  BY <2>1
<1>5. body = support \o rest
  BY DEF Prefix
<1>6. CASE current.adornment = "ff"
  <2>1. support = <<>> /\ GivenVars(rule, current.adornment) = {}
    BY <1>6 DEF MagicSupport, GivenVars, SubjectBound, ObjectBound
  <2> HIDE DEF rest, support, body
  <2>2. body = rest /\ DOMAIN body = 1..n
    BY <1>4, <1>5, <2>1
  <2>3. \A k \in DOMAIN body : body[k].negated =>
             \E i \in 1..n : rule.body[i].negated /\ VarsOf(body[k]) = VarsOf(rule.body[i])
    BY <1>3, <2>2
  <2>4. \A k \in 1..n : ~rule.body[k].negated => k \in positive /\ VarsOf(rule.body[k]) = VarsOf(body[k])
    BY <1>3, <2>2
  <2>5. PositiveVars(rule, 1..n) \subseteq bound
    <3> HIDE DEF positive
    <3> QED  BY <2>4 DEF PositiveVars
  <2> QED  BY <1>4, <2>1, <2>2, <2>3, <2>5 DEF body
<1>7. CASE current.adornment # "ff"
  <2> DEFINE m == make_magic_fact(current.name, current.adornment, rule.head.s, rule.head.o)
  <2>1. support = <<m>>
    BY <1>7 DEF MagicSupport
  <2>2. m \in NewAtoms /\ ~m.negated /\ VarsOf(m) = GivenVars(rule, current.adornment)
    <3>1. rule.head.s \in Var \union Values /\ rule.head.o \in Var \union Values
      BY <1>1 DEF Atoms
    <3> QED  BY <1>1, <1>7, <3>1, MagicFact, Zenon DEF GivenVars
  <2> HIDE DEF m, rest, support, body
  <2>3. body \in Seq(NewAtoms) /\ Len(body) = n + 1 /\ body[1] = m /\ \A k \in 1..n : body[k + 1] = rest[k]
    BY <1>4, <1>5, <2>1, <2>2
  <2>4. DOMAIN body = 1..(n + 1) /\ 1 \in positive
    BY <2>2, <2>3
  <2>5. \A k \in DOMAIN body : body[k].negated =>
             \E i \in 1..n : rule.body[i].negated /\ VarsOf(body[k]) = VarsOf(rule.body[i])
    <3> SUFFICES ASSUME NEW k \in DOMAIN body, body[k].negated
                 PROVE  \E i \in 1..n : rule.body[i].negated /\ VarsOf(body[k]) = VarsOf(rule.body[i])
      OBVIOUS
    <3>1. k # 1
      BY <2>2, <2>3
    <3>2. k - 1 \in 1..n /\ body[k] = rest[k - 1]
      BY <2>3, <2>4, <3>1
    <3> QED  BY <1>3, <3>2
  <2>6. \A k \in 1..n : ~rule.body[k].negated => k + 1 \in positive /\ VarsOf(rule.body[k]) = VarsOf(body[k + 1])
    <3>1. \A k \in 1..n : k + 1 \in DOMAIN body
      BY <2>4
    <3> QED  BY <1>3, <2>3, <3>1, Zenon
  <2>7. PositiveVars(rule, 1..n) \subseteq bound
    <3> HIDE DEF positive
    <3> QED  BY <2>6 DEF PositiveVars
  <2>8. GivenVars(rule, current.adornment) \subseteq bound
    <3> HIDE DEF positive
    <3> QED  BY <2>2, <2>3, <2>4
  <2> QED  BY <2>3, <2>5, <2>7, <2>8 DEF body
<1> QED  BY <1>6, <1>7

LEMMA RulesType ==
    ASSUME input \in Inputs
    PROVE  input.rules \in Seq(Rules) /\ \A i \in DOMAIN input.rules : input.rules[i] \in Rules
<1>1. input.rules \in Seq(Rules)
  BY MagicAssumption DEF WellFormed, Rules
<1> QED  BY <1>1

\* The variables that have a value when subgoal j is reached are those that its
\* support and the positive subgoals before it bind.
LEMMA BoundIsPositive ==
    ASSUME input \in Inputs, NEW i \in DOMAIN input.rules, NEW adornment,
           NEW j \in 1..(Len(input.rules[i].body) + 1)
    PROVE  LET rule == input.rules[i]
           IN  BoundVars(rule, adornment, j)
                 \subseteq GivenVars(rule, adornment) \union PositiveVars(rule, 1..(j - 1))
<1> DEFINE rule == input.rules[i]
           positive == {k \in 1..(j - 1) : ~rule.body[k].negated}
           vars1 == PositiveVars(rule, 1..(j - 1))
<1>1. /\ rule \in Rules
      /\ \A k \in DOMAIN rule.body :
             rule.body[k].negated => VarsOf(rule.body[k]) \subseteq PositiveVars(rule, 1..(k - 1))
  <2>2. rule \in Rules
    BY RulesType
  <2> QED  BY MagicAssumption, <2>2, Zenon DEF WellFormed
<1> HIDE DEF rule
<1>2. rule.body \in Seq(Atoms) /\ Len(rule.body) \in Nat
  BY <1>1 DEF Rules
<1>3. \A k \in 1..(j - 1) : k \in DOMAIN rule.body /\ 1..(k - 1) \subseteq 1..(j - 1) /\ k \in Nat
  BY <1>2 DEF rule
<1>4. ASSUME NEW k \in 1..(j - 1) PROVE VarsOf(rule.body[k]) \subseteq vars1
  <2>1. CASE rule.body[k].negated
    <3>1. VarsOf(rule.body[k]) \subseteq PositiveVars(rule, 1..(k - 1))
      BY <1>1, <1>3, <2>1
    <3>2. 1..(k - 1) \subseteq 1..(j - 1)
      BY <1>3
    <3>3. PositiveVars(rule, 1..(k - 1)) \subseteq vars1
      BY <3>2, Zenon DEF PositiveVars
    <3> QED  BY <3>1, <3>3
  <2>2. CASE ~rule.body[k].negated
    BY <2>2, Zenon DEF PositiveVars
  <2> QED  BY <2>1, <2>2
<1> HIDE DEF vars1
<1>5. UNION {VarsOf(rule.body[k]) : k \in 1..(j - 1)} \subseteq vars1
  BY <1>4
<1> QED  BY <1>5 DEF BoundVars, vars1, rule

\* A rule whose head is bound and whose body is such a prefix is safe.
LEMMA SafeFromPrefix ==
    ASSUME input \in Inputs, NEW i \in DOMAIN input.rules, NEW current \in Adorned,
           NEW n \in 0..Len(input.rules[i].body), NEW head \in NewAtoms,
           VarsOf(head) \subseteq GivenVars(input.rules[i], current.adornment)
                                        \union PositiveVars(input.rules[i], 1..n)
    PROVE  [head |-> head, body |-> Prefix(input.rules[i], current, n)] \in SafeRules
<1> DEFINE rule == input.rules[i]
           body == Prefix(rule, current, n)
           new == [head |-> head, body |-> body]
           bound == UNION {VarsOf(body[k]) : k \in {m \in DOMAIN body : ~body[m].negated}}
<1>1. /\ rule \in Rules
      /\ \A k \in DOMAIN rule.body :
             rule.body[k].negated => VarsOf(rule.body[k]) \subseteq PositiveVars(rule, 1..(k - 1))
  <2>2. rule \in Rules
    BY RulesType
  <2> QED  BY MagicAssumption, <2>2, Zenon DEF WellFormed
<1>2. /\ body \in Seq(NewAtoms)
      /\ GivenVars(rule, current.adornment) \union PositiveVars(rule, 1..n) \subseteq bound
      /\ \A k \in DOMAIN body : body[k].negated =>
             \E m \in 1..n : rule.body[m].negated /\ VarsOf(body[k]) = VarsOf(rule.body[m])
  BY <1>1, PrefixFacts
<1> HIDE DEF rule, body
<1>3. PositiveVars(new, DOMAIN new.body) = bound
  BY Zenon DEF PositiveVars
<1>4. VarsOf(new.head) \subseteq bound
  BY <1>2 DEF rule
<1>5. ASSUME NEW k \in DOMAIN body, body[k].negated PROVE VarsOf(body[k]) \subseteq bound
  <2>1. PICK m \in 1..n : rule.body[m].negated /\ VarsOf(body[k]) = VarsOf(rule.body[m])
    BY <1>2, <1>5
  <2>2. rule.body \in Seq(Atoms) /\ Len(rule.body) \in Nat
    BY <1>1 DEF Rules
  <2>3. m \in DOMAIN rule.body /\ 1..(m - 1) \subseteq 1..n
    BY <2>2 DEF rule
  <2>4. VarsOf(rule.body[m]) \subseteq PositiveVars(rule, 1..(m - 1))
    BY <1>1, <2>1, <2>3
  <2>5. PositiveVars(rule, 1..(m - 1)) \subseteq PositiveVars(rule, 1..n)
    BY <2>3, Zenon DEF PositiveVars
  <2> HIDE DEF bound
  <2> QED  BY <1>2, <2>1, <2>4, <2>5
<1> HIDE DEF bound
<1>6. datalog_rule_validate(new)
  BY <1>3, <1>4, <1>5 DEF datalog_rule_validate
<1>7. new \in [head : NewAtoms, body : Seq(NewAtoms)]
  BY <1>2
<1> QED  BY <1>6, <1>7 DEF SafeRules, rule, body

\* The magic rule of a subgoal and the rewritten rule are safe.
LEMMA MagicRuleSafe ==
    ASSUME input \in Inputs, NEW i \in DOMAIN input.rules, NEW current \in Adorned,
           NEW j \in 1..Len(input.rules[i].body),
           SubAdornment(input.rules[i], current.adornment, j) # "ff"
    PROVE  MagicRule(input.rules[i], current, j) \in SafeRules
<1> DEFINE rule == input.rules[i]
           a == rule.body[j]
           adornment == SubAdornment(rule, current.adornment, j)
           head == make_magic_fact(a.p, adornment, a.s, a.o)
           bound == BoundVars(rule, current.adornment, j)
<1>1. rule \in Rules
  BY RulesType
<1>2. rule.body \in Seq(Atoms) /\ Len(rule.body) \in Nat /\ a \in Atoms
  BY <1>1 DEF Rules
<1>3. a.p \in Predicates /\ a.s \in Var \union Values /\ a.o \in Var \union Values
  BY <1>2, Zenon DEF Atoms
<1>4. adornment \in Adornments \ {"ff"}
  BY AdornmentType DEF SubAdornment
<1>5. adornment = Adornment(a.s \notin Var \/ a.s \in bound, a.o \notin Var \/ a.o \in bound)
  BY DEF SubAdornment
<1>6. SubjectBound(adornment) => a.s \notin Var \/ a.s \in bound
  BY <1>5 DEF Adornment, SubjectBound
<1>7. ObjectBound(adornment) => a.o \notin Var \/ a.o \in bound
  BY <1>5 DEF Adornment, ObjectBound
<1>8. head \in NewAtoms
      /\ VarsOf(head) = ((IF SubjectBound(adornment) THEN {a.s} ELSE {})
                             \union (IF ObjectBound(adornment) THEN {a.o} ELSE {})) \intersect Var
  BY <1>3, <1>4, MagicFact
<1> HIDE DEF adornment, head, bound
<1>9. VarsOf(head) \subseteq bound
  BY <1>6, <1>7, <1>8
<1>10. bound \subseteq GivenVars(rule, current.adornment) \union PositiveVars(rule, 1..(j - 1))
  <2>1. j \in 1..(Len(rule.body) + 1)
    BY <1>2
  <2> QED  BY <2>1, BoundIsPositive DEF bound
<1>11. j - 1 \in 0..Len(rule.body)
  BY <1>2
<1>12. [head |-> head, body |-> Prefix(rule, current, j - 1)] \in SafeRules
  BY <1>8, <1>9, <1>10, <1>11, SafeFromPrefix
<1> QED  BY <1>12, Zenon DEF MagicRule, head, adornment

LEMMA RewrittenRuleSafe ==
    ASSUME input \in Inputs, NEW i \in DOMAIN input.rules, NEW current \in Adorned
    PROVE  RewrittenRule(input.rules[i], current) \in SafeRules
<1> DEFINE rule == input.rules[i]
           name == format_name("", current.name, current.adornment)
           head == [s |-> rule.head.s, p |-> name, o |-> rule.head.o, negated |-> rule.head.negated]
<1>1. rule \in Rules /\ VarsOf(rule.head) \subseteq PositiveVars(rule, DOMAIN rule.body)
  <2>2. rule \in Rules
    BY RulesType
  <2>3. datalog_rule_validate(rule)
    BY MagicAssumption, Zenon DEF WellFormed
  <2> QED  BY <2>2, <2>3 DEF datalog_rule_validate
<1>2. rule.body \in Seq(Atoms) /\ Len(rule.body) \in Nat /\ DOMAIN rule.body = 1..Len(rule.body) /\ rule.head \in Atoms
  BY <1>1 DEF Rules
<1>3. rule.head.s \in Terms /\ rule.head.o \in Terms /\ rule.head.negated \in BOOLEAN
  BY <1>2, Zenon DEF Atoms, Terms
<1>4. current.name \in Predicates /\ current.adornment \in Adornments
  BY DEF Adorned
<1>5. name \in NewNames
  BY <1>4, Zenon DEF format_name, NewNames
<1> HIDE DEF rule, name
<1>6. head \in NewAtoms
  BY <1>3, <1>5 DEF NewAtoms
<1>7. VarsOf(head) = VarsOf(rule.head)
  BY DEF VarsOf
<1>8. Len(rule.body) \in 0..Len(rule.body)
  BY <1>2
<1> HIDE DEF head
<1>9. VarsOf(head) \subseteq GivenVars(rule, current.adornment) \union PositiveVars(rule, 1..Len(rule.body))
  BY <1>1, <1>2, <1>7
<1>10. [head |-> head, body |-> Prefix(rule, current, Len(rule.body))] \in SafeRules
  BY <1>6, <1>8, <1>9, SafeFromPrefix DEF rule
<1> QED  BY <1>10, Zenon DEF RewrittenRule, Subgoal, Atom, head, name, rule

\* What one subgoal adds.
LEMMA AskKeeps ==
    ASSUME input \in Inputs, NEW i \in DOMAIN input.rules, NEW current \in Adorned,
           NEW j \in 1..Len(input.rules[i].body), NEW at \in [queue : Seq(Adorned), program : Seq(SafeRules)]
    PROVE  Ask(at, input.rules[i], current, j) \in [queue : Seq(Adorned), program : Seq(SafeRules)]
<1> DEFINE rule == input.rules[i]
           a == rule.body[j]
           adornment == SubAdornment(rule, current.adornment, j)
           new == MagicRule(rule, current, j)
           entry == [name |-> a.p, adornment |-> adornment]
           q == enqueue_adorned(at.queue, a.p, adornment)
           prog == IF adornment = "ff" THEN at.program ELSE Append(at.program, new)
<1>1. rule \in Rules
  BY RulesType
<1>2. rule.body \in Seq(Atoms) /\ Len(rule.body) \in Nat /\ a \in Atoms
  BY <1>1 DEF Rules
<1>3. a.p \in Predicates
  BY <1>2, Zenon DEF Atoms
<1>4. adornment \in Adornments
  BY AdornmentType DEF SubAdornment
<1>5. entry \in Adorned
  BY <1>3, <1>4, Zenon DEF Adorned
<1>6. q = at.queue \/ q = Append(at.queue, entry)
  BY Zenon DEF enqueue_adorned
<1>7. adornment # "ff" => new \in SafeRules
  BY MagicRuleSafe
<1>8. Ask(at, rule, current, j) = IF ~is_idb_predicate(a.p) THEN at ELSE [queue |-> q, program |-> prog]
  BY Zenon DEF Ask
<1> HIDE DEF rule, a, adornment, new, entry, q
<1>9. q \in Seq(Adorned) /\ prog \in Seq(SafeRules)
  BY <1>5, <1>6, <1>7
<1> HIDE DEF prog
<1> QED  BY <1>8, <1>9 DEF rule

\* The loops over the body of a rule, one subgoal after the other.
LEMMA TransformRun ==
    ASSUME MagicInv, NEW i \in DOMAIN input.rules, NEW current
    PROVE  LET rule == input.rules[i]
               N == Len(rule.body)
           IN  \E f : /\ f[0] = [queue |-> queue, program |-> magic_prog]
                      /\ \A k \in 1..N : f[k] = Ask(f[k - 1], rule, current, k)
                      /\ transform_rule(rule, current) =
                            [queue |-> f[N].queue, program |-> Append(f[N].program, RewrittenRule(rule, current))]
<1> DEFINE rule == input.rules[i]
           N == Len(rule.body)
           base == [queue |-> queue, program |-> magic_prog]
           Run(g, n) == g = [k \in 0..n |-> IF k = 0 THEN base ELSE Ask(g[k - 1], rule, current, k)]
           f == CHOOSE g : Run(g, N)
<1>1. rule \in Rules
  BY RulesType DEF MagicInv
<1>2. N \in Nat
  BY <1>1 DEF Rules
<1>4. ASSUME NEW n \in Nat PROVE \E g : Run(g, n)
  <2> SUFFICES ASSUME ~ \E g : Run(g, n) PROVE FALSE
    OBVIOUS
  <2> HIDE DEF base, rule, N
  <2> DEFINE T == {m \in Nat : ~ \E g : Run(g, m)}
  <2>1. PICK m \in T : \A y \in T : m <= y
    BY LeastNatural
  <2>2. Run([k \in 0..0 |-> base], 0)
    OBVIOUS
  <2>3. m # 0 /\ m \in Nat
    BY <2>2
  <2>4. m - 1 \in Nat /\ m - 1 \notin T
    <3> HIDE DEF T
    <3> QED  BY <2>1, <2>3
  <2>5. PICK g : Run(g, m - 1)
    BY <2>4
  <2> DEFINE h == [k \in 0..m |-> IF k = 0 THEN base ELSE Ask(g[k - 1], rule, current, k)]
  <2>6. \A k \in 0..(m - 1) : g[k] = IF k = 0 THEN base ELSE Ask(g[k - 1], rule, current, k)
    BY <2>5, <2>4
  <2>7. \A k \in 0..m : h[k] = IF k = 0 THEN base ELSE Ask(g[k - 1], rule, current, k)
    OBVIOUS
  <2>8. \A k \in 0..m : k # 0 => h[k - 1] = g[k - 1]
    <3> SUFFICES ASSUME NEW k \in 0..m, k # 0 PROVE h[k - 1] = g[k - 1]
      OBVIOUS
    <3>1. k - 1 \in 0..(m - 1) /\ k - 1 \in 0..m
      BY <2>3
    <3> HIDE DEF h
    <3> QED  BY <2>6, <2>7, <3>1
  <2>9. h = [k \in 0..m |-> IF k = 0 THEN base ELSE Ask(h[k - 1], rule, current, k)]
    BY <2>8
  <2> QED  BY <2>1, <2>9
<1>5. Run(f, N)
  BY <1>2, <1>4
<1>6. transform_rule(rule, current) =
        [queue |-> f[N].queue, program |-> Append(f[N].program, RewrittenRule(rule, current))]
  BY Zenon DEF transform_rule
<1> HIDE DEF f, base, rule, N
<1>7. \A k \in 0..N : f[k] = IF k = 0 THEN base ELSE Ask(f[k - 1], rule, current, k)
  BY <1>5
<1>8. f[0] = base /\ \A k \in 1..N : f[k] = Ask(f[k - 1], rule, current, k)
  <2>1. 0 \in 0..N /\ \A k \in 1..N : k \in 0..N /\ k # 0
    BY <1>2
  <2> QED  BY <1>7, <2>1
<1> QED  BY <1>6, <1>8 DEF base, rule, N

\* What one rule adds: the loops over its body keep what they build.
LEMMA TransformKeeps ==
    ASSUME MagicInv, NEW i \in DOMAIN input.rules, NEW current \in Adorned
    PROVE  LET done == transform_rule(input.rules[i], current)
           IN  done.queue \in Seq(Adorned) /\ done.program \in Seq(SafeRules)
<1> DEFINE rule == input.rules[i]
           N == Len(rule.body)
           S == [queue : Seq(Adorned), program : Seq(SafeRules)]
           base == [queue |-> queue, program |-> magic_prog]
<1>1. rule \in Rules /\ input \in Inputs
  BY RulesType DEF MagicInv
<1>2. N \in Nat
  BY <1>1 DEF Rules
<1>3. base \in S
  BY DEF MagicInv
<1>4. PICK f : /\ f[0] = base
               /\ \A k \in 1..N : f[k] = Ask(f[k - 1], rule, current, k)
               /\ transform_rule(rule, current) =
                     [queue |-> f[N].queue, program |-> Append(f[N].program, RewrittenRule(rule, current))]
  BY TransformRun
<1> HIDE DEF base, rule, N, S
<1>8. ASSUME NEW k \in 1..N, f[k - 1] \in S PROVE f[k] \in S
  <2>2. f[k] = Ask(f[k - 1], rule, current, k)
    BY <1>4
  <2> QED  BY <1>1, <1>8, <2>2, AskKeeps DEF rule, S, N
<1>9. ASSUME NEW k \in 0..N PROVE f[k] \in S
  <2> DEFINE T == {m \in 0..N : f[m] \notin S}
  <2> SUFFICES ASSUME T # {} PROVE FALSE
    OBVIOUS
  <2>1. PICK m \in T : \A y \in T : m <= y
    <3>1. T \subseteq Nat
      BY <1>2
    <3> QED  BY <3>1, LeastNatural
  <2>2. m # 0
    BY <1>2, <1>3, <1>4
  <2>3. m \in 1..N /\ m - 1 \in 0..N /\ m - 1 \notin T
    <3>1. m \in 0..N
      OBVIOUS
    <3> HIDE DEF T
    <3> QED  BY <1>2, <2>1, <2>2, <3>1
  <2>4. f[m - 1] \in S
    BY <2>3
  <2> QED  BY <1>8, <2>3, <2>4
<1>10. f[N].queue \in Seq(Adorned) /\ f[N].program \in Seq(SafeRules)
  <2>1. f[N] \in S
    BY <1>2, <1>9
  <2> QED  BY <2>1 DEF S
<1>11. RewrittenRule(rule, current) \in SafeRules
  BY <1>1, RewrittenRuleSafe DEF rule
<1>12. Append(f[N].program, RewrittenRule(rule, current)) \in Seq(SafeRules)
  BY <1>10, <1>11
<1> QED  BY <1>4, <1>10, <1>12 DEF rule

LEMMA MagicInitInv == MagicInit => MagicInv
<1> SUFFICES ASSUME MagicInit PROVE MagicInv
  OBVIOUS
<1> DEFINE adornment == Adornment(input.goal.s \notin Var, input.goal.o \notin Var)
           entry == [name |-> input.goal.p, adornment |-> adornment]
<1>1. input \in Inputs /\ input.goal \in Atoms
  BY MagicAssumption DEF MagicInit, WellFormed
<1>2. input.goal.p \in Predicates
  BY <1>1, Zenon DEF Atoms
<1>3. adornment \in Adornments
  BY AdornmentType
<1>4. entry \in Adorned
  BY <1>2, <1>3, Zenon DEF Adorned
<1>5. queue = <<>> \/ queue = Append(<<>>, entry)
  BY Zenon DEF MagicInit, enqueue_adorned
<1> HIDE DEF entry
<1>6. queue \in Seq(Adorned)
  <2>1. <<>> \in Seq(Adorned)
    OBVIOUS
  <2>2. Append(<<>>, entry) \in Seq(Adorned)
    BY <1>4, <2>1
  <2> QED  BY <1>5, <2>1, <2>2
<1>7. processed = 0 /\ r = 1 /\ magic_prog = <<>>
  BY DEF MagicInit
<1> QED  BY <1>1, <1>6, <1>7 DEF MagicInv

LEMMA MagicNextInv == MagicInv /\ [MagicNext]_magicVars => MagicInv'
<1> SUFFICES ASSUME MagicInv, [MagicNext]_magicVars PROVE MagicInv'
  OBVIOUS
<1> USE DEF MagicInv
<1>1. CASE TransformRule
  <2> DEFINE done == transform_rule(input.rules[r], current_pred)
  <2>1. queue' = done.queue /\ magic_prog' = done.program /\ r' = r + 1 /\ processed' = processed /\ input' = input
    BY <1>1 DEF TransformRule
  <2>2. current_pred \in Adorned
    <3>1. processed < Len(queue) /\ Len(queue) \in Nat
      BY <1>1 DEF TransformRule, Running
    <3> QED  BY <3>1 DEF current_pred
  <2>3. r \in DOMAIN input.rules
    <3>1. input.rules \in Seq(Rules)
      BY RulesType
    <3>2. r <= Len(input.rules)
      BY <1>1 DEF TransformRule
    <3> QED  BY <3>1, <3>2
  <2>4. done.queue \in Seq(Adorned) /\ done.program \in Seq(SafeRules)
    BY <2>2, <2>3, TransformKeeps
  <2> HIDE DEF done
  <2> QED  BY <2>1, <2>4
<1>2. CASE SkipRule
  BY <1>2 DEF SkipRule
<1>3. CASE NextPredicate
  BY <1>3 DEF NextPredicate
<1>4. CASE Fails
  BY <1>4 DEF Fails
<1>5. CASE Returns
  BY <1>5 DEF Returns
<1>6. CASE UNCHANGED magicVars
  BY <1>6 DEF magicVars
<1> QED  BY <1>1, <1>2, <1>3, <1>4, <1>5, <1>6 DEF MagicNext, Step

\* Every rule that datalog_program_magic_transform adds is safe, for every
\* program of safe rules in which a negated subgoal comes after the positive ones
\* that bind its variables: a magic rule ends at a subgoal in the middle of the
\* body, and its head holds only what the support and the positive subgoals
\* before that one bind.
THEOREM MagicSafeHolds == MagicSpec => []Safe
<1>1. MagicInv => Safe
  <2> SUFFICES ASSUME MagicInv, NEW n \in DOMAIN magic_prog PROVE datalog_rule_validate(magic_prog[n])
    BY DEF Safe
  <2>1. magic_prog[n] \in SafeRules
    BY DEF MagicInv
  <2> QED  BY <2>1 DEF SafeRules
<1>2. MagicInit => MagicInv
  BY MagicInitInv
<1>3. MagicInv /\ [MagicNext]_magicVars => MagicInv'
  BY MagicNextInv
<1> QED  BY <1>1, <1>2, <1>3, PTL DEF MagicSpec
-----------------------------------------------------------------------------
(* Magic sets: the least model of a program *)

\* The body of a rule holds with b for its variables.
Fires(rule, b, known) == \A k \in DOMAIN rule.body : (Ground(rule.body[k], b) \in known) = ~rule.body[k].negated

\* What a round derives.
LEMMA ConsequencesAre ==
    ASSUME NEW rules, NEW known, NEW g
    PROVE  g \in Consequences(rules, known) <=>
             \E i \in DOMAIN rules : \E b \in [Var -> Values] : Fires(rules[i], b, known) /\ g = Ground(rules[i].head, b)
<1> DEFINE Heads(rule) == {Ground(rule.head, b) : b \in {h \in [Var -> Values] : Fires(rule, h, known)}}
<1>1. Consequences(rules, known) = UNION {Heads(rules[n]) : n \in DOMAIN rules}
  BY Zenon DEF Consequences, Fires
<1>2. \A n : g \in Heads(rules[n]) <=> \E b \in [Var -> Values] : Fires(rules[n], b, known) /\ g = Ground(rules[n].head, b)
  BY Zenon
<1> HIDE DEF Heads
<1>3. g \in Consequences(rules, known) <=> \E n \in DOMAIN rules : g \in Heads(rules[n])
  BY <1>1, Zenon
<1> QED  BY <1>2, <1>3, Zenon

\* f is the function of rounds in the definition of Model.
IsRounds(f, rules, facts) ==
    f = [n \in Nat |-> IF n = 0 THEN facts ELSE LET known == f[n - 1] IN known \union Consequences(rules, known)]

\* The rounds of an evaluation are well defined.
LEMMA RoundsExist == ASSUME NEW rules, NEW facts PROVE \E f : IsRounds(f, rules, facts)
<1> DEFINE More(known) == known \union Consequences(rules, known)
           Run(g, n) == g = [k \in 0..n |-> IF k = 0 THEN facts ELSE More(g[k - 1])]
<1> HIDE DEF More
<1>1. ASSUME NEW n \in Nat PROVE \E g : Run(g, n)
  <2> SUFFICES ASSUME ~ \E g : Run(g, n) PROVE FALSE
    OBVIOUS
  <2> DEFINE T == {m \in Nat : ~ \E g : Run(g, m)}
  <2>1. PICK m \in T : \A y \in T : m <= y
    BY LeastNatural
  <2>2. Run([k \in 0..0 |-> facts], 0)
    OBVIOUS
  <2>3. m # 0 /\ m \in Nat
    BY <2>2
  <2>4. m - 1 \in Nat /\ m - 1 \notin T
    <3> HIDE DEF T
    <3> QED  BY <2>1, <2>3
  <2>5. PICK g : Run(g, m - 1)
    BY <2>4
  <2> DEFINE h == [k \in 0..m |-> IF k = 0 THEN facts ELSE More(g[k - 1])]
  <2>6. \A k \in 0..(m - 1) : g[k] = IF k = 0 THEN facts ELSE More(g[k - 1])
    BY <2>5, <2>4
  <2>7. \A k \in 0..m : h[k] = IF k = 0 THEN facts ELSE More(g[k - 1])
    OBVIOUS
  <2>8. \A k \in 0..m : k # 0 => h[k - 1] = g[k - 1]
    <3> SUFFICES ASSUME NEW k \in 0..m, k # 0 PROVE h[k - 1] = g[k - 1]
      OBVIOUS
    <3>1. k - 1 \in 0..(m - 1) /\ k - 1 \in 0..m
      BY <2>3
    <3> HIDE DEF h
    <3> QED  BY <2>6, <2>7, <3>1
  <2>9. h = [k \in 0..m |-> IF k = 0 THEN facts ELSE More(h[k - 1])]
    BY <2>8
  <2> QED  BY <2>1, <2>9
<1>2. ASSUME NEW n \in Nat, NEW m \in Nat, NEW g, NEW h, Run(g, n), Run(h, m), NEW k \in Nat, k <= n, k <= m
      PROVE  g[k] = h[k]
  <2>1. \A j \in 0..n : g[j] = IF j = 0 THEN facts ELSE More(g[j - 1])
    BY <1>2
  <2>2. \A j \in 0..m : h[j] = IF j = 0 THEN facts ELSE More(h[j - 1])
    BY <1>2
  <2> DEFINE T == {j \in Nat : j <= n /\ j <= m /\ g[j] # h[j]}
  <2> SUFFICES ASSUME T # {} PROVE FALSE
    BY <1>2
  <2>3. PICK j \in T : \A y \in T : j <= y
    BY LeastNatural
  <2>4. j \in 0..n /\ j \in 0..m /\ g[j] # h[j] /\ j \in Nat
    OBVIOUS
  <2>5. j # 0
    BY <2>1, <2>2, <2>4
  <2>6. j - 1 \in Nat /\ j - 1 <= n /\ j - 1 <= m /\ j - 1 \notin T
    <3>1. j - 1 \in Nat /\ j - 1 <= n /\ j - 1 <= m
      BY <2>4, <2>5
    <3> HIDE DEF T
    <3> QED  BY <2>3, <2>5, <3>1, <2>4
  <2>7. g[j - 1] = h[j - 1]
    BY <2>6
  <2> QED  BY <2>1, <2>2, <2>4, <2>5, <2>7
<1> DEFINE at(n) == CHOOSE g : Run(g, n)
           f == [n \in Nat |-> at(n)[n]]
<1>3. ASSUME NEW n \in Nat PROVE Run(at(n), n)
  BY <1>1
<1>4. ASSUME NEW n \in Nat PROVE f[n] = IF n = 0 THEN facts ELSE More(f[n - 1])
  <2>1. PICK g : g = at(n) /\ Run(g, n)
    <3>1. Run(at(n), n)
      BY <1>3
    <3> HIDE DEF at, Run
    <3> QED  BY <3>1
  <2>2. g[n] = IF n = 0 THEN facts ELSE More(g[n - 1])
    <3>1. \A k \in 0..n : g[k] = IF k = 0 THEN facts ELSE More(g[k - 1])
      BY <2>1
    <3> QED  BY <3>1
  <2>3. f[n] = g[n]
    BY <2>1
  <2>4. CASE n = 0
    BY <2>2, <2>3, <2>4
  <2>5. CASE n # 0
    <3>1. n - 1 \in Nat /\ n - 1 <= n
      BY <2>5
    <3>2. PICK h : h = at(n - 1) /\ Run(h, n - 1)
      <4>1. PICK m \in Nat : m = n - 1
        BY <3>1
      <4>2. Run(at(m), m)
        BY <1>3
      <4> HIDE DEF at, Run
      <4> QED  BY <4>1, <4>2
    <3>3. f[n - 1] = h[n - 1]
      BY <3>1, <3>2
    <3>4. g[n - 1] = h[n - 1]
      <4>1. n - 1 <= n - 1
        BY <3>1
      <4> HIDE DEF Run
      <4> QED  BY <1>2, <2>1, <3>1, <3>2, <4>1
    <3> QED  BY <2>2, <2>3, <2>5, <3>3, <3>4
  <2> QED  BY <2>4, <2>5
<1>5. f = [n \in Nat |-> f[n]]
  OBVIOUS
<1> HIDE DEF f
<1>6. f = [n \in Nat |-> IF n = 0 THEN facts ELSE More(f[n - 1])]
  BY <1>4, <1>5
<1> QED  BY <1>6 DEF More, IsRounds

\* The rounds f derive the model.
Derives(f, rules, facts) ==
    /\ f[0] = facts
    /\ \A n \in Nat : f[n + 1] = f[n] \union Consequences(rules, f[n])
    /\ \A n \in Nat : f[n] \subseteq Model(rules, facts)
    /\ \A g \in Model(rules, facts) : \E n \in Nat : g \in f[n]

\* The model is what some round derives.
LEMMA ModelIs == ASSUME Rounds = Nat, NEW rules, NEW facts PROVE \E f : Derives(f, rules, facts)
<1> DEFINE f == CHOOSE g : IsRounds(g, rules, facts)
<1>1. IsRounds(f, rules, facts)
  BY RoundsExist
<1>2. Model(rules, facts) = UNION {f[n] : n \in Nat}
  BY Zenon DEF Model, IsRounds
<1> HIDE DEF f
<1>3. \A n \in Nat : f[n] = IF n = 0 THEN facts ELSE f[n - 1] \union Consequences(rules, f[n - 1])
  BY <1>1 DEF IsRounds
<1>4. f[0] = facts
  BY <1>3
<1>5. ASSUME NEW n \in Nat PROVE f[n + 1] = f[n] \union Consequences(rules, f[n])
  <2>1. n + 1 \in Nat /\ n + 1 # 0 /\ (n + 1) - 1 = n
    OBVIOUS
  <2> QED  BY <1>3, <2>1
<1>6. /\ \A n \in Nat : f[n] \subseteq Model(rules, facts)
      /\ \A g \in Model(rules, facts) : \E n \in Nat : g \in f[n]
  BY <1>2, Zenon
<1> QED  BY <1>4, <1>5, <1>6, Zenon DEF Derives

\* The facts are in the model.
LEMMA ModelHasFacts == ASSUME Rounds = Nat, NEW rules, NEW facts PROVE facts \subseteq Model(rules, facts)
<1>1. PICK f : Derives(f, rules, facts)
  BY ModelIs, Zenon
<1>2. 0 \in Nat
  OBVIOUS
<1> QED  BY <1>1, <1>2, Zenon DEF Derives

\* What holds of the facts and is kept by each round holds of the model.
LEMMA ModelLeast ==
    ASSUME Rounds = Nat, NEW rules, NEW facts, NEW S, facts \subseteq S,
           \A known : /\ facts \subseteq known /\ known \subseteq S
                      /\ known \subseteq Model(rules, facts)
                      /\ Consequences(rules, known) \subseteq Model(rules, facts)
                      => Consequences(rules, known) \subseteq S
    PROVE  Model(rules, facts) \subseteq S
<1> DEFINE M == Model(rules, facts)
<1>0. PICK f : Derives(f, rules, facts)
  BY ModelIs, Zenon
<1>1. /\ f[0] = facts
      /\ \A n \in Nat : f[n + 1] = f[n] \union Consequences(rules, f[n])
      /\ \A n \in Nat : f[n] \subseteq M
      /\ \A g \in M : \E n \in Nat : g \in f[n]
  BY <1>0, Zenon DEF Derives
<1> HIDE DEF M
<1> DEFINE Good(n) == facts \subseteq f[n] /\ f[n] \subseteq S
           T == {n \in Nat : ~ Good(n)}
<1>2. ASSUME NEW n \in Nat, Good(n) PROVE Good(n + 1)
  <2>1. n + 1 \in Nat
    OBVIOUS
  <2>2. f[n] \subseteq M /\ f[n + 1] \subseteq M
    BY <1>1, <2>1, Zenon
  <2>3. f[n + 1] = f[n] \union Consequences(rules, f[n])
    BY <1>1
  <2>4. Consequences(rules, f[n]) \subseteq M
    BY <2>2, <2>3, Zenon
  <2>5. Consequences(rules, f[n]) \subseteq S
    BY <1>2, <2>2, <2>4, Zenon DEF M
  <2> QED  BY <1>2, <2>3, <2>5, Zenon
<1>3. Good(0)
  BY <1>1
<1> HIDE DEF Good
<1>4. ASSUME T # {} PROVE FALSE
  <2>1. PICK n \in T : \A y \in T : n <= y
    BY <1>4, LeastNatural
  <2>2. n # 0 /\ n \in Nat /\ ~ Good(n)
    BY <1>3
  <2>3. n - 1 \in Nat /\ n - 1 \notin T /\ (n - 1) + 1 = n
    <3>1. n - 1 \in Nat
      BY <2>2
    <3> HIDE DEF T
    <3> QED  BY <2>1, <2>2, <3>1
  <2> QED  BY <1>2, <2>2, <2>3
<1>5. \A n \in Nat : f[n] \subseteq S
  BY <1>4 DEF Good
<1> QED  BY <1>1, <1>5, Zenon DEF M

\* A rule whose body holds in the model has its head there.
LEMMA ModelClosed ==
    ASSUME Rounds = Nat, NEW rules, NEW facts, NEW i \in DOMAIN rules, NEW b \in [Var -> Values],
           NEW N \in Nat, DOMAIN rules[i].body = 1..N,
           \A k \in 1..N : rules[i].body[k].negated \in BOOLEAN,
           Fires(rules[i], b, Model(rules, facts))
    PROVE  Ground(rules[i].head, b) \in Model(rules, facts)
<1> DEFINE M == Model(rules, facts)
           body == rules[i].body
           Pos(k) == ~ body[k].negated
           G(k) == Ground(body[k], b)
<1>0. PICK f : Derives(f, rules, facts)
  BY ModelIs, Zenon
<1>1. /\ f[0] = facts
      /\ \A n \in Nat : f[n + 1] = f[n] \union Consequences(rules, f[n])
      /\ \A n \in Nat : f[n] \subseteq M
      /\ \A g \in M : \E n \in Nat : g \in f[n]
  BY <1>0, Zenon DEF Derives
<1>2. \A k \in 1..N : body[k].negated \in BOOLEAN /\ (G(k) \in M <=> Pos(k))
  BY Zenon DEF Fires
<1> HIDE DEF M, body, Pos, G
<1>3. \A n, d \in Nat : f[n] \subseteq f[n + d]
  <2> SUFFICES ASSUME NEW n \in Nat PROVE \A d \in Nat : f[n] \subseteq f[n + d]
    OBVIOUS
  <2> DEFINE T == {d \in Nat : ~ (f[n] \subseteq f[n + d])}
  <2> SUFFICES ASSUME T # {} PROVE FALSE
    OBVIOUS
  <2>1. PICK d \in T : \A y \in T : d <= y
    BY LeastNatural
  <2>2. d # 0 /\ d \in Nat /\ ~ (f[n] \subseteq f[n + d])
    OBVIOUS
  <2>3. d - 1 \in Nat /\ d - 1 \notin T /\ n + (d - 1) \in Nat /\ (n + (d - 1)) + 1 = n + d
    <3>1. d - 1 \in Nat
      BY <2>2
    <3> HIDE DEF T
    <3> QED  BY <2>1, <2>2, <3>1
  <2>4. f[n] \subseteq f[n + (d - 1)]
    BY <2>3
  <2>5. f[n + d] = f[n + (d - 1)] \union Consequences(rules, f[n + (d - 1)])
    BY <1>1, <2>3
  <2> QED  BY <2>2, <2>4, <2>5, Zenon
<1> DEFINE Within(k, n) == \A j \in 1..k : Pos(j) => G(j) \in f[n]
           Late(k) == \E n \in Nat : Within(k, n)
           T == {k \in 0..N : ~ Late(k)}
<1>4. Late(N)
  <2> SUFFICES ASSUME ~ Late(N) PROVE FALSE
    OBVIOUS
  <2>1. N \in T /\ T \subseteq Nat
    OBVIOUS
  <2>2. PICK k \in T : \A y \in T : k <= y
    BY <2>1, LeastNatural
  <2>3. k # 0
    <3>1. Within(0, 0) /\ 0 \in Nat
      OBVIOUS
    <3>2. Late(0)
      BY <3>1
    <3> HIDE DEF Late
    <3> QED  BY <3>2
  <2>4. k \in 1..N /\ k - 1 \in 0..N /\ k \in Nat
    BY <2>3
  <2>5. k - 1 \notin T
    <3> HIDE DEF T
    <3> QED  BY <2>2, <2>4
  <2>6. PICK n \in Nat : Within(k - 1, n)
    BY <2>4, <2>5
  <2>7. CASE ~ Pos(k)
    <3>1. \A j \in 1..k : j # k => j \in 1..(k - 1)
      BY <2>4
    <3>2. Within(k, n)
      BY <2>6, <2>7, <3>1
    <3> QED  BY <3>2
  <2>8. CASE Pos(k)
    <3>1. PICK m \in Nat : G(k) \in f[m]
      BY <1>1, <1>2, <2>4, <2>8
    <3>2. n + m \in Nat /\ f[n] \subseteq f[n + m] /\ f[m] \subseteq f[n + m]
      <4>1. n + m = m + n
        OBVIOUS
      <4>2. f[n] \subseteq f[n + m]
        BY <1>3
      <4>3. f[m] \subseteq f[m + n]
        BY <1>3
      <4>4. m + n \in Nat
        OBVIOUS
      <4> QED  BY <4>1, <4>2, <4>3, <4>4
    <3>3. \A j \in 1..k : j # k => j \in 1..(k - 1)
      BY <2>4
    <3>4. Within(k, n + m)
      BY <2>6, <3>1, <3>2, <3>3
    <3> QED  BY <3>2, <3>4
  <2> QED  BY <2>7, <2>8
<1>5. PICK n \in Nat : Within(N, n)
  BY <1>4
<1>6. Fires(rules[i], b, f[n])
  <2> SUFFICES ASSUME NEW k \in 1..N PROVE (G(k) \in f[n]) = ~ body[k].negated
    BY Zenon DEF Fires, G, body
  <2>1. Pos(k) => G(k) \in f[n]
    BY <1>5
  <2>2. f[n] \subseteq M
    BY <1>1
  <2>3. body[k].negated \in BOOLEAN /\ (G(k) \in M <=> Pos(k))
    BY <1>2
  <2>4. G(k) \in f[n] <=> Pos(k)
    BY <2>1, <2>2, <2>3
  <2>5. body[k].negated = TRUE \/ body[k].negated = FALSE
    BY <2>3
  <2>6. CASE body[k].negated = TRUE
    BY <2>4, <2>6 DEF Pos
  <2>7. CASE body[k].negated = FALSE
    BY <2>4, <2>7 DEF Pos
  <2> QED  BY <2>5, <2>6, <2>7
<1>7. Ground(rules[i].head, b) \in Consequences(rules, f[n])
  BY <1>6, ConsequencesAre, Zenon
<1>8. n + 1 \in Nat /\ f[n + 1] = f[n] \union Consequences(rules, f[n])
  BY <1>1
<1>9. Ground(rules[i].head, b) \in f[n + 1]
  BY <1>7, <1>8, Zenon
<1> QED  BY <1>1, <1>8, <1>9, Zenon DEF M
-----------------------------------------------------------------------------
(* Magic sets: what the rewritten rules say *)

\* The names that the rewriting makes.
AdornedName(name, adornment) == format_name("", name, adornment)

MagicName(name, adornment) == format_name("magic_", name, adornment)

\* Names of different kinds differ, and a name tells what it is made of.
LEMMA NamesDiffer ==
    ASSUME NEW p, NEW q, NEW a, NEW d \in Adornments
    PROVE  /\ Plain(p) # AdornedName(q, d)
           /\ Plain(p) # MagicName(q, a)
           /\ MagicName(p, a) # AdornedName(q, d)
           /\ AdornedName(p, a) = AdornedName(q, d) => p = q /\ a = d
           /\ Plain(p) = Plain(q) => p = q
<1>1. d # ""
  BY Zenon DEF Adornments
<1>2. \A x, y, z, u, v, w : <<x, y, z>> = <<u, v, w>> => x = u /\ y = v /\ z = w
  BY SMT
<1>3. "magic_" # ""
  BY Zenon
<1> QED  BY <1>1, <1>2, <1>3, Zenon DEF Plain, AdornedName, MagicName, format_name

\* A plain name is no magic one.
LEMMA PlainDiffers == \A p, q, a : Plain(p) # MagicName(q, a)
<1>1. PICK d : d \in Adornments
  BY DEF Adornments
<1> QED  BY <1>1, NamesDiffer

\* The value of a term.
Val(term, b) == IF term \in Var THEN b[term] ELSE term

\* The fact of an atom, term by term.
LEMMA GroundIs == ASSUME NEW a, NEW b PROVE Ground(a, b) = <<Val(a.s, b), a.p, Val(a.o, b)>>
BY Zenon DEF Ground, Val

\* The fact that asks for [x, y].
AskFact(name, adornment, x, y) ==
    LET m == make_magic_fact(name, adornment, x, y) IN <<m.s, m.p, m.o>>

\* A magic atom with values for its variables asks for those values.
LEMMA GroundMagic ==
    \A name, s, o, b : \A adornment \in Adornments \ {"ff"} :
        s \in Var \union Values /\ o \in Var \union Values /\ b \in [Var -> Values] =>
            /\ Ground(make_magic_fact(name, adornment, s, o), b) = AskFact(name, adornment, Val(s, b), Val(o, b))
            /\ AskFact(name, adornment, Val(s, b), Val(o, b))[2] = MagicName(name, adornment)
<1> TAKE name, s, o, b
<1> TAKE adornment \in Adornments \ {"ff"}
<1> HAVE s \in Var \union Values /\ o \in Var \union Values /\ b \in [Var -> Values]
<1> DEFINE p == MagicName(name, adornment)
           M(x, y) == make_magic_fact(name, adornment, x, y)
           ask == AskFact(name, adornment, Val(s, b), Val(o, b))
<1>1. Val(TrueValue, b) = TrueValue
  BY MagicAssumption DEF WellFormed, Val
<1>2. ASSUME NEW x, NEW y
      PROVE  M(x, y) = CASE adornment = "bf" -> Atom(x, p, TrueValue, FALSE)
                         [] adornment = "fb" -> Atom(y, p, TrueValue, FALSE)
                         [] adornment = "bb" -> Atom(x, p, y, FALSE)
  BY Zenon DEF make_magic_fact, MagicName
<1> HIDE DEF p, M
<1>4. adornment \in {"bf", "fb", "bb"}
  BY DEF Adornments
<1>5. Ground(M(s, o), b) = <<Val(M(s, o).s, b), M(s, o).p, Val(M(s, o).o, b)>>
  BY GroundIs
<1>6. ask = <<M(Val(s, b), Val(o, b)).s, M(Val(s, b), Val(o, b)).p, M(Val(s, b), Val(o, b)).o>>
  BY Zenon DEF AskFact, M
<1> HIDE DEF ask
<1>7. CASE adornment = "bf"
  <2>1. \A x, y : M(x, y) = [s |-> x, p |-> p, o |-> TrueValue, negated |-> FALSE]
    BY <1>2, <1>7 DEF Atom
  <2>3. M(s, o).s = s /\ M(s, o).p = p /\ M(s, o).o = TrueValue
    BY <2>1
  <2>4. /\ M(Val(s, b), Val(o, b)).s = Val(s, b) /\ M(Val(s, b), Val(o, b)).p = p
        /\ M(Val(s, b), Val(o, b)).o = TrueValue
    BY <2>1
  <2>5. ask = <<Val(s, b), p, TrueValue>>
    BY <1>6, <2>4, Zenon
  <2>2. Ground(M(s, o), b) = ask /\ ask[2] = p
    BY <1>1, <1>5, <2>3, <2>5
  <2> QED  BY <2>2, Zenon DEF M, ask, p
<1>8. CASE adornment = "fb"
  <2>1. \A x, y : M(x, y) = [s |-> y, p |-> p, o |-> TrueValue, negated |-> FALSE]
    BY <1>2, <1>8 DEF Atom
  <2>3. M(s, o).s = o /\ M(s, o).p = p /\ M(s, o).o = TrueValue
    BY <2>1
  <2>4. /\ M(Val(s, b), Val(o, b)).s = Val(o, b) /\ M(Val(s, b), Val(o, b)).p = p
        /\ M(Val(s, b), Val(o, b)).o = TrueValue
    BY <2>1
  <2>5. ask = <<Val(o, b), p, TrueValue>>
    BY <1>6, <2>4, Zenon
  <2>2. Ground(M(s, o), b) = ask /\ ask[2] = p
    BY <1>1, <1>5, <2>3, <2>5
  <2> QED  BY <2>2, Zenon DEF M, ask, p
<1>9. CASE adornment = "bb"
  <2>1. \A x, y : M(x, y) = [s |-> x, p |-> p, o |-> y, negated |-> FALSE]
    BY <1>2, <1>9 DEF Atom
  <2>3. M(s, o).s = s /\ M(s, o).p = p /\ M(s, o).o = o
    BY <2>1
  <2>4. /\ M(Val(s, b), Val(o, b)).s = Val(s, b) /\ M(Val(s, b), Val(o, b)).p = p
        /\ M(Val(s, b), Val(o, b)).o = Val(o, b)
    BY <2>1
  <2>5. ask = <<Val(s, b), p, Val(o, b)>>
    BY <1>6, <2>4, Zenon
  <2>2. Ground(M(s, o), b) = ask /\ ask[2] = p
    BY <1>1, <1>5, <2>3, <2>5
  <2> QED  BY <2>2, Zenon DEF M, ask, p
<1> QED  BY <1>4, <1>7, <1>8, <1>9

\* The pair is asked for.
Asked(current, x, y, known) ==
    current.adornment = "ff" \/ AskFact(current.name, current.adornment, x, y) \in known

\* The name of subgoal k in a rewritten rule.
SubName(rule, adornment, k) ==
    LET p == rule.body[k].p
    IN  IF is_idb_predicate(p) THEN AdornedName(p, SubAdornment(rule, adornment, k)) ELSE Plain(p)

\* What subgoal k of a rewritten rule says.
SubFact(rule, adornment, k, b) ==
    <<Val(rule.body[k].s, b), SubName(rule, adornment, k), Val(rule.body[k].o, b)>>

\* A prefix of a body holds when the head is asked for and its subgoals hold.
LEMMA PrefixFires ==
    ASSUME NEW rule \in Rules, NEW current \in Adorned, NEW n \in 0..Len(rule.body), NEW b \in [Var -> Values],
           NEW known, NEW new, new.body = Prefix(rule, current, n)
    PROVE  /\ Fires(new, b, known) <=>
                 /\ Asked(current, Val(rule.head.s, b), Val(rule.head.o, b), known)
                 /\ \A k \in 1..n : (SubFact(rule, current.adornment, k, b) \in known) = ~ rule.body[k].negated
           /\ \E N \in Nat : DOMAIN new.body = 1..N /\ \A k \in 1..N : new.body[k].negated \in BOOLEAN
<1> DEFINE support == MagicSupport(rule, current)
           rest == [k \in 1..n |-> make_adorned_subgoal(rule, current.adornment, k)]
           body == Prefix(rule, current, n)
           Sub(k) == (SubFact(rule, current.adornment, k, b) \in known) = ~ rule.body[k].negated
           At(k) == (Ground(body[k], b) \in known) = ~ body[k].negated
<1>1. body \in Seq(NewAtoms)
  BY PrefixFacts
<1>2. \E N \in Nat : DOMAIN new.body = 1..N /\ \A k \in 1..N : new.body[k].negated \in BOOLEAN
  <2> HIDE DEF body
  <2>1. Len(body) \in Nat /\ DOMAIN body = 1..Len(body) /\ \A k \in 1..Len(body) : body[k] \in NewAtoms
    BY <1>1
  <2>2. \A a \in NewAtoms : a.negated \in BOOLEAN
    BY DEF NewAtoms
  <2> QED  BY <2>1, <2>2 DEF body
<1>3. n \in Nat /\ current.name \in Predicates /\ current.adornment \in Adornments
  BY DEF Rules, Adorned
<1>4. ASSUME NEW k \in 1..n
      PROVE  ((Ground(rest[k], b) \in known) = ~ rest[k].negated) <=> Sub(k)
  <2> DEFINE a == rule.body[k]
  <2>1. rest[k] = make_adorned_subgoal(rule, current.adornment, k)
    OBVIOUS
  <2>2. rest[k] = Atom(a.s, SubName(rule, current.adornment, k), a.o, a.negated)
    BY <2>1, Zenon DEF make_adorned_subgoal, Subgoal, SubName, AdornedName
  <2> HIDE DEF rest, a
  <2>3. /\ rest[k].s = a.s /\ rest[k].p = SubName(rule, current.adornment, k)
        /\ rest[k].o = a.o /\ rest[k].negated = a.negated
    BY <2>2 DEF Atom
  <2>4. Ground(rest[k], b) = SubFact(rule, current.adornment, k, b)
    BY <2>3, GroundIs, Zenon DEF SubFact, a
  <2> QED  BY <2>3, <2>4, Zenon DEF a
<1>5. Len(rest) = n /\ rest \in Seq({rest[k] : k \in 1..n})
  <2>1. rest \in [1..n -> {rest[k] : k \in 1..n}]
    OBVIOUS
  <2> HIDE DEF rest
  <2> QED  BY <1>3, <2>1
<1>6. body = support \o rest
  BY DEF Prefix
<1>7. Fires(new, b, known) <=> \A k \in DOMAIN body : At(k)
  BY Zenon DEF Fires
<1>8. CASE current.adornment = "ff"
  <2>1. support = <<>>
    BY <1>8 DEF MagicSupport
  <2> HIDE DEF rest, support, body, Sub
  <2>2. body = rest /\ DOMAIN body = 1..n
    BY <1>3, <1>5, <1>6, <2>1
  <2>3. Fires(new, b, known) <=> \A k \in 1..n : Sub(k)
    BY <1>4, <1>7, <2>2, Zenon
  <2> QED  BY <1>2, <1>8, <2>3, Zenon DEF Asked, Sub
<1>9. CASE current.adornment # "ff"
  <2> DEFINE m == make_magic_fact(current.name, current.adornment, rule.head.s, rule.head.o)
             ask == AskFact(current.name, current.adornment, Val(rule.head.s, b), Val(rule.head.o, b))
  <2>1. support = <<m>>
    BY <1>9 DEF MagicSupport
  <2>2. rule.head.s \in Var \union Values /\ rule.head.o \in Var \union Values
    BY DEF Rules, Atoms
  <2>3. Ground(m, b) = ask
    <3>1. current.adornment \in Adornments \ {"ff"}
      BY <1>3, <1>9
    <3>2. PICK s \in Var \union Values, o \in Var \union Values : s = rule.head.s /\ o = rule.head.o
      BY <2>2
    <3>3. PICK ad \in Adornments \ {"ff"} : ad = current.adornment
      BY <3>1
    <3>5. PICK name : name = current.name
      OBVIOUS
    <3>4. Ground(make_magic_fact(name, ad, s, o), b) = AskFact(name, ad, Val(s, b), Val(o, b))
      <4> HIDE DEF m, ask
      <4> QED  BY GroundMagic
    <3> QED  BY <3>2, <3>3, <3>4, <3>5, Zenon
  <2>4. m.negated = FALSE
    <3>1. ~ m.negated /\ m \in NewAtoms
      BY <1>3, <1>9, <2>2, MagicFact
    <3>2. m.negated \in BOOLEAN
      BY <3>1 DEF NewAtoms
    <3> QED  BY <3>1, <3>2, Zenon
  <2> HIDE DEF rest, support, body, Sub, m
  <2>5. Len(body) = n + 1 /\ DOMAIN body = 1..(n + 1) /\ body[1] = m /\ \A k \in 1..n : body[k + 1] = rest[k]
    BY <1>3, <1>5, <1>6, <2>1
  <2>6. At(1) <=> ask \in known
    BY <2>3, <2>4, <2>5, Zenon
  <2>7. ASSUME NEW k \in 1..n PROVE At(k + 1) <=> Sub(k)
    BY <1>4, <2>5, Zenon
  <2> HIDE DEF At
  <2>8. (\A k \in DOMAIN body : At(k)) <=> At(1) /\ \A k \in 1..n : At(k + 1)
    <3>1. ASSUME \A k \in DOMAIN body : At(k) PROVE At(1) /\ \A k \in 1..n : At(k + 1)
      BY <1>3, <2>5, <3>1
    <3>2. ASSUME At(1), \A k \in 1..n : At(k + 1), NEW k \in DOMAIN body PROVE At(k)
      <4>1. CASE k = 1
        BY <3>2, <4>1
      <4>2. CASE k # 1
        <5>1. k - 1 \in 1..n /\ (k - 1) + 1 = k
          BY <1>3, <2>5, <4>2
        <5> QED  BY <3>2, <5>1
      <4> QED  BY <4>1, <4>2
    <3> QED  BY <3>1, <3>2
  <2>9. Fires(new, b, known) <=> ask \in known /\ \A k \in 1..n : Sub(k)
    BY <1>7, <2>6, <2>7, <2>8, Zenon
  <2> QED  BY <1>2, <1>9, <2>9, Zenon DEF Asked, Sub
<1> QED  BY <1>8, <1>9
-----------------------------------------------------------------------------
(* Magic sets: what the loop has rewritten *)

\* What subgoal j of a rule puts in the queue, if it is derived.
Entry(rule, current, j) == [name |-> rule.body[j].p, adornment |-> SubAdornment(rule, current.adornment, j)]

\* Subgoal j of the rule is derived, and asked for by a magic rule.
AsksFor(rule, current, j) == is_idb_predicate(rule.body[j].p) /\ SubAdornment(rule, current.adornment, j) # "ff"

\* The subgoals 1..n of a rule are queued and asked for.
Covered(rule, current, n, entries, new) ==
    \A j \in 1..n : is_idb_predicate(rule.body[j].p) =>
        /\ Entry(rule, current, j) \in entries
        /\ AsksFor(rule, current, j) => MagicRule(rule, current, j) \in new

\* Where a rule of the rewritten program comes from.
Origin(new, entries) ==
    \E i \in DOMAIN input.rules : \E current \in entries :
        LET rule == input.rules[i]
        IN  /\ rule.head.p = current.name
            /\ \/ new = RewrittenRule(rule, current)
               \/ \E j \in 1..Len(rule.body) : AsksFor(rule, current, j) /\ new = MagicRule(rule, current, j)

\* Rule i is done for entry q of the queue: the loop is past it.
DoneWith(q, i) == q <= processed \/ (q = processed + 1 /\ i < r)

\* Rule i is rewritten for entry q: its subgoals are queued and asked for, and
\* its own rewritten rule is there.
Rewritten(q, i) ==
    LET rule == input.rules[i]
    IN  /\ Covered(rule, queue[q], Len(rule.body), ToSet(queue), ToSet(magic_prog))
        /\ RewrittenRule(rule, queue[q]) \in ToSet(magic_prog)

\* The rewritten program has what each entry of the queue needs, as far as the
\* loop has come, and nothing else.
RewritingInv ==
    /\ MagicInv
    /\ result # "NULL" =>
          /\ Len(queue) >= 1
          /\ \A q \in DOMAIN queue, i \in DOMAIN input.rules :
                DoneWith(q, i) /\ input.rules[i].head.p = queue[q].name => Rewritten(q, i)
          /\ \A new \in ToSet(magic_prog) : Origin(new, ToSet(queue))
    /\ result = "program" => processed = Len(queue)

\* Append adds one member and moves none.
LEMMA AppendSet ==
    ASSUME NEW S, NEW s \in Seq(S), NEW e
    PROVE  ToSet(Append(s, e)) = ToSet(s) \union {e} /\ Len(Append(s, e)) = Len(s) + 1
           /\ \A n \in 1..Len(s) : Append(s, e)[n] = s[n]
<1>1. /\ Len(s) \in Nat /\ DOMAIN s = 1..Len(s) /\ DOMAIN Append(s, e) = 1..(Len(s) + 1)
      /\ Len(Append(s, e)) = Len(s) + 1
      /\ \A n \in 1..Len(s) : Append(s, e)[n] = s[n]
      /\ Append(s, e)[Len(s) + 1] = e
  OBVIOUS
<1> DEFINE t == Append(s, e)
<1> HIDE DEF t
<1>2. ToSet(t) = {t[n] : n \in 1..(Len(s) + 1)} /\ ToSet(s) = {s[n] : n \in 1..Len(s)}
  BY <1>1, Zenon DEF ToSet, t
<1>3. \A x : x \in ToSet(t) <=> x \in ToSet(s) \union {e}
  <2>1. ASSUME NEW n \in 1..(Len(s) + 1) PROVE t[n] \in ToSet(s) \union {e}
    <3>1. n \in 1..Len(s) \/ n = Len(s) + 1
      BY <1>1
    <3> QED  BY <1>1, <1>2, <3>1, Zenon DEF t
  <2>2. ASSUME NEW n \in 1..Len(s) PROVE s[n] \in ToSet(t)
    <3>1. n \in 1..(Len(s) + 1) /\ t[n] = s[n]
      BY <1>1 DEF t
    <3> QED  BY <1>2, <3>1, Zenon
  <2>3. e \in ToSet(t)
    <3>1. Len(s) + 1 \in 1..(Len(s) + 1) /\ t[Len(s) + 1] = e
      BY <1>1 DEF t
    <3> QED  BY <1>2, <3>1, Zenon
  <2>4. ToSet(t) \subseteq ToSet(s) \union {e}
    BY <1>2, <2>1, Zenon
  <2>5. ToSet(s) \subseteq ToSet(t)
    BY <1>2, <2>2, Zenon
  <2> QED  BY <2>3, <2>4, <2>5, Zenon
<1> QED  BY <1>1, <1>3, Zenon DEF t

\* One queue goes on where another ends.
Extends(q, longer) == Len(q) <= Len(longer) /\ \A n \in 1..Len(q) : longer[n] = q[n]

\* enqueue_adorned only extends the queue, and the entry is in it afterwards.
LEMMA EnqueueAdds ==
    ASSUME NEW q \in Seq(Adorned), NEW name, NEW adornment
    PROVE  LET after == enqueue_adorned(q, name, adornment)
               entry == [name |-> name, adornment |-> adornment]
           IN  Extends(q, after) /\ ToSet(after) = ToSet(q) \union {entry}
<1> DEFINE entry == [name |-> name, adornment |-> adornment]
<1>1. Len(q) \in Nat /\ DOMAIN q = 1..Len(q)
  OBVIOUS
<1>2. enqueue_adorned(q, name, adornment) = IF \E i \in 1..Len(q) : q[i] = entry THEN q ELSE Append(q, entry)
  BY Zenon DEF enqueue_adorned, Contains
<1> HIDE DEF entry
<1>3. CASE \E i \in 1..Len(q) : q[i] = entry
  <2>1. entry \in ToSet(q)
    BY <1>1, <1>3, Zenon DEF ToSet
  <2> QED  BY <1>1, <1>2, <1>3, <2>1 DEF Extends, entry
<1>4. CASE ~ \E i \in 1..Len(q) : q[i] = entry
  <2>1. enqueue_adorned(q, name, adornment) = Append(q, entry)
    BY <1>2, <1>4
  <2>2. Extends(q, Append(q, entry))
    BY <1>1, AppendSet DEF Extends
  <2>3. ToSet(Append(q, entry)) = ToSet(q) \union {entry}
    BY AppendSet
  <2> QED  BY <2>1, <2>2, <2>3, Zenon DEF entry
<1> QED  BY <1>3, <1>4

\* What the first k subgoals have added.
Grown(at, rule, current, k) ==
    /\ at \in [queue : Seq(Adorned), program : Seq(SafeRules)]
    /\ Extends(queue, at.queue)
    /\ ToSet(queue) \subseteq ToSet(at.queue)
    /\ ToSet(magic_prog) \subseteq ToSet(at.program)
    /\ Covered(rule, current, k, ToSet(at.queue), ToSet(at.program))
    /\ \A new \in ToSet(at.program) \ ToSet(magic_prog) :
          \E j \in 1..k : AsksFor(rule, current, j) /\ new = MagicRule(rule, current, j)

\* One subgoal more: it is queued and asked for if it is derived.
LEMMA AskAdds ==
    ASSUME MagicInv, NEW i \in DOMAIN input.rules, NEW current \in Adorned,
           NEW k \in 1..Len(input.rules[i].body), NEW at, Grown(at, input.rules[i], current, k - 1)
    PROVE  Grown(Ask(at, input.rules[i], current, k), input.rules[i], current, k)
<1> DEFINE rule == input.rules[i]
           p == rule.body[k].p
           adornment == SubAdornment(rule, current.adornment, k)
           new == MagicRule(rule, current, k)
           q == enqueue_adorned(at.queue, p, adornment)
           prog == IF adornment = "ff" THEN at.program ELSE Append(at.program, new)
           after == Ask(at, rule, current, k)
<1>1. k \in Nat /\ k \in 1..k /\ k - 1 \in Nat /\ (\A j \in 1..k : j = k \/ j \in 1..(k - 1)) /\ 1..(k - 1) \subseteq 1..k
  <2>1. rule \in Rules
    BY RulesType DEF MagicInv
  <2>2. Len(rule.body) \in Nat
    BY <2>1 DEF Rules
  <2>3. k \in Nat
    BY <2>2
  <2> QED  BY <2>3
<1>2. at \in [queue : Seq(Adorned), program : Seq(SafeRules)]
  BY DEF Grown
<1>3. after \in [queue : Seq(Adorned), program : Seq(SafeRules)]
  BY <1>2, AskKeeps DEF MagicInv
<1>4. after = IF ~is_idb_predicate(p) THEN at ELSE [queue |-> q, program |-> prog]
  BY Zenon DEF Ask
<1>5. Extends(at.queue, q) /\ ToSet(q) = ToSet(at.queue) \union {Entry(rule, current, k)}
  <2>1. at.queue \in Seq(Adorned)
    BY <1>2
  <2> QED  BY <2>1, EnqueueAdds DEF Entry
<1>6. ToSet(prog) = ToSet(at.program) \union (IF adornment = "ff" THEN {} ELSE {new})
  <2>1. at.program \in Seq(SafeRules)
    BY <1>2
  <2>2. ToSet(Append(at.program, new)) = ToSet(at.program) \union {new}
    BY <2>1, AppendSet
  <2> HIDE DEF new
  <2> QED  BY <2>2
<1>7. AsksFor(rule, current, k) <=> is_idb_predicate(p) /\ adornment # "ff"
  BY Zenon DEF AsksFor
<1>8. Len(queue) \in Nat /\ Len(at.queue) \in Nat
  BY <1>2 DEF MagicInv
<1> HIDE DEF q, prog, after, adornment
<1>9. CASE ~is_idb_predicate(p)
  <2>1. after = at
    BY <1>4, <1>9
  <2>2. Covered(rule, current, k, ToSet(at.queue), ToSet(at.program))
    BY <1>1, <1>9 DEF Grown, Covered
  <2> HIDE DEF rule
  <2>3. \A x \in ToSet(at.program) \ ToSet(magic_prog) :
            \E j \in 1..k : AsksFor(rule, current, j) /\ x = MagicRule(rule, current, j)
    BY <1>1, Zenon DEF Grown, rule
  <2>4. Grown(at, rule, current, k)
    BY <2>2, <2>3, Zenon DEF Grown, rule
  <2> QED  BY <2>1, <2>4, Zenon DEF after, rule
<1>10. CASE is_idb_predicate(p)
  <2>1. after = [queue |-> q, program |-> prog]
    BY <1>4, <1>10
  <2>2. after.queue = q /\ after.program = prog
    BY <2>1
  <2> HIDE DEF rule, new, p
  <2>3. /\ Extends(queue, at.queue) /\ ToSet(queue) \subseteq ToSet(at.queue)
        /\ ToSet(magic_prog) \subseteq ToSet(at.program)
        /\ Covered(rule, current, k - 1, ToSet(at.queue), ToSet(at.program))
        /\ \A x \in ToSet(at.program) \ ToSet(magic_prog) :
              \E j \in 1..(k - 1) : AsksFor(rule, current, j) /\ x = MagicRule(rule, current, j)
    BY Zenon DEF Grown, rule
  <2>4. Extends(queue, q)
    <3>1. Len(q) \in Nat
      <4>1. q \in Seq(Adorned)
        BY <1>3, <2>2
      <4> QED  BY <4>1
    <3>2. Len(queue) <= Len(at.queue) /\ Len(at.queue) <= Len(q)
      BY <1>5, <2>3 DEF Extends
    <3>3. ASSUME NEW n \in 1..Len(queue) PROVE q[n] = queue[n]
      <4>1. n \in 1..Len(at.queue)
        BY <1>8, <3>2
      <4> QED  BY <1>5, <2>3, <4>1 DEF Extends
    <3> QED  BY <1>8, <3>1, <3>2, <3>3 DEF Extends
  <2>5. Covered(rule, current, k, ToSet(q), ToSet(prog))
    <3> SUFFICES ASSUME NEW j \in 1..k, is_idb_predicate(rule.body[j].p)
                 PROVE  /\ Entry(rule, current, j) \in ToSet(q)
                        /\ AsksFor(rule, current, j) => MagicRule(rule, current, j) \in ToSet(prog)
      BY Zenon DEF Covered
    <3>1. CASE j = k
      BY <1>5, <1>6, <1>7, <3>1 DEF new
    <3>2. CASE j \in 1..(k - 1)
      <4>1. /\ Entry(rule, current, j) \in ToSet(at.queue)
            /\ AsksFor(rule, current, j) => MagicRule(rule, current, j) \in ToSet(at.program)
        BY <2>3, <3>2, Zenon DEF Covered
      <4> QED  BY <1>5, <1>6, <4>1
    <3> QED  BY <1>1, <3>1, <3>2
  <2>6. ASSUME NEW x \in ToSet(prog) \ ToSet(magic_prog)
        PROVE  \E j \in 1..k : AsksFor(rule, current, j) /\ x = MagicRule(rule, current, j)
    <3>1. CASE x \in ToSet(at.program)
      BY <1>1, <2>3, <2>6, <3>1, Zenon
    <3>2. CASE x \notin ToSet(at.program)
      <4>1. x = new /\ adornment # "ff"
        BY <1>6, <2>6, <3>2
      <4>2. AsksFor(rule, current, k)
        BY <1>7, <1>10, <4>1, Zenon
      <4> QED  BY <1>1, <4>1, <4>2, Zenon DEF new
    <3> QED  BY <3>1, <3>2
  <2>7. ToSet(queue) \subseteq ToSet(q) /\ ToSet(magic_prog) \subseteq ToSet(prog)
    BY <1>5, <1>6, <2>3
  <2>8. Grown(after, rule, current, k)
    BY <1>3, <2>2, <2>4, <2>5, <2>6, <2>7, Zenon DEF Grown
  <2> QED  BY <2>8, Zenon DEF after, rule
<1> QED  BY <1>9, <1>10

\* What a rule adds to the queue and to the program.
LEMMA TransformAdds ==
    ASSUME MagicInv, NEW i \in DOMAIN input.rules, NEW current \in Adorned, NEW done,
           done = transform_rule(input.rules[i], current)
    PROVE  LET rule == input.rules[i]
           IN  /\ Extends(queue, done.queue)
               /\ ToSet(queue) \subseteq ToSet(done.queue)
               /\ ToSet(magic_prog) \subseteq ToSet(done.program)
               /\ Covered(rule, current, Len(rule.body), ToSet(done.queue), ToSet(done.program))
               /\ RewrittenRule(rule, current) \in ToSet(done.program)
               /\ \A new \in ToSet(done.program) \ ToSet(magic_prog) :
                     \/ new = RewrittenRule(rule, current)
                     \/ \E j \in 1..Len(rule.body) : AsksFor(rule, current, j) /\ new = MagicRule(rule, current, j)
<1> DEFINE rule == input.rules[i]
           N == Len(rule.body)
           base == [queue |-> queue, program |-> magic_prog]
           last == RewrittenRule(rule, current)
<1>1. PICK f : /\ f[0] = base
               /\ \A k \in 1..N : f[k] = Ask(f[k - 1], rule, current, k)
               /\ transform_rule(rule, current) = [queue |-> f[N].queue, program |-> Append(f[N].program, last)]
  BY TransformRun
<1>2. N \in Nat
  <2>1. rule \in Rules
    BY RulesType DEF MagicInv
  <2> QED  BY <2>1 DEF Rules
<1>3. Grown(base, rule, current, 0)
  <2>1. base.queue = queue /\ base.program = magic_prog /\ base \in [queue : Seq(Adorned), program : Seq(SafeRules)]
    BY DEF MagicInv
  <2> HIDE DEF base, rule
  <2>2. Covered(rule, current, 0, ToSet(queue), ToSet(magic_prog))
    BY DEF Covered
  <2>3. Extends(queue, queue)
    BY DEF Extends, MagicInv
  <2> QED  BY <2>1, <2>2, <2>3, Zenon DEF Grown
<1> HIDE DEF base, last
<1>4. ASSUME NEW k \in 1..N, Grown(f[k - 1], rule, current, k - 1) PROVE Grown(f[k], rule, current, k)
  <2>1. f[k] = Ask(f[k - 1], rule, current, k)
    BY <1>1
  <2>2. PICK at : at = f[k - 1]
    OBVIOUS
  <2>3. Grown(Ask(at, rule, current, k), rule, current, k)
    BY <1>4, <2>2, AskAdds
  <2> QED  BY <2>1, <2>2, <2>3, Zenon
<1>5. Grown(f[N], rule, current, N)
  <2> DEFINE Good(k) == Grown(f[k], rule, current, k)
             T == {k \in 0..N : ~ Good(k)}
  <2>1. Good(0)
    BY <1>1, <1>3
  <2>2. \A k \in 1..N : Good(k - 1) => Good(k)
    BY <1>4
  <2> HIDE DEF Good, N, rule
  <2> SUFFICES ASSUME ~ Good(N) PROVE FALSE
    BY DEF Good, N, rule
  <2>3. T \subseteq Nat /\ T # {}
    BY <1>2
  <2>4. PICK k \in T : \A y \in T : k <= y
    BY <2>3, LeastNatural
  <2>5. k # 0 /\ k \in 0..N
    BY <2>1
  <2>6. k \in 1..N /\ k - 1 \in 0..N
    BY <1>2, <2>5
  <2>7. k - 1 \notin T
    <3> HIDE DEF T
    <3> QED  BY <2>4, <2>6
  <2> QED  BY <2>2, <2>6, <2>7
<1>6. done.queue = f[N].queue /\ done.program = Append(f[N].program, last)
  <2> HIDE DEF rule, N
  <2>1. done = [queue |-> f[N].queue, program |-> Append(f[N].program, last)]
    BY <1>1 DEF rule
  <2> QED  BY <2>1
<1>7. ToSet(done.program) = ToSet(f[N].program) \union {last}
  <2>1. f[N].program \in Seq(SafeRules)
    <3>1. f[N] \in [queue : Seq(Adorned), program : Seq(SafeRules)]
      BY <1>5, Zenon DEF Grown
    <3> QED  BY <3>1
  <2> QED  BY <1>6, <2>1, AppendSet
<1> HIDE DEF N, rule
<1>8. /\ Extends(queue, f[N].queue)
      /\ ToSet(queue) \subseteq ToSet(f[N].queue)
      /\ ToSet(magic_prog) \subseteq ToSet(f[N].program)
      /\ Covered(rule, current, N, ToSet(f[N].queue), ToSet(f[N].program))
      /\ \A new \in ToSet(f[N].program) \ ToSet(magic_prog) :
            \E j \in 1..N : AsksFor(rule, current, j) /\ new = MagicRule(rule, current, j)
  BY <1>5, Zenon DEF Grown
<1>9. Covered(rule, current, N, ToSet(done.queue), ToSet(done.program))
  BY <1>6, <1>7, <1>8, Zenon DEF Covered
<1>10. \A new \in ToSet(done.program) \ ToSet(magic_prog) :
          new = last \/ \E j \in 1..N : AsksFor(rule, current, j) /\ new = MagicRule(rule, current, j)
  BY <1>7, <1>8, Zenon
<1>11. ToSet(magic_prog) \subseteq ToSet(done.program) /\ last \in ToSet(done.program)
  BY <1>7, <1>8, Zenon
<1> QED  BY <1>6, <1>8, <1>9, <1>10, <1>11, Zenon DEF N, rule, last

\* While the call stays, its rules become the same rules.
LEMMA SameInput ==
    ASSUME input' = input, NEW CONSTANT rule, NEW CONSTANT current
    PROVE  /\ \A p : is_idb_predicate(p)' <=> is_idb_predicate(p)
           /\ RewrittenRule(rule, current)' = RewrittenRule(rule, current)
           /\ \A j : MagicRule(rule, current, j)' = MagicRule(rule, current, j)
           /\ \A j : AsksFor(rule, current, j)' <=> AsksFor(rule, current, j)
<1>1. \A p : is_idb_predicate(p)' <=> is_idb_predicate(p)
  BY DEF is_idb_predicate
<1>2. ASSUME NEW CONSTANT k
      PROVE  make_adorned_subgoal(rule, current.adornment, k)' = make_adorned_subgoal(rule, current.adornment, k)
  BY <1>1, Zenon DEF make_adorned_subgoal
<1>3. ASSUME NEW CONSTANT n PROVE Prefix(rule, current, n)' = Prefix(rule, current, n)
  <2> DEFINE G(k) == make_adorned_subgoal(rule, current.adornment, k)
  <2>1. Prefix(rule, current, n)' = MagicSupport(rule, current) \o [k \in 1..n |-> G(k)']
    BY DEF Prefix
  <2>2. Prefix(rule, current, n) = MagicSupport(rule, current) \o [k \in 1..n |-> G(k)]
    BY DEF Prefix
  <2>3. \A k : G(k)' = G(k)
    BY <1>2, Zenon
  <2>4. [k \in 1..n |-> G(k)'] = [k \in 1..n |-> G(k)]
    BY <2>3, Zenon
  <2> QED  BY <2>1, <2>2, <2>4, Zenon
<1>4. RewrittenRule(rule, current)' = RewrittenRule(rule, current)
  <2>1. Prefix(rule, current, Len(rule.body))' = Prefix(rule, current, Len(rule.body))
    BY <1>3
  <2> QED  BY <2>1, Zenon DEF RewrittenRule
<1>5. ASSUME NEW CONSTANT j PROVE MagicRule(rule, current, j)' = MagicRule(rule, current, j)
  <2>1. Prefix(rule, current, j - 1)' = Prefix(rule, current, j - 1)
    BY <1>3
  <2> QED  BY <2>1, Zenon DEF MagicRule
<1>6. \A j : AsksFor(rule, current, j)' <=> AsksFor(rule, current, j)
  BY <1>1, Zenon DEF AsksFor
<1> QED  BY <1>1, <1>4, <1>5, <1>6, Zenon

\* What is done stays done while the queue and the program only grow.
LEMMA RewrittenStays ==
    ASSUME input' = input, NEW CONSTANT q, NEW CONSTANT i, queue'[q] = queue[q],
           ToSet(queue) \subseteq ToSet(queue'), ToSet(magic_prog) \subseteq ToSet(magic_prog'), Rewritten(q, i)
    PROVE  Rewritten(q, i)'
<1> DEFINE rule == input.rules[i]
           current == queue[q]
<1>0. PICK ru, cu : ru = rule /\ cu = current
  OBVIOUS
<1>1. /\ \A p : is_idb_predicate(p)' <=> is_idb_predicate(p)
      /\ RewrittenRule(ru, cu)' = RewrittenRule(ru, cu)
      /\ \A j : MagicRule(ru, cu, j)' = MagicRule(ru, cu, j)
      /\ \A j : AsksFor(ru, cu, j)' <=> AsksFor(ru, cu, j)
  BY SameInput
<1>2. /\ \A j \in 1..Len(ru.body) : is_idb_predicate(ru.body[j].p) =>
            /\ Entry(ru, cu, j) \in ToSet(queue)
            /\ AsksFor(ru, cu, j) => MagicRule(ru, cu, j) \in ToSet(magic_prog)
      /\ RewrittenRule(ru, cu) \in ToSet(magic_prog)
  BY <1>0, Zenon DEF Rewritten, Covered
<1>3. /\ \A j \in 1..Len(ru.body) : is_idb_predicate(ru.body[j].p)' =>
            /\ Entry(ru, cu, j) \in ToSet(queue')
            /\ AsksFor(ru, cu, j)' => MagicRule(ru, cu, j)' \in ToSet(magic_prog')
      /\ RewrittenRule(ru, cu)' \in ToSet(magic_prog')
  BY <1>1, <1>2, Zenon
<1>4. Covered(ru, cu, Len(ru.body), ToSet(queue), ToSet(magic_prog))'
  BY <1>3, Zenon DEF Covered
<1>5. ru = rule' /\ cu = current'
  BY <1>0
<1> QED  BY <1>3, <1>4, <1>5, Zenon DEF Rewritten

\* Where a rule comes from is not forgotten.
LEMMA OriginStays ==
    ASSUME input' = input, ToSet(queue) \subseteq ToSet(queue'), NEW CONSTANT new, Origin(new, ToSet(queue))
    PROVE  Origin(new, ToSet(queue))'
<1>1. PICK i \in DOMAIN input.rules, current \in ToSet(queue) :
          /\ input.rules[i].head.p = current.name
          /\ \/ new = RewrittenRule(input.rules[i], current)
             \/ \E j \in 1..Len(input.rules[i].body) :
                   AsksFor(input.rules[i], current, j) /\ new = MagicRule(input.rules[i], current, j)
  BY Zenon DEF Origin
<1>2. PICK ru : ru = input.rules[i]
  OBVIOUS
<1>3. /\ RewrittenRule(ru, current)' = RewrittenRule(ru, current)
      /\ \A j : MagicRule(ru, current, j)' = MagicRule(ru, current, j)
      /\ \A j : AsksFor(ru, current, j)' <=> AsksFor(ru, current, j)
  BY SameInput
<1>4. /\ ru.head.p = current.name
      /\ \/ new = RewrittenRule(ru, current)'
         \/ \E j \in 1..Len(ru.body) : AsksFor(ru, current, j)' /\ new = MagicRule(ru, current, j)'
  BY <1>1, <1>2, <1>3, Zenon
<1>5. ru = input'.rules[i] /\ i \in DOMAIN input'.rules /\ current \in ToSet(queue')
  BY <1>2
<1> QED  BY <1>4, <1>5, Zenon DEF Origin

\* The loop begins with the goal in the queue and nothing done.
LEMMA RewritingInit == MagicInit => RewritingInv
<1> SUFFICES ASSUME MagicInit PROVE RewritingInv
  OBVIOUS
<1> DEFINE adornment == Adornment(input.goal.s \notin Var, input.goal.o \notin Var)
           entry == [name |-> input.goal.p, adornment |-> adornment]
<1>1. MagicInv
  BY MagicInitInv
<1>2. /\ queue = enqueue_adorned(<<>>, input.goal.p, adornment)
      /\ processed = 0 /\ r = 1 /\ magic_prog = <<>> /\ result = "none"
  BY DEF MagicInit
<1>3. queue = Append(<<>>, entry)
  <2>1. queue = IF \E i \in 1..Len(<<>>) : <<>>[i] = entry THEN <<>> ELSE Append(<<>>, entry)
    BY <1>2, Zenon DEF enqueue_adorned, Contains
  <2>2. ~ \E i \in 1..Len(<<>>) : <<>>[i] = entry
    OBVIOUS
  <2> QED  BY <2>1, <2>2, Zenon
<1> HIDE DEF entry
<1>4. Len(queue) = 1 /\ DOMAIN queue = 1..1
  BY <1>3
<1>5. ToSet(magic_prog) = {}
  BY <1>2 DEF ToSet
<1>6. \A q \in DOMAIN queue, i \in DOMAIN input.rules : ~ DoneWith(q, i)
  <2>1. DOMAIN input.rules = 1..Len(input.rules) /\ Len(input.rules) \in Nat
    <3>1. input.rules \in Seq(Rules)
      BY <1>1, RulesType DEF MagicInv
    <3> QED  BY <3>1
  <2> QED  BY <1>2, <1>4, <2>1 DEF DoneWith
<1> QED  BY <1>1, <1>2, <1>4, <1>5, <1>6 DEF RewritingInv

\* TransformRule does one rule for the current entry, and nothing is lost.
LEMMA TransformKeepsRewriting ==
    ASSUME RewritingInv, TransformRule, MagicInv' PROVE RewritingInv'
<1> DEFINE rule == input.rules[r]
           done == transform_rule(rule, current_pred)
<1>1. /\ MagicInv /\ Len(queue) \in Nat /\ processed \in Nat /\ r \in Nat /\ result = "none"
      /\ processed < Len(queue) /\ r <= Len(input.rules) /\ rule.head.p = current_pred.name
      /\ queue' = done.queue /\ magic_prog' = done.program /\ r' = r + 1
      /\ input' = input /\ processed' = processed /\ result' = result
  BY DEF RewritingInv, MagicInv, TransformRule, Running, OfCurrent
<1>2. current_pred \in Adorned /\ processed + 1 \in DOMAIN queue /\ current_pred = queue[processed + 1]
      /\ DOMAIN queue = 1..Len(queue)
  BY <1>1 DEF MagicInv, current_pred
<1>3. r \in DOMAIN input.rules /\ DOMAIN input.rules = 1..Len(input.rules)
  <2>1. input.rules \in Seq(Rules)
    BY <1>1, RulesType DEF MagicInv
  <2>2. r \in 1..Len(input.rules)
    BY <1>1, <2>1 DEF MagicInv
  <2> QED  BY <2>1, <2>2
<1>0. PICK ru, cu : ru = rule /\ cu = current_pred
  OBVIOUS
<1>4. /\ Extends(queue, queue')
      /\ ToSet(queue) \subseteq ToSet(queue')
      /\ ToSet(magic_prog) \subseteq ToSet(magic_prog')
      /\ Covered(ru, cu, Len(ru.body), ToSet(queue'), ToSet(magic_prog'))
      /\ RewrittenRule(ru, cu) \in ToSet(magic_prog')
      /\ \A new \in ToSet(magic_prog') \ ToSet(magic_prog) :
            \/ new = RewrittenRule(ru, cu)
            \/ \E j \in 1..Len(ru.body) : AsksFor(ru, cu, j) /\ new = MagicRule(ru, cu, j)
  <2>1. PICK d : d = done
    OBVIOUS
  <2>2. PICK i \in DOMAIN input.rules : i = r
    BY <1>3
  <2>3. cu \in Adorned /\ d = transform_rule(input.rules[i], cu)
    BY <1>0, <1>2, <2>1, <2>2
  <2> HIDE DEF rule
  <2>4. /\ Extends(queue, d.queue)
        /\ ToSet(queue) \subseteq ToSet(d.queue)
        /\ ToSet(magic_prog) \subseteq ToSet(d.program)
        /\ Covered(input.rules[i], cu, Len(input.rules[i].body), ToSet(d.queue), ToSet(d.program))
        /\ RewrittenRule(input.rules[i], cu) \in ToSet(d.program)
        /\ \A new \in ToSet(d.program) \ ToSet(magic_prog) :
              \/ new = RewrittenRule(input.rules[i], cu)
              \/ \E j \in 1..Len(input.rules[i].body) :
                    AsksFor(input.rules[i], cu, j) /\ new = MagicRule(input.rules[i], cu, j)
    BY <1>1, <2>3, TransformAdds
  <2>5. input.rules[i] = ru /\ d.queue = queue' /\ d.program = magic_prog'
    BY <1>0, <1>1, <2>1, <2>2 DEF rule
  <2> QED  BY <2>4, <2>5, Zenon
<1> HIDE DEF done, rule
<1>5. /\ \A p : is_idb_predicate(p)' <=> is_idb_predicate(p)
      /\ RewrittenRule(ru, cu)' = RewrittenRule(ru, cu)
      /\ \A j : MagicRule(ru, cu, j)' = MagicRule(ru, cu, j)
      /\ \A j : AsksFor(ru, cu, j)' <=> AsksFor(ru, cu, j)
  BY <1>1, SameInput
<1>6. Len(queue') >= 1 /\ processed + 1 \in 1..Len(queue) /\ queue'[processed + 1] = queue[processed + 1]
  <2>1. Len(queue') \in Nat
    BY DEF MagicInv
  <2> QED  BY <1>1, <1>4, <2>1 DEF Extends
<1>7. ASSUME NEW q \in DOMAIN queue', NEW i \in DOMAIN input'.rules, DoneWith(q, i)', input'.rules[i].head.p = queue'[q].name
      PROVE  Rewritten(q, i)'
  <2>0. q \in Nat /\ q >= 1 /\ i \in Nat /\ i \in DOMAIN input.rules /\ DOMAIN queue' = 1..Len(queue')
    BY <1>1, <1>3 DEF MagicInv
  <2>1. q <= processed \/ (q = processed + 1 /\ i < r + 1)
    <3>1. processed' = processed /\ r' = r + 1
      BY <1>1
    <3> QED  BY <1>7, <3>1, Zenon DEF DoneWith
  <2>2. q \in 1..Len(queue) /\ queue'[q] = queue[q]
    <3>1. q \in 1..Len(queue)
      BY <1>1, <2>0, <2>1
    <3> QED  BY <1>4, <3>1 DEF Extends
  <2>3. CASE DoneWith(q, i)
    <3>1. Rewritten(q, i)
      <4>1. input.rules[i].head.p = queue[q].name
        BY <1>1, <1>7, <2>2
      <4>2. result # "NULL"
        BY <1>1
      <4> QED  BY <1>2, <2>0, <2>2, <2>3, <4>1, <4>2, Zenon DEF RewritingInv
    <3> QED  BY <1>1, <1>4, <2>2, <3>1, RewrittenStays
  <2>4. CASE ~ DoneWith(q, i)
    <3>1. q = processed + 1 /\ i = r
      BY <1>1, <2>0, <2>1, <2>4 DEF DoneWith
    <3>2. ru = input'.rules[i] /\ cu = queue'[q]
      BY <1>0, <1>1, <1>2, <2>2, <3>1 DEF rule
    <3>3. /\ \A j \in 1..Len(ru.body) : is_idb_predicate(ru.body[j].p) =>
                /\ Entry(ru, cu, j) \in ToSet(queue')
                /\ AsksFor(ru, cu, j) => MagicRule(ru, cu, j) \in ToSet(magic_prog')
      BY <1>4, Zenon DEF Covered
    <3>4. /\ \A j \in 1..Len(ru.body) : is_idb_predicate(ru.body[j].p)' =>
                /\ Entry(ru, cu, j) \in ToSet(queue')
                /\ AsksFor(ru, cu, j)' => MagicRule(ru, cu, j)' \in ToSet(magic_prog')
      BY <1>5, <3>3, Zenon
    <3>5. Covered(ru, cu, Len(ru.body), ToSet(queue), ToSet(magic_prog))'
      BY <3>4, Zenon DEF Covered
    <3>6. RewrittenRule(ru, cu)' \in ToSet(magic_prog')
      BY <1>4, <1>5, Zenon
    <3> QED  BY <3>2, <3>5, <3>6, Zenon DEF Rewritten
  <2> QED  BY <2>3, <2>4
<1>8. ASSUME NEW new \in ToSet(magic_prog') PROVE Origin(new, ToSet(queue))'
  <2>1. CASE new \in ToSet(magic_prog)
    <3>1. Origin(new, ToSet(queue))
      <4>1. result # "NULL"
        BY <1>1
      <4> QED  BY <2>1, <4>1, Zenon DEF RewritingInv
    <3> QED  BY <1>1, <1>4, <3>1, OriginStays
  <2>2. CASE new \notin ToSet(magic_prog)
    <3>1. \/ new = RewrittenRule(ru, cu)'
          \/ \E j \in 1..Len(ru.body) : AsksFor(ru, cu, j)' /\ new = MagicRule(ru, cu, j)'
      <4>1. \/ new = RewrittenRule(ru, cu)
            \/ \E j \in 1..Len(ru.body) : AsksFor(ru, cu, j) /\ new = MagicRule(ru, cu, j)
        BY <1>4, <1>8, <2>2, Zenon
      <4> QED  BY <1>5, <4>1, Zenon
    <3>2. PICK i \in DOMAIN input'.rules : i = r
      BY <1>1, <1>3
    <3>3. ru = input'.rules[i] /\ ru.head.p = cu.name
      BY <1>0, <1>1, <3>2 DEF rule
    <3>4. cu \in ToSet(queue')
      <4>1. cu \in ToSet(queue)
        BY <1>0, <1>2, Zenon DEF ToSet
      <4> QED  BY <1>4, <4>1
    <3> QED  BY <3>1, <3>3, <3>4, Zenon DEF Origin
  <2> QED  BY <2>1, <2>2
<1>9. result' # "program"
  BY <1>1
<1> QED  BY <1>6, <1>7, <1>8, <1>9, Zenon DEF RewritingInv

\* Every step keeps the invariant.
LEMMA RewritingNext == RewritingInv /\ [MagicNext]_magicVars => RewritingInv'
<1> SUFFICES ASSUME RewritingInv, [MagicNext]_magicVars PROVE RewritingInv'
  OBVIOUS
<1>1. MagicInv /\ MagicInv'
  BY MagicNextInv DEF RewritingInv
<1>2. CASE TransformRule
  BY <1>1, <1>2, TransformKeepsRewriting
<1>3. CASE Fails
  BY <1>1, <1>3 DEF Fails, RewritingInv
<1>4. ASSUME input' = input, queue' = queue, magic_prog' = magic_prog, result # "NULL",
             \A q \in DOMAIN queue, i \in DOMAIN input.rules :
                 DoneWith(q, i)' /\ input.rules[i].head.p = queue[q].name => DoneWith(q, i),
             result' = "program" => processed' = Len(queue')
      PROVE  RewritingInv'
  <2>1. ASSUME NEW q \in DOMAIN queue', NEW i \in DOMAIN input'.rules, DoneWith(q, i)',
               input'.rules[i].head.p = queue'[q].name
        PROVE  Rewritten(q, i)'
    <3>1. q \in DOMAIN queue /\ i \in DOMAIN input.rules /\ input.rules[i].head.p = queue[q].name
      BY <1>4, <2>1
    <3>2. Rewritten(q, i)
      BY <1>4, <2>1, <3>1, Zenon DEF RewritingInv
    <3>3. ToSet(queue) \subseteq ToSet(queue') /\ ToSet(magic_prog) \subseteq ToSet(magic_prog') /\ queue'[q] = queue[q]
      BY <1>4
    <3> QED  BY <1>4, <3>2, <3>3, RewrittenStays
  <2>2. ASSUME NEW new \in ToSet(magic_prog') PROVE Origin(new, ToSet(queue))'
    <3>1. ToSet(queue) \subseteq ToSet(queue') /\ new \in ToSet(magic_prog)
      BY <1>4
    <3>2. Origin(new, ToSet(queue))
      BY <1>4, <3>1, Zenon DEF RewritingInv
    <3> QED  BY <1>4, <3>1, <3>2, OriginStays
  <2>3. Len(queue') >= 1
    BY <1>4 DEF RewritingInv
  <2> QED  BY <1>1, <1>4, <2>1, <2>2, <2>3, Zenon DEF RewritingInv
<1>5. /\ input.rules \in Seq(Rules) /\ DOMAIN input.rules = 1..Len(input.rules) /\ Len(input.rules) \in Nat
      /\ DOMAIN queue = 1..Len(queue) /\ Len(queue) \in Nat /\ processed \in Nat /\ r \in Nat
  <2>1. input.rules \in Seq(Rules)
    BY <1>1, RulesType DEF MagicInv
  <2> QED  BY <1>1, <2>1 DEF MagicInv
<1>6. CASE SkipRule
  <2>1. /\ input' = input /\ queue' = queue /\ magic_prog' = magic_prog /\ result = "none" /\ result' = "none"
        /\ processed' = processed /\ r' = r + 1 /\ input.rules[r].head.p # queue[processed + 1].name
    BY <1>6 DEF SkipRule, Running, OfCurrent, current_pred
  <2>2. ASSUME NEW q \in DOMAIN queue, NEW i \in DOMAIN input.rules, DoneWith(q, i)', input.rules[i].head.p = queue[q].name
        PROVE  DoneWith(q, i)
    <3>1. q <= processed \/ (q = processed + 1 /\ i < r + 1)
      <4>1. processed' = processed /\ r' = r + 1
        BY <2>1
      <4> QED  BY <2>2, <4>1, Zenon DEF DoneWith
    <3>2. ~ (q = processed + 1 /\ i = r)
      BY <2>1, <2>2
    <3> QED  BY <1>5, <3>1, <3>2 DEF DoneWith
  <2> QED  BY <1>4, <2>1, <2>2
<1>7. CASE NextPredicate
  <2>1. /\ input' = input /\ queue' = queue /\ magic_prog' = magic_prog /\ result = "none" /\ result' = "none"
        /\ processed' = processed + 1 /\ r' = 1 /\ r > Len(input.rules)
    BY <1>7 DEF NextPredicate, Running
  <2>2. ASSUME NEW q \in DOMAIN queue, NEW i \in DOMAIN input.rules, DoneWith(q, i)', input.rules[i].head.p = queue[q].name
        PROVE  DoneWith(q, i)
    <3>1. q <= processed + 1 \/ i < 1
      BY <2>1, <2>2 DEF DoneWith
    <3> QED  BY <1>5, <2>1, <3>1 DEF DoneWith
  <2> QED  BY <1>4, <2>1, <2>2
<1>8. CASE Returns
  <2>1. /\ input' = input /\ queue' = queue /\ magic_prog' = magic_prog /\ result = "none" /\ result' = "program"
        /\ processed' = processed /\ r' = r /\ processed = Len(queue)
    BY <1>8 DEF Returns
  <2>2. ASSUME NEW q \in DOMAIN queue, NEW i \in DOMAIN input.rules, DoneWith(q, i)'
        PROVE  DoneWith(q, i)
    BY <2>1, <2>2 DEF DoneWith
  <2> QED  BY <1>4, <2>1, <2>2
<1>9. CASE UNCHANGED magicVars
  <2>1. /\ input' = input /\ queue' = queue /\ magic_prog' = magic_prog /\ result' = result
        /\ processed' = processed /\ r' = r
    BY <1>9 DEF magicVars
  <2>2. ASSUME NEW q \in DOMAIN queue, NEW i \in DOMAIN input.rules, DoneWith(q, i)'
        PROVE  DoneWith(q, i)
    BY <2>1, <2>2 DEF DoneWith
  <2>3. result' = "program" => processed' = Len(queue')
    BY <2>1 DEF RewritingInv
  <2>4. CASE result # "NULL"
    BY <1>4, <2>1, <2>2, <2>3, <2>4
  <2>5. CASE result = "NULL"
    <3>1. result' = "NULL"
      BY <2>1, <2>5
    <3> QED  BY <1>1, <3>1, Zenon DEF RewritingInv
  <2> QED  BY <2>4, <2>5
<1> QED  BY <1>2, <1>3, <1>6, <1>7, <1>8, <1>9 DEF MagicNext, Step
-----------------------------------------------------------------------------
(* Magic sets: what the two programs derive *)

\* The predicate of a magic fact.
LEMMA AskName ==
    ASSUME NEW name, NEW adornment \in Adornments \ {"ff"}, NEW x, NEW y
    PROVE  AskFact(name, adornment, x, y)[2] = MagicName(name, adornment)
<1> DEFINE p == MagicName(name, adornment)
           m == make_magic_fact(name, adornment, x, y)
<1>1. m = CASE adornment = "bf" -> Atom(x, p, TrueValue, FALSE)
            [] adornment = "fb" -> Atom(y, p, TrueValue, FALSE)
            [] adornment = "bb" -> Atom(x, p, y, FALSE)
  BY Zenon DEF make_magic_fact, MagicName
<1>2. AskFact(name, adornment, x, y) = <<m.s, m.p, m.o>>
  BY Zenon DEF AskFact
<1> HIDE DEF p, m
<1>3. adornment \in {"bf", "fb", "bb"}
  BY DEF Adornments
<1>4. m.p = p
  <2>1. CASE adornment = "bf"
    BY <1>1, <2>1 DEF Atom
  <2>2. CASE adornment = "fb"
    BY <1>1, <2>2 DEF Atom
  <2>3. CASE adornment = "bb"
    BY <1>1, <2>3 DEF Atom
  <2> QED  BY <1>3, <2>1, <2>2, <2>3
<1> QED  BY <1>2, <1>4 DEF p

\* A fact of an atom whose predicate is a name of the input.
PlainFact(a, b) == <<Val(a.s, b), Plain(a.p), Val(a.o, b)>>

\* The subgoals of a rule hold.
PlainHold(rule, b, known) ==
    \A k \in 1..Len(rule.body) : (PlainFact(rule.body[k], b) \in known) = ~ rule.body[k].negated

\* The first n subgoals of what a rule becomes hold.
SubgoalsHold(rule, adornment, n, b, known) ==
    \A k \in 1..n : (SubFact(rule, adornment, k, b) \in known) = ~ rule.body[k].negated

\* The head of a rule under an adornment.
HeadFact(rule, adornment, b) ==
    <<Val(rule.head.s, b), AdornedName(rule.head.p, adornment), Val(rule.head.o, b)>>

\* The rules of the input with their predicates as names say the same.
LEMMA NamedFires ==
    ASSUME MagicInv, NEW i \in DOMAIN input.rules, NEW b \in [Var -> Values], NEW known
    PROVE  LET rule == input.rules[i]
               named == Named(input.rules)[i]
           IN  /\ i \in DOMAIN Named(input.rules)
               /\ Fires(named, b, known) <=> PlainHold(rule, b, known)
               /\ Ground(named.head, b) = PlainFact(rule.head, b)
               /\ DOMAIN named.body = 1..Len(rule.body) /\ Len(rule.body) \in Nat
               /\ \A k \in 1..Len(rule.body) : named.body[k].negated \in BOOLEAN
<1> DEFINE rule == input.rules[i]
           N == Len(rule.body)
           head == Subgoal(rule.head, Plain(rule.head.p))
           body == [k \in DOMAIN rule.body |-> Subgoal(rule.body[k], Plain(rule.body[k].p))]
           named == Named(input.rules)[i]
<1>1. rule \in Rules
  BY RulesType DEF MagicInv
<1>2. N \in Nat /\ DOMAIN rule.body = 1..N
  BY <1>1 DEF Rules
<1>3. i \in DOMAIN Named(input.rules) /\ named = [head |-> head, body |-> body]
  BY Zenon DEF Named
<1> HIDE DEF named
<1>4. named.head = head /\ named.body = body
  <2> HIDE DEF head, body
  <2> QED  BY <1>3
<1>5. \A k \in 1..N : rule.body[k].negated \in BOOLEAN
  <2>1. \A k \in 1..N : rule.body[k] \in Atoms
    BY <1>1, <1>2 DEF Rules
  <2>2. \A a \in Atoms : a.negated \in BOOLEAN
    BY DEF Atoms
  <2> HIDE DEF N, rule
  <2> QED  BY <2>1, <2>2, Zenon
<1>6. ASSUME NEW a PROVE /\ Ground(Subgoal(a, Plain(a.p)), b) = PlainFact(a, b)
                         /\ Subgoal(a, Plain(a.p)).negated = a.negated
  <2> DEFINE p == Plain(a.p)
             new == Subgoal(a, p)
  <2>1. new = [s |-> a.s, p |-> p, o |-> a.o, negated |-> a.negated]
    BY Zenon DEF Subgoal, Atom
  <2> HIDE DEF p, new
  <2>2. new.s = a.s /\ new.p = p /\ new.o = a.o /\ new.negated = a.negated
    BY <2>1
  <2>3. Ground(new, b) = PlainFact(a, b)
    BY <2>2, GroundIs, Zenon DEF PlainFact, p
  <2> QED  BY <2>2, <2>3, Zenon DEF new, p
<1>7. Ground(named.head, b) = PlainFact(rule.head, b)
  BY <1>4, <1>6, Zenon
<1>8. ASSUME NEW k \in 1..N
      PROVE  /\ Ground(named.body[k], b) = PlainFact(rule.body[k], b)
             /\ named.body[k].negated = rule.body[k].negated
  <2>1. named.body[k] = Subgoal(rule.body[k], Plain(rule.body[k].p))
    BY <1>2, <1>4, Zenon
  <2> QED  BY <1>6, <2>1, Zenon
<1>9. DOMAIN named.body = 1..N
  BY <1>2, <1>4, Zenon
<1>10. Fires(named, b, known) <=> PlainHold(rule, b, known)
  BY <1>8, <1>9, Zenon DEF Fires, PlainHold
<1>11. \A k \in 1..N : named.body[k].negated \in BOOLEAN
  BY <1>5, <1>8, Zenon
<1> QED  BY <1>2, <1>3, <1>7, <1>9, <1>10, <1>11, Zenon DEF named

\* What the original program derives.
Original == Model(Named(input.rules), Stored)

\* What the original program derives in a round.
LEMMA OriginalDerives ==
    ASSUME MagicInv, NEW known, NEW g \in Consequences(Named(input.rules), known)
    PROVE  \E i \in DOMAIN input.rules : \E b \in [Var -> Values] :
              PlainHold(input.rules[i], b, known) /\ g = PlainFact(input.rules[i].head, b)
<1> DEFINE rules == Named(input.rules)
<1>1. DOMAIN rules = DOMAIN input.rules
  BY Zenon DEF Named
<1> HIDE DEF rules
<1>2. PICK i \in DOMAIN rules, b \in [Var -> Values] : Fires(rules[i], b, known) /\ g = Ground(rules[i].head, b)
  <2>1. g \in Consequences(rules, known)
    BY DEF rules
  <2> QED  BY <2>1, ConsequencesAre
<1>3. i \in DOMAIN input.rules
  BY <1>1, <1>2
<1>4. PlainHold(input.rules[i], b, known) /\ g = PlainFact(input.rules[i].head, b)
  BY <1>2, <1>3, NamedFires, Zenon DEF rules
<1> QED  BY <1>3, <1>4, Zenon

\* The head of a rule whose body holds in the original model is there.
LEMMA OriginalClosed ==
    ASSUME Rounds = Nat, MagicInv, NEW i \in DOMAIN input.rules, NEW b \in [Var -> Values],
           PlainHold(input.rules[i], b, Original)
    PROVE  PlainFact(input.rules[i].head, b) \in Original
<1> DEFINE rules == Named(input.rules)
           N == Len(input.rules[i].body)
<1>1. /\ i \in DOMAIN rules
      /\ Fires(rules[i], b, Original) <=> PlainHold(input.rules[i], b, Original)
      /\ Ground(rules[i].head, b) = PlainFact(input.rules[i].head, b)
      /\ DOMAIN rules[i].body = 1..N /\ N \in Nat
      /\ \A k \in 1..N : rules[i].body[k].negated \in BOOLEAN
  BY NamedFires, Zenon
<1>2. PICK facts : facts = Stored
  OBVIOUS
<1>3. Original = Model(rules, facts)
  BY <1>2, Zenon DEF Original
<1> HIDE DEF rules, N
<1>4. PICK M \in Nat : M = N
  BY <1>1
<1>5. Fires(rules[i], b, Model(rules, facts))
  BY <1>1, <1>3, Zenon
<1>6. DOMAIN rules[i].body = 1..M /\ \A k \in 1..M : rules[i].body[k].negated \in BOOLEAN
  BY <1>1, <1>4, Zenon
<1>7. Ground(rules[i].head, b) \in Model(rules, facts)
  BY <1>1, <1>5, <1>6, ModelClosed
<1> QED  BY <1>1, <1>3, <1>7, Zenon

\* What the rewritten program derives, its magic facts included.
Asking == Model(magic_prog, Stored \union Seed)

\* What the rewritten program derives in a round: a fact that its rule and the
\* magic fact of its head give, or a magic fact.
LEMMA RewrittenDerives ==
    ASSUME RewritingInv, result = "program", NEW known, NEW g \in Consequences(magic_prog, known)
    PROVE  \/ \E i \in DOMAIN input.rules : \E current \in Adorned : \E b \in [Var -> Values] :
                 LET rule == input.rules[i]
                 IN  /\ rule.head.p = current.name
                     /\ g = HeadFact(rule, current.adornment, b)
                     /\ Asked(current, g[1], g[3], known)
                     /\ SubgoalsHold(rule, current.adornment, Len(rule.body), b, known)
           \/ \E name, adornment : g[2] = MagicName(name, adornment)
<1>1. PICK n \in DOMAIN magic_prog, b \in [Var -> Values] :
          Fires(magic_prog[n], b, known) /\ g = Ground(magic_prog[n].head, b)
  <2>1. PICK rules : rules = magic_prog
    OBVIOUS
  <2>2. g \in Consequences(rules, known)
    BY <2>1
  <2>3. \E n \in DOMAIN rules : \E b \in [Var -> Values] : Fires(rules[n], b, known) /\ g = Ground(rules[n].head, b)
    BY <2>2, ConsequencesAre
  <2> QED  BY <2>1, <2>3, Zenon
<1>2. PICK new : new = magic_prog[n]
  OBVIOUS
<1>3. MagicInv /\ Origin(new, ToSet(queue))
  <2>1. new \in ToSet(magic_prog)
    BY <1>2, Zenon DEF ToSet
  <2>2. result # "NULL"
    OBVIOUS
  <2> QED  BY <2>1, <2>2, Zenon DEF RewritingInv
<1>4. PICK i \in DOMAIN input.rules, current \in ToSet(queue) :
          /\ input.rules[i].head.p = current.name
          /\ \/ new = RewrittenRule(input.rules[i], current)
             \/ \E j \in 1..Len(input.rules[i].body) :
                   AsksFor(input.rules[i], current, j) /\ new = MagicRule(input.rules[i], current, j)
  BY <1>3, Zenon DEF Origin
<1>5. PICK ru \in Rules : ru = input.rules[i]
  BY <1>3, RulesType DEF MagicInv
<1>6. current \in Adorned
  <2>1. queue \in Seq(Adorned)
    BY <1>3 DEF MagicInv
  <2>2. \A n1 \in DOMAIN queue : queue[n1] \in Adorned
    BY <2>1
  <2> QED  BY <2>2, Zenon DEF ToSet
<1>7. Fires(new, b, known) /\ g = Ground(new.head, b)
  BY <1>1, <1>2
<1>8. Len(ru.body) \in Nat
  BY DEF Rules
<1>9. CASE new = RewrittenRule(ru, current)
  <2>1. PICK N \in 0..Len(ru.body) : N = Len(ru.body)
    BY <1>8
  <2> DEFINE head == Subgoal(ru.head, AdornedName(current.name, current.adornment))
             body == Prefix(ru, current, N)
  <2>2. new = [head |-> head, body |-> body]
    BY <1>9, <2>1, Zenon DEF RewrittenRule, AdornedName
  <2> HIDE DEF head, body
  <2>3. new.head = head /\ new.body = body
    BY <2>2
  <2>4. g = HeadFact(ru, current.adornment, b)
    <3>1. head = [s |-> ru.head.s, p |-> AdornedName(ru.head.p, current.adornment), o |-> ru.head.o,
                 negated |-> ru.head.negated]
      BY <1>4, <1>5, Zenon DEF head, Subgoal, Atom
    <3>2. head.s = ru.head.s /\ head.p = AdornedName(ru.head.p, current.adornment) /\ head.o = ru.head.o
      BY <3>1
    <3> QED  BY <1>7, <2>3, <3>2, GroundIs, Zenon DEF HeadFact
  <2>5. /\ Asked(current, Val(ru.head.s, b), Val(ru.head.o, b), known)
        /\ SubgoalsHold(ru, current.adornment, N, b, known)
    <3>1. new.body = Prefix(ru, current, N)
      BY <2>3 DEF body
    <3>2. Fires(new, b, known) <=>
                 /\ Asked(current, Val(ru.head.s, b), Val(ru.head.o, b), known)
                 /\ \A k \in 1..N : (SubFact(ru, current.adornment, k, b) \in known) = ~ ru.body[k].negated
      BY <1>6, <3>1, PrefixFires
    <3> QED  BY <1>7, <3>2, Zenon DEF SubgoalsHold
  <2>6. g[1] = Val(ru.head.s, b) /\ g[3] = Val(ru.head.o, b)
    BY <2>4 DEF HeadFact
  <2>7. /\ input.rules[i].head.p = current.name
        /\ g = HeadFact(input.rules[i], current.adornment, b)
        /\ Asked(current, g[1], g[3], known)
        /\ SubgoalsHold(input.rules[i], current.adornment, Len(input.rules[i].body), b, known)
    BY <1>4, <1>5, <2>1, <2>4, <2>5, <2>6, Zenon
  <2> QED  BY <1>6, <2>7, Zenon
<1>10. ASSUME NEW j \in 1..Len(ru.body), AsksFor(ru, current, j), new = MagicRule(ru, current, j)
       PROVE  \E name, adornment : g[2] = MagicName(name, adornment)
  <2> DEFINE a == ru.body[j]
  <2>1. PICK ad \in Adornments \ {"ff"} : ad = SubAdornment(ru, current.adornment, j)
    <3>1. SubAdornment(ru, current.adornment, j) \in Adornments
      BY AdornmentType DEF SubAdornment
    <3> QED  BY <1>10, <3>1 DEF AsksFor
  <2>2. PICK s \in Var \union Values, o \in Var \union Values, name \in Predicates : s = a.s /\ o = a.o /\ name = a.p
    <3>1. ru.body[j] \in Atoms
      BY DEF Rules
    <3>2. a.s \in Var \union Values /\ a.o \in Var \union Values /\ a.p \in Predicates
      BY <3>1 DEF Atoms
    <3> HIDE DEF a
    <3> QED  BY <3>2
  <2> DEFINE head == make_magic_fact(name, ad, s, o)
             body == Prefix(ru, current, j - 1)
  <2>3. new = [head |-> head, body |-> body]
    BY <1>10, <2>1, <2>2, Zenon DEF MagicRule
  <2> HIDE DEF head, body
  <2>4. new.head = head
    BY <2>3
  <2>5. /\ Ground(make_magic_fact(name, ad, s, o), b) = AskFact(name, ad, Val(s, b), Val(o, b))
        /\ AskFact(name, ad, Val(s, b), Val(o, b))[2] = MagicName(name, ad)
    BY GroundMagic
  <2> QED  BY <1>7, <2>4, <2>5, Zenon DEF head
<1> QED  BY <1>4, <1>5, <1>9, <1>10

\* The head of a rewritten or magic rule whose body holds in the model is there.
LEMMA AskingClosed ==
    ASSUME Rounds = Nat, MagicInv, NEW new \in ToSet(magic_prog), NEW b \in [Var -> Values],
           Fires(new, b, Asking)
    PROVE  Ground(new.head, b) \in Asking
<1>1. PICK n \in DOMAIN magic_prog : magic_prog[n] = new
  BY Zenon DEF ToSet
<1>2. new \in SafeRules
  BY <1>1 DEF MagicInv
<1>3. new.body \in Seq(NewAtoms)
  BY <1>2 DEF SafeRules
<1>4. PICK N \in Nat : DOMAIN new.body = 1..N /\ \A k \in 1..N : new.body[k] \in NewAtoms
  <2>1. PICK body \in Seq(NewAtoms) : body = new.body
    BY <1>3
  <2>2. Len(body) \in Nat /\ DOMAIN body = 1..Len(body) /\ \A k \in 1..Len(body) : body[k] \in NewAtoms
    OBVIOUS
  <2> QED  BY <2>1, <2>2
<1>5. \A k \in 1..N : new.body[k].negated \in BOOLEAN
  <2>1. \A a \in NewAtoms : a.negated \in BOOLEAN
    BY DEF NewAtoms
  <2> QED  BY <1>4, <2>1
<1>6. PICK rules, facts : rules = magic_prog /\ facts = Stored \union Seed
  OBVIOUS
<1>7. Asking = Model(rules, facts)
  BY <1>6, Zenon DEF Asking
<1>8. n \in DOMAIN rules /\ rules[n] = new
  BY <1>1, <1>6
<1>9. Ground(rules[n].head, b) \in Model(rules, facts)
  <2>1. DOMAIN rules[n].body = 1..N /\ \A k \in 1..N : rules[n].body[k].negated \in BOOLEAN
    BY <1>4, <1>5, <1>8, Zenon
  <2>2. Fires(rules[n], b, Model(rules, facts))
    BY <1>7, <1>8, Zenon
  <2> QED  BY <1>8, <2>1, <2>2, ModelClosed
<1> QED  BY <1>7, <1>8, <1>9, Zenon

\* The rewritten rules of a queued predicate derive what is asked for.
LEMMA AskingHead ==
    ASSUME Rounds = Nat, RewritingInv, result = "program", NEW i \in DOMAIN input.rules, NEW current \in ToSet(queue),
           input.rules[i].head.p = current.name, NEW b \in [Var -> Values],
           Asked(current, Val(input.rules[i].head.s, b), Val(input.rules[i].head.o, b), Asking),
           SubgoalsHold(input.rules[i], current.adornment, Len(input.rules[i].body), b, Asking)
    PROVE  HeadFact(input.rules[i], current.adornment, b) \in Asking
<1>1. PICK q \in DOMAIN queue : queue[q] = current
  BY Zenon DEF ToSet
<1>2. MagicInv /\ result # "NULL" /\ processed = Len(queue)
  BY DEF RewritingInv
<1>3. DoneWith(q, i)
  <2>1. q <= Len(queue)
    BY <1>2 DEF MagicInv
  <2> QED  BY <1>2, <2>1 DEF DoneWith
<1>4. Rewritten(q, i)
  BY <1>1, <1>2, <1>3, Zenon DEF RewritingInv
<1>5. PICK ru \in Rules : ru = input.rules[i]
  BY <1>2, RulesType DEF MagicInv
<1>6. RewrittenRule(ru, current) \in ToSet(magic_prog)
  BY <1>1, <1>4, <1>5, Zenon DEF Rewritten
<1>7. PICK new : new = RewrittenRule(ru, current)
  OBVIOUS
<1>8. PICK N \in 0..Len(ru.body) : N = Len(ru.body)
  <2>1. Len(ru.body) \in Nat
    BY DEF Rules
  <2> QED  BY <2>1
<1> DEFINE head == Subgoal(ru.head, AdornedName(ru.head.p, current.adornment))
           body == Prefix(ru, current, N)
<1>9. new = [head |-> head, body |-> body]
  BY <1>5, <1>7, <1>8, Zenon DEF RewrittenRule, AdornedName
<1> HIDE DEF head, body
<1>10. new.head = head /\ new.body = body
  BY <1>9
<1>11. current \in Adorned
  BY <1>1, <1>2 DEF MagicInv
<1>12. Fires(new, b, Asking)
  <2>1. new.body = Prefix(ru, current, N)
    BY <1>10 DEF body
  <2>2. PICK known : known = Asking
    OBVIOUS
  <2>3. Fires(new, b, known) <=>
              /\ Asked(current, Val(ru.head.s, b), Val(ru.head.o, b), known)
              /\ \A k \in 1..N : (SubFact(ru, current.adornment, k, b) \in known) = ~ ru.body[k].negated
    BY <1>11, <2>1, PrefixFires
  <2>4. Asked(current, Val(ru.head.s, b), Val(ru.head.o, b), known)
    BY <1>5, <2>2, Zenon
  <2>5. \A k \in 1..N : (SubFact(ru, current.adornment, k, b) \in known) = ~ ru.body[k].negated
    BY <1>5, <1>8, <2>2, Zenon DEF SubgoalsHold
  <2> QED  BY <2>2, <2>3, <2>4, <2>5, Zenon
<1>13. Ground(new.head, b) \in Asking
  BY <1>2, <1>6, <1>7, <1>12, AskingClosed
<1>14. Ground(new.head, b) = HeadFact(ru, current.adornment, b)
  <2>1. head = [s |-> ru.head.s, p |-> AdornedName(ru.head.p, current.adornment), o |-> ru.head.o,
                 negated |-> ru.head.negated]
    BY Zenon DEF head, Subgoal, Atom
  <2>2. head.s = ru.head.s /\ head.p = AdornedName(ru.head.p, current.adornment) /\ head.o = ru.head.o
    BY <2>1
  <2> QED  BY <1>10, <2>2, GroundIs, Zenon DEF HeadFact
<1> QED  BY <1>5, <1>13, <1>14, Zenon

\* A subgoal that is derived is asked for when those before it hold.
LEMMA AskingAsks ==
    ASSUME Rounds = Nat, RewritingInv, result = "program", NEW i \in DOMAIN input.rules, NEW current \in ToSet(queue),
           input.rules[i].head.p = current.name, NEW b \in [Var -> Values],
           Asked(current, Val(input.rules[i].head.s, b), Val(input.rules[i].head.o, b), Asking),
           NEW j \in 1..Len(input.rules[i].body), is_idb_predicate(input.rules[i].body[j].p),
           SubgoalsHold(input.rules[i], current.adornment, j - 1, b, Asking)
    PROVE  LET rule == input.rules[i]
               entry == Entry(rule, current, j)
           IN  /\ entry \in ToSet(queue)
               /\ Asked(entry, Val(rule.body[j].s, b), Val(rule.body[j].o, b), Asking)
<1>1. PICK q \in DOMAIN queue : queue[q] = current
  BY Zenon DEF ToSet
<1>2. MagicInv /\ result # "NULL" /\ processed = Len(queue)
  BY DEF RewritingInv
<1>3. DoneWith(q, i)
  <2>1. q <= Len(queue)
    BY <1>2 DEF MagicInv
  <2> QED  BY <1>2, <2>1 DEF DoneWith
<1>4. Rewritten(q, i)
  BY <1>1, <1>2, <1>3, Zenon DEF RewritingInv
<1>5. PICK ru \in Rules : ru = input.rules[i]
  BY <1>2, RulesType DEF MagicInv
<1> DEFINE a == ru.body[j]
           entry == Entry(ru, current, j)
<1>6. entry \in ToSet(queue) /\ (AsksFor(ru, current, j) => MagicRule(ru, current, j) \in ToSet(magic_prog))
  BY <1>1, <1>4, <1>5, Zenon DEF Rewritten, Covered
<1>7. PICK ad \in Adornments : ad = SubAdornment(ru, current.adornment, j)
  BY AdornmentType DEF SubAdornment
<1>8. entry = [name |-> a.p, adornment |-> ad]
  BY <1>7, Zenon DEF Entry
<1> HIDE DEF a, entry
<1>9. entry.name = a.p /\ entry.adornment = ad
  BY <1>8
<1>10. CASE ad = "ff"
  <2>1. Asked(entry, Val(a.s, b), Val(a.o, b), Asking)
    BY <1>9, <1>10, Zenon DEF Asked
  <2> QED  BY <1>5, <1>6, <2>1, Zenon DEF a, entry
<1>11. CASE ad # "ff"
  <2>1. AsksFor(ru, current, j)
    BY <1>5, <1>7, <1>11, Zenon DEF AsksFor
  <2>2. PICK new : new = MagicRule(ru, current, j)
    OBVIOUS
  <2>3. PICK s \in Var \union Values, o \in Var \union Values, name \in Predicates : s = a.s /\ o = a.o /\ name = a.p
    <3>1. ru.body[j] \in Atoms
      BY <1>5 DEF Rules
    <3>2. a.s \in Var \union Values /\ a.o \in Var \union Values /\ a.p \in Predicates
      BY <3>1 DEF Atoms, a
    <3> QED  BY <3>2
  <2> DEFINE head == make_magic_fact(name, ad, s, o)
             body == Prefix(ru, current, j - 1)
  <2>4. new = [head |-> head, body |-> body]
    BY <1>7, <2>2, <2>3, Zenon DEF MagicRule, a
  <2> HIDE DEF head, body
  <2>5. new.head = head /\ new.body = body
    BY <2>4
  <2>6. current \in Adorned
    BY <1>1, <1>2 DEF MagicInv
  <2>7. PICK N \in 0..Len(ru.body) : N = j - 1
    <3>1. Len(ru.body) \in Nat
      BY DEF Rules
    <3> QED  BY <1>5, <3>1
  <2>8. Fires(new, b, Asking)
    <3>1. new.body = Prefix(ru, current, N)
      BY <2>5, <2>7 DEF body
    <3>2. PICK known : known = Asking
      OBVIOUS
    <3>3. Fires(new, b, known) <=>
                /\ Asked(current, Val(ru.head.s, b), Val(ru.head.o, b), known)
                /\ \A k \in 1..N : (SubFact(ru, current.adornment, k, b) \in known) = ~ ru.body[k].negated
      BY <2>6, <3>1, PrefixFires
    <3>4. Asked(current, Val(ru.head.s, b), Val(ru.head.o, b), known)
      BY <1>5, <3>2, Zenon
    <3>5. \A k \in 1..N : (SubFact(ru, current.adornment, k, b) \in known) = ~ ru.body[k].negated
      BY <1>5, <2>7, <3>2, Zenon DEF SubgoalsHold
    <3> QED  BY <3>2, <3>3, <3>4, <3>5, Zenon
  <2>9. Ground(new.head, b) \in Asking
    BY <1>2, <1>6, <2>1, <2>2, <2>8, AskingClosed
  <2>10. Ground(new.head, b) = AskFact(name, ad, Val(s, b), Val(o, b))
    <3>1. ad \in Adornments \ {"ff"}
      BY <1>11
    <3>2. Ground(make_magic_fact(name, ad, s, o), b) = AskFact(name, ad, Val(s, b), Val(o, b))
      <4> HIDE DEF a, entry
      <4> QED  BY <3>1, GroundMagic
    <3> QED  BY <2>5, <3>2, Zenon DEF head
  <2>11. Asked(entry, Val(a.s, b), Val(a.o, b), Asking)
    BY <1>9, <2>3, <2>9, <2>10, Zenon DEF Asked
  <2> QED  BY <1>5, <1>6, <2>11, Zenon DEF a, entry
<1> QED  BY <1>10, <1>11

\* What is stored has a predicate without rules.
LEMMA StoredNames ==
    ASSUME Separate, MagicInv, NEW g \in Stored
    PROVE  \E name : g[2] = Plain(name) /\ ~ is_idb_predicate(name)
<1>1. PICK f \in input.facts : g = <<f[1], Plain(f[2]), f[3]>>
  BY DEF Stored
<1>2. g[2] = Plain(f[2])
  BY <1>1
<1>3. f[2] \notin {input.rules[n].head.p : n \in DOMAIN input.rules}
  BY Zenon DEF Separate, MagicInv
<1>4. ~ is_idb_predicate(f[2])
  BY <1>3, Zenon DEF is_idb_predicate
<1> QED  BY <1>2, <1>4, Zenon

\* The seed is a magic fact.
LEMMA SeedNames ==
    ASSUME RewritingInv, result = "program", NEW g \in Seed
    PROVE  \E name, adornment : g[2] = MagicName(name, adornment)
<1> DEFINE goal == input.goal
<1>1. MagicInv /\ Len(queue) >= 1
  BY DEF RewritingInv
<1>2. queue[1] \in Adorned
  BY <1>1 DEF MagicInv
<1>3. queue[1].adornment \in Adornments
  BY <1>2 DEF Adorned
<1>4. /\ queue[1].adornment # "ff"
      /\ g = AskFact(goal.p, queue[1].adornment, goal.s, goal.o)
  BY Zenon DEF Seed, AskFact
<1>5. PICK ad \in Adornments \ {"ff"} : ad = queue[1].adornment
  BY <1>3, <1>4
<1>6. AskFact(goal.p, ad, goal.s, goal.o)[2] = MagicName(goal.p, ad)
  BY AskName
<1> QED  BY <1>4, <1>5, <1>6, Zenon

\* A negated subgoal is about a stored predicate.
LEMMA NegatedIsStored ==
    ASSUME Separate, MagicInv, NEW i \in DOMAIN input.rules, NEW k \in DOMAIN input.rules[i].body,
           input.rules[i].body[k].negated
    PROVE  ~ is_idb_predicate(input.rules[i].body[k].p)
<1>1. input.rules[i].body[k].p \notin {input.rules[n].head.p : n \in DOMAIN input.rules}
  BY Zenon DEF Separate, MagicInv
<1> QED  BY <1>1, Zenon DEF is_idb_predicate

\* What the rewritten program has under a plain name is stored: it derives no such
\* name, so a stored fact of a predicate with rules would be lost to it.
LEMMA AskingPlain ==
    ASSUME Rounds = Nat, RewritingInv, result = "program", NEW g \in Asking, NEW name, g[2] = Plain(name)
    PROVE  g \in Stored
<1> DEFINE S == {h \in Asking : \A p : h[2] = Plain(p) => h \in Stored}
<1>1. PICK rules, facts : rules = magic_prog /\ facts = Stored \union Seed
  OBVIOUS
<1>2. Asking = Model(rules, facts)
  BY <1>1, Zenon DEF Asking
<1>3. facts \subseteq S
  <2> SUFFICES ASSUME NEW h \in facts, NEW p, h[2] = Plain(p), h \notin Stored PROVE FALSE
    <3>1. facts \subseteq Asking
      BY <1>2, ModelHasFacts
    <3> QED  BY <3>1
  <2>1. PICK n, a : h[2] = MagicName(n, a)
    BY <1>1, SeedNames
  <2>2. Plain(p) # MagicName(n, a)
    <3> HIDE DEF S
    <3> QED  BY PlainDiffers
  <2> QED  BY <2>1, <2>2
<1>4. ASSUME NEW known, Consequences(rules, known) \subseteq Model(rules, facts)
      PROVE  Consequences(rules, known) \subseteq S
  <2> SUFFICES ASSUME NEW h \in Consequences(rules, known), NEW p, h[2] = Plain(p) PROVE FALSE
    BY <1>2, <1>4
  <2>1. h \in Consequences(magic_prog, known)
    BY <1>1
  <2>2. CASE \E n, a : h[2] = MagicName(n, a)
    <3>1. PICK n, a : h[2] = MagicName(n, a)
      BY <2>2
    <3>2. Plain(p) # MagicName(n, a)
      <4> HIDE DEF S
      <4> QED  BY PlainDiffers
    <3> QED  BY <3>1, <3>2
  <2>3. CASE ~ \E n, a : h[2] = MagicName(n, a)
    <3>1. PICK i \in DOMAIN input.rules, current \in Adorned, b \in [Var -> Values] :
              h = HeadFact(input.rules[i], current.adornment, b)
      BY <2>1, <2>3, RewrittenDerives, Zenon
    <3>2. h[2] = AdornedName(input.rules[i].head.p, current.adornment)
      BY <3>1 DEF HeadFact
    <3>3. PICK ad \in Adornments : ad = current.adornment
      BY DEF Adorned
    <3>4. Plain(p) # AdornedName(input.rules[i].head.p, ad)
      BY NamesDiffer
    <3> QED  BY <3>2, <3>3, <3>4
  <2> QED  BY <2>2, <2>3
<1> HIDE DEF S
<1>5. Model(rules, facts) \subseteq S
  BY <1>3, <1>4, ModelLeast
<1> QED  BY <1>2, <1>5, Zenon DEF S

\* What the original program has of a predicate without rules is stored.
LEMMA OriginalPlain ==
    ASSUME Rounds = Nat, MagicInv, NEW g \in Original, NEW name, g[2] = Plain(name), ~ is_idb_predicate(name)
    PROVE  g \in Stored
<1> DEFINE S == {h \in Original : \A p : h[2] = Plain(p) /\ ~ is_idb_predicate(p) => h \in Stored}
<1>1. PICK rules, facts : rules = Named(input.rules) /\ facts = Stored
  OBVIOUS
<1>2. Original = Model(rules, facts)
  BY <1>1, Zenon DEF Original
<1>3. facts \subseteq S
  <2>1. facts \subseteq Original
    BY <1>2, ModelHasFacts
  <2> QED  BY <1>1, <2>1
<1>4. ASSUME NEW known, Consequences(rules, known) \subseteq Model(rules, facts)
      PROVE  Consequences(rules, known) \subseteq S
  <2> SUFFICES ASSUME NEW h \in Consequences(rules, known), NEW p, h[2] = Plain(p) PROVE is_idb_predicate(p)
    BY <1>2, <1>4
  <2>1. h \in Consequences(Named(input.rules), known)
    BY <1>1
  <2>2. PICK i \in DOMAIN input.rules, b \in [Var -> Values] :
            PlainHold(input.rules[i], b, known) /\ h = PlainFact(input.rules[i].head, b)
    BY <2>1, OriginalDerives
  <2>3. h[2] = Plain(input.rules[i].head.p)
    BY <2>2 DEF PlainFact
  <2>4. p = input.rules[i].head.p
    <3>1. "bb" \in Adornments
      BY DEF Adornments
    <3>2. Plain(p) = Plain(input.rules[i].head.p) => p = input.rules[i].head.p
      BY <3>1, NamesDiffer, Zenon
    <3> QED  BY <2>3, <3>2
  <2> QED  BY <2>4, Zenon DEF is_idb_predicate
<1> HIDE DEF S
<1>5. Model(rules, facts) \subseteq S
  BY <1>3, <1>4, ModelLeast
<1> QED  BY <1>2, <1>5, Zenon DEF S

\* An adorned name tells its predicate and its adornment.
LEMMA SameName ==
    ASSUME NEW p, NEW q, NEW a, NEW d, AdornedName(p, a) = AdornedName(q, d) PROVE p = q /\ a = d
<1>1. \A x, y, z, u, v, w : <<x, y, z>> = <<u, v, w>> => x = u /\ y = v /\ z = w
  BY SMT
<1> QED  BY <1>1, Zenon DEF AdornedName, format_name

\* What a subgoal says, by whether its predicate is derived.
LEMMA SubFactIs ==
    ASSUME NEW rule, NEW adornment, NEW k, NEW b
    PROVE  /\ ~ is_idb_predicate(rule.body[k].p) => SubFact(rule, adornment, k, b) = PlainFact(rule.body[k], b)
           /\ is_idb_predicate(rule.body[k].p) =>
                 SubFact(rule, adornment, k, b)
                    = <<Val(rule.body[k].s, b), AdornedName(rule.body[k].p, SubAdornment(rule, adornment, k)),
                        Val(rule.body[k].o, b)>>
<1>1. ~ is_idb_predicate(rule.body[k].p) => SubName(rule, adornment, k) = Plain(rule.body[k].p)
  BY Zenon DEF SubName
<1>2. is_idb_predicate(rule.body[k].p) =>
          SubName(rule, adornment, k) = AdornedName(rule.body[k].p, SubAdornment(rule, adornment, k))
  BY Zenon DEF SubName
<1> QED  BY <1>1, <1>2, Zenon DEF SubFact, PlainFact

\* The rewritten program derives only what the original one does, and only what
\* is asked for.
LEMMA AskingSound ==
    ASSUME Rounds = Nat, Separate, RewritingInv, result = "program",
           NEW g \in Asking, NEW current \in Adorned, g[2] = AdornedName(current.name, current.adornment)
    PROVE  <<g[1], Plain(current.name), g[3]>> \in Original /\ Asked(current, g[1], g[3], Asking)
<1> DEFINE Good(h) == \A c \in Adorned : h[2] = AdornedName(c.name, c.adornment) =>
                          <<h[1], Plain(c.name), h[3]>> \in Original /\ Asked(c, h[1], h[3], Asking)
           S == {h \in Asking : Good(h)}
<1>0. \A c \in Adorned : c.adornment \in Adornments
  BY DEF Adorned
<1>1. PICK rules, facts : rules = magic_prog /\ facts = Stored \union Seed
  OBVIOUS
<1>2. Asking = Model(rules, facts)
  BY <1>1, Zenon DEF Asking
<1>3. MagicInv
  BY DEF RewritingInv
<1>4. facts \subseteq S
  <2> SUFFICES ASSUME NEW h \in facts, NEW c \in Adorned, h[2] = AdornedName(c.name, c.adornment) PROVE FALSE
    <3>1. facts \subseteq Asking
      BY <1>2, ModelHasFacts
    <3> QED  BY <3>1
  <2>1. PICK ad \in Adornments : ad = c.adornment
    BY <1>0
  <2>2. CASE h \in Stored
    <3>1. PICK n : h[2] = Plain(n)
      BY <1>3, <2>2, StoredNames
    <3>2. Plain(n) # AdornedName(c.name, ad)
      BY NamesDiffer
    <3> QED  BY <2>1, <3>1, <3>2
  <2>3. CASE h \in Seed
    <3>1. PICK n, a : h[2] = MagicName(n, a)
      BY <2>3, SeedNames
    <3>2. MagicName(n, a) # AdornedName(c.name, ad)
      BY NamesDiffer
    <3> QED  BY <2>1, <3>1, <3>2
  <2> QED  BY <1>1, <2>2, <2>3
<1>5. ASSUME NEW known, facts \subseteq known, known \subseteq S, Consequences(rules, known) \subseteq Model(rules, facts)
      PROVE  Consequences(rules, known) \subseteq S
  <2> SUFFICES ASSUME NEW h \in Consequences(rules, known), NEW c \in Adorned, h[2] = AdornedName(c.name, c.adornment)
               PROVE  <<h[1], Plain(c.name), h[3]>> \in Original /\ Asked(c, h[1], h[3], Asking)
    BY <1>2, <1>5
  <2>0. known \subseteq Asking /\ \A x \in known : Good(x)
    BY <1>5
  <2> HIDE DEF S, Good
  <2>1. h \in Consequences(magic_prog, known)
    BY <1>1
  <2>2. PICK ad \in Adornments : ad = c.adornment
    BY <1>0
  <2>3. ~ \E n, a : h[2] = MagicName(n, a)
    <3> SUFFICES ASSUME NEW n, NEW a, h[2] = MagicName(n, a) PROVE FALSE
      OBVIOUS
    <3>1. MagicName(n, a) # AdornedName(c.name, ad)
      BY NamesDiffer
    <3> QED  BY <2>2, <3>1
  <2>4. PICK i \in DOMAIN input.rules, d \in Adorned, b \in [Var -> Values] :
            LET rule == input.rules[i]
            IN  /\ rule.head.p = d.name
                /\ h = HeadFact(rule, d.adornment, b)
                /\ Asked(d, h[1], h[3], known)
                /\ SubgoalsHold(rule, d.adornment, Len(rule.body), b, known)
    BY <2>1, <2>3, RewrittenDerives, Zenon
  <2>5. PICK ru \in Rules : ru = input.rules[i]
    BY <1>3, RulesType DEF MagicInv
  <2>6. /\ ru.head.p = d.name
        /\ h = HeadFact(ru, d.adornment, b)
        /\ Asked(d, h[1], h[3], known)
        /\ SubgoalsHold(ru, d.adornment, Len(ru.body), b, known)
    BY <2>4, <2>5, Zenon
  <2>7. h[1] = Val(ru.head.s, b) /\ h[2] = AdornedName(ru.head.p, d.adornment) /\ h[3] = Val(ru.head.o, b)
    BY <2>6 DEF HeadFact
  <2>8. c.name = d.name /\ c.adornment = d.adornment
    <3>1. PICK e \in Adornments : e = d.adornment
      BY <1>0
    <3>2. c.name = ru.head.p /\ ad = e
      <4>1. PICK p, q : p = c.name /\ q = ru.head.p
        OBVIOUS
      <4>2. AdornedName(p, ad) = AdornedName(q, e)
        BY <2>2, <2>7, <3>1, <4>1
      <4>3. p = q /\ ad = e
        BY <4>2, SameName
      <4> QED  BY <4>1, <4>3
    <3> QED  BY <2>2, <2>6, <2>7, <3>1, <3>2
  <2>9. Asked(c, h[1], h[3], Asking)
    BY <2>0, <2>6, <2>8, Zenon DEF Asked
  <2>10. PICK N \in Nat : N = Len(ru.body) /\ DOMAIN ru.body = 1..N /\ \A k \in 1..N : ru.body[k] \in Atoms
    BY DEF Rules
  <2>11. ASSUME NEW k \in 1..N
         PROVE  (PlainFact(ru.body[k], b) \in Original) = ~ ru.body[k].negated
    <3> DEFINE a == ru.body[k]
               sub == SubFact(ru, d.adornment, k, b)
    <3>1. (sub \in known) = ~ a.negated
      BY <2>6, <2>10, Zenon DEF SubgoalsHold
    <3>2. /\ ~ is_idb_predicate(a.p) => sub = PlainFact(a, b)
          /\ is_idb_predicate(a.p) =>
                sub = <<Val(a.s, b), AdornedName(a.p, SubAdornment(ru, d.adornment, k)), Val(a.o, b)>>
      BY SubFactIs
    <3>3. a \in Atoms
      BY <2>10
    <3>4. a.negated \in BOOLEAN /\ a.p \in Predicates
      BY <3>3 DEF Atoms
    <3>5. a.negated => ~ is_idb_predicate(a.p)
      <4>1. k \in DOMAIN input.rules[i].body
        BY <2>5, <2>10
      <4>2. input.rules[i].body[k].negated => ~ is_idb_predicate(input.rules[i].body[k].p)
        BY <1>3, <4>1, NegatedIsStored
      <4> QED  BY <2>5, <4>2, Zenon
    <3>6. PlainFact(a, b)[2] = Plain(a.p)
      BY DEF PlainFact
    <3> HIDE DEF a, sub
    <3>7. CASE is_idb_predicate(a.p)
      <4>1. a.negated = FALSE /\ sub \in known
        BY <3>1, <3>4, <3>5, <3>7
      <4>2. PICK e \in Adornments : e = SubAdornment(ru, d.adornment, k)
        BY AdornmentType DEF SubAdornment
      <4>3. sub = <<Val(a.s, b), AdornedName(a.p, e), Val(a.o, b)>>
        BY <3>2, <3>7, <4>2
      <4>4. PICK entry \in Adorned : entry.name = a.p /\ entry.adornment = e
        <5>1. [name |-> a.p, adornment |-> e] \in Adorned
          BY <3>4 DEF Adorned
        <5> QED  BY <5>1
      <4>5. sub[1] = Val(a.s, b) /\ sub[2] = AdornedName(a.p, e) /\ sub[3] = Val(a.o, b)
        BY <4>3
      <4>6. <<sub[1], Plain(entry.name), sub[3]>> \in Original
        BY <2>0, <4>1, <4>4, <4>5, Zenon DEF Good
      <4>7. PlainFact(a, b) \in Original
        BY <4>4, <4>5, <4>6, Zenon DEF PlainFact
      <4> QED  BY <4>1, <4>7, Zenon DEF a
    <3>8. CASE ~ is_idb_predicate(a.p)
      <4>1. sub = PlainFact(a, b)
        BY <3>2, <3>8
      <4>2. PICK name : name = a.p
        OBVIOUS
      <4>3. sub[2] = Plain(name) /\ ~ is_idb_predicate(name)
        BY <3>6, <3>8, <4>1, <4>2
      <4>4. sub \in known => sub \in Original
        <5>1. Stored \subseteq Original
          <6>1. PICK rs, fs : rs = Named(input.rules) /\ fs = Stored
            OBVIOUS
          <6>2. fs \subseteq Model(rs, fs)
            BY ModelHasFacts
          <6> QED  BY <6>1, <6>2, Zenon DEF Original
        <5>2. sub \in known => sub \in Stored
          BY <2>0, <4>3, AskingPlain
        <5> QED  BY <5>1, <5>2
      <4>5. sub \in Original => sub \in known
        <5>1. sub \in Original => sub \in Stored
          BY <1>3, <4>3, OriginalPlain
        <5> QED  BY <1>1, <1>5, <5>1
      <4>6. (PlainFact(a, b) \in Original) <=> (sub \in known)
        BY <4>1, <4>4, <4>5
      <4>7. a.negated = TRUE \/ a.negated = FALSE
        BY <3>4
      <4>8. CASE a.negated = TRUE
        BY <3>1, <4>6, <4>8 DEF a
      <4>9. CASE a.negated = FALSE
        BY <3>1, <4>6, <4>9 DEF a
      <4> QED  BY <4>7, <4>8, <4>9
    <3> QED  BY <3>7, <3>8
  <2>12. PlainFact(ru.head, b) \in Original
    <3>1. PlainHold(ru, b, Original)
      BY <2>10, <2>11, Zenon DEF PlainHold
    <3>2. PlainHold(input.rules[i], b, Original)
      BY <2>5, <3>1
    <3>3. PlainFact(input.rules[i].head, b) \in Original
      BY <1>3, <3>2, OriginalClosed
    <3> QED  BY <2>5, <3>3
  <2>13. <<h[1], Plain(c.name), h[3]>> \in Original
    BY <2>6, <2>7, <2>8, <2>12, Zenon DEF PlainFact
  <2> QED  BY <2>9, <2>13
<1> HIDE DEF S
<1>6. Model(rules, facts) \subseteq S
  BY <1>4, <1>5, ModelLeast
<1>7. g \in S
  BY <1>2, <1>6, Zenon
<1>8. Good(g)
  BY <1>7 DEF S
<1> QED  BY <1>8, Zenon

\* The rewritten program derives all that the original one does of what is asked
\* for.
LEMMA AskingComplete ==
    ASSUME Rounds = Nat, Separate, RewritingInv, result = "program",
           NEW g \in Original, NEW current \in ToSet(queue), is_idb_predicate(current.name),
           g[2] = Plain(current.name), Asked(current, g[1], g[3], Asking)
    PROVE  <<g[1], AdornedName(current.name, current.adornment), g[3]>> \in Asking
<1> DEFINE Good(h) == \A c \in ToSet(queue) :
               h[2] = Plain(c.name) /\ is_idb_predicate(c.name) /\ Asked(c, h[1], h[3], Asking) =>
                   <<h[1], AdornedName(c.name, c.adornment), h[3]>> \in Asking
           S == {h \in Original : Good(h)}
<1>1. PICK rules, facts : rules = Named(input.rules) /\ facts = Stored
  OBVIOUS
<1>2. Original = Model(rules, facts)
  BY <1>1, Zenon DEF Original
<1>3. MagicInv
  BY DEF RewritingInv
<1>0. \A p, q : Plain(p) = Plain(q) => p = q
  <2>1. "bb" \in Adornments
    BY DEF Adornments
  <2> QED  BY <2>1, NamesDiffer, Zenon
<1>4. facts \subseteq S
  <2> SUFFICES ASSUME NEW h \in Stored, NEW c, h[2] = Plain(c.name), is_idb_predicate(c.name) PROVE FALSE
    <3>1. facts \subseteq Original
      BY <1>2, ModelHasFacts
    <3> QED  BY <1>1, <3>1
  <2>1. PICK n : h[2] = Plain(n) /\ ~ is_idb_predicate(n)
    BY <1>3, StoredNames
  <2>2. n = c.name
    BY <1>0, <2>1, Zenon
  <2> QED  BY <2>1, <2>2
<1>5. ASSUME NEW known, facts \subseteq known, known \subseteq S, Consequences(rules, known) \subseteq Model(rules, facts)
      PROVE  Consequences(rules, known) \subseteq S
  <2> SUFFICES ASSUME NEW h \in Consequences(rules, known), NEW c \in ToSet(queue),
                      h[2] = Plain(c.name), is_idb_predicate(c.name), Asked(c, h[1], h[3], Asking)
               PROVE  <<h[1], AdornedName(c.name, c.adornment), h[3]>> \in Asking
    BY <1>2, <1>5
  <2>0. known \subseteq Original /\ \A x \in known : Good(x)
    BY <1>5
  <2> HIDE DEF S, Good
  <2>1. h \in Consequences(Named(input.rules), known)
    BY <1>1
  <2>2. PICK i \in DOMAIN input.rules, b \in [Var -> Values] :
            PlainHold(input.rules[i], b, known) /\ h = PlainFact(input.rules[i].head, b)
    BY <1>3, <2>1, OriginalDerives, Zenon
  <2>3. PICK ru \in Rules : ru = input.rules[i]
    BY <1>3, RulesType DEF MagicInv
  <2>4. PlainHold(ru, b, known) /\ h[1] = Val(ru.head.s, b) /\ h[2] = Plain(ru.head.p) /\ h[3] = Val(ru.head.o, b)
    BY <2>2, <2>3 DEF PlainFact
  <2>5. c.name = ru.head.p
    BY <1>0, <2>4, Zenon
  <2>6. c \in Adorned
    <3>1. \A n \in DOMAIN queue : queue[n] \in Adorned
      BY <1>3 DEF MagicInv
    <3> QED  BY <3>1, Zenon DEF ToSet
  <2>7. PICK N \in Nat : N = Len(ru.body) /\ DOMAIN ru.body = 1..N /\ \A k \in 1..N : ru.body[k] \in Atoms
    BY DEF Rules
  <2>8. Asked(c, Val(ru.head.s, b), Val(ru.head.o, b), Asking)
    BY <2>4
  <2> DEFINE Sub(k) == (SubFact(ru, c.adornment, k, b) \in Asking) = ~ ru.body[k].negated
  <2>9. ASSUME NEW k \in 1..N, SubgoalsHold(ru, c.adornment, k - 1, b, Asking) PROVE Sub(k)
    <3> DEFINE a == ru.body[k]
               sub == SubFact(ru, c.adornment, k, b)
    <3>1. (PlainFact(a, b) \in known) = ~ a.negated
      BY <2>4, <2>7, Zenon DEF PlainHold
    <3>2. /\ ~ is_idb_predicate(a.p) => sub = PlainFact(a, b)
          /\ is_idb_predicate(a.p) =>
                sub = <<Val(a.s, b), AdornedName(a.p, SubAdornment(ru, c.adornment, k)), Val(a.o, b)>>
      BY SubFactIs
    <3>3. a \in Atoms
      BY <2>7
    <3>4. a.negated \in BOOLEAN
      BY <3>3 DEF Atoms
    <3>5. a.negated => ~ is_idb_predicate(a.p)
      <4>1. k \in DOMAIN input.rules[i].body
        BY <2>3, <2>7
      <4>2. input.rules[i].body[k].negated => ~ is_idb_predicate(input.rules[i].body[k].p)
        BY <1>3, <4>1, NegatedIsStored
      <4> QED  BY <2>3, <4>2, Zenon
    <3>6. PlainFact(a, b)[1] = Val(a.s, b) /\ PlainFact(a, b)[2] = Plain(a.p) /\ PlainFact(a, b)[3] = Val(a.o, b)
      BY DEF PlainFact
    <3>7. CASE is_idb_predicate(a.p)
      <4>1. a.negated = FALSE /\ PlainFact(a, b) \in known
        <5> HIDE DEF a, sub
        <5> QED  BY <3>1, <3>4, <3>5, <3>7
      <4>2. PICK entry : entry = Entry(ru, c, k)
        OBVIOUS
      <4>3. entry \in ToSet(queue) /\ Asked(entry, Val(a.s, b), Val(a.o, b), Asking)
        <5>1. PICK j \in 1..Len(input.rules[i].body) : j = k
          BY <2>3, <2>7
        <5>2. input.rules[i].head.p = c.name
          BY <2>3, <2>5
        <5>3. Asked(c, Val(input.rules[i].head.s, b), Val(input.rules[i].head.o, b), Asking)
          BY <2>3, <2>8
        <5>4. is_idb_predicate(input.rules[i].body[j].p)
          BY <2>3, <3>7, <5>1
        <5>5. SubgoalsHold(input.rules[i], c.adornment, j - 1, b, Asking)
          BY <2>3, <2>9, <5>1
        <5>6. /\ Entry(input.rules[i], c, j) \in ToSet(queue)
              /\ Asked(Entry(input.rules[i], c, j), Val(input.rules[i].body[j].s, b),
                       Val(input.rules[i].body[j].o, b), Asking)
          BY <5>2, <5>3, <5>4, <5>5, AskingAsks
        <5> QED  BY <2>3, <4>2, <5>1, <5>6, Zenon
      <4>4. entry.name = a.p /\ entry.adornment = SubAdornment(ru, c.adornment, k)
        BY <4>2 DEF Entry
      <4> HIDE DEF a, sub
      <4>5. sub \in Asking
        <5>1. Good(PlainFact(a, b))
          BY <2>0, <4>1
        <5>2. <<Val(a.s, b), AdornedName(entry.name, entry.adornment), Val(a.o, b)>> \in Asking
          BY <3>6, <3>7, <4>3, <4>4, <5>1, Zenon DEF Good
        <5> QED  BY <3>2, <3>7, <4>4, <5>2, Zenon
      <4> QED  BY <4>1, <4>5, Zenon DEF a, sub
    <3>8. CASE ~ is_idb_predicate(a.p)
      <4> HIDE DEF a, sub
      <4>1. sub = PlainFact(a, b)
        BY <3>2, <3>8
      <4>2. PICK name : name = a.p
        OBVIOUS
      <4>3. sub[2] = Plain(name) /\ ~ is_idb_predicate(name)
        BY <3>6, <3>8, <4>1, <4>2
      <4>4. sub \in known => sub \in Asking
        <5>1. Stored \subseteq Asking
          <6>1. PICK rs, fs : rs = magic_prog /\ fs = Stored \union Seed
            OBVIOUS
          <6>2. fs \subseteq Model(rs, fs)
            BY ModelHasFacts
          <6> QED  BY <6>1, <6>2, Zenon DEF Asking
        <5>2. sub \in known => sub \in Stored
          BY <1>3, <2>0, <4>3, OriginalPlain
        <5> QED  BY <5>1, <5>2
      <4>5. sub \in Asking => sub \in known
        <5>1. sub \in Asking => sub \in Stored
          BY <4>3, AskingPlain
        <5> QED  BY <1>1, <1>5, <5>1
      <4>6. (PlainFact(a, b) \in known) <=> (sub \in Asking)
        BY <4>1, <4>4, <4>5
      <4>7. a.negated = TRUE \/ a.negated = FALSE
        BY <3>4
      <4>8. CASE a.negated = TRUE
        BY <3>1, <4>6, <4>8 DEF a, sub
      <4>9. CASE a.negated = FALSE
        BY <3>1, <4>6, <4>9 DEF a, sub
      <4> QED  BY <4>7, <4>8, <4>9
    <3> QED  BY <3>7, <3>8
  <2>10. \A k \in 1..N : Sub(k)
    <3> SUFFICES ASSUME NEW m \in 1..N, ~ Sub(m) PROVE FALSE
      BY Zenon
    <3> DEFINE T == {k \in 1..N : ~ Sub(k)}
    <3> HIDE DEF Sub
    <3>1. PICK k \in T : \A y \in T : k <= y
      <4>1. T \subseteq Nat /\ m \in T
        OBVIOUS
      <4> QED  BY <4>1, LeastNatural
    <3>2. k \in 1..N /\ ~ Sub(k)
      OBVIOUS
    <3>3. \A j \in 1..(k - 1) : Sub(j)
      <4> SUFFICES ASSUME NEW j \in 1..(k - 1), ~ Sub(j) PROVE FALSE
        OBVIOUS
      <4>1. j \in 1..N /\ ~ (k <= j)
        BY <3>2
      <4>2. j \in T
        BY <4>1
      <4> HIDE DEF T
      <4> QED  BY <3>1, <4>1, <4>2
    <3>4. SubgoalsHold(ru, c.adornment, k - 1, b, Asking)
      BY <3>3, Zenon DEF SubgoalsHold, Sub
    <3> QED  BY <2>9, <3>2, <3>4, Zenon
  <2>11. SubgoalsHold(ru, c.adornment, N, b, Asking)
    BY <2>10, Zenon DEF SubgoalsHold
  <2>12. HeadFact(ru, c.adornment, b) \in Asking
    <3>1. input.rules[i].head.p = c.name
      BY <2>3, <2>5
    <3>2. Asked(c, Val(input.rules[i].head.s, b), Val(input.rules[i].head.o, b), Asking)
      BY <2>3, <2>8
    <3>3. SubgoalsHold(input.rules[i], c.adornment, Len(input.rules[i].body), b, Asking)
      BY <2>3, <2>7, <2>11
    <3>4. HeadFact(input.rules[i], c.adornment, b) \in Asking
      BY <3>1, <3>2, <3>3, AskingHead
    <3> QED  BY <2>3, <3>4
  <2> QED  BY <2>4, <2>5, <2>12, Zenon DEF HeadFact
<1> HIDE DEF S
<1>6. Model(rules, facts) \subseteq S
  BY <1>4, <1>5, ModelLeast
<1>7. g \in S
  BY <1>2, <1>6, Zenon
<1>8. Good(g)
  BY <1>7 DEF S
<1> QED  BY <1>8, Zenon

\* The answers under one adornment.
LEMMA ExactAt ==
    ASSUME Rounds = Nat, Separate, RewritingInv, result = "program",
           NEW current \in ToSet(queue), is_idb_predicate(current.name)
    PROVE  LET Asks(f) == \/ current.adornment = "ff"
                          \/ LET m == make_magic_fact(current.name, current.adornment, f[1], f[3])
                             IN  <<m.s, m.p, m.o>> \in Asking
           IN  {<<f[1], f[3]>> : f \in {g \in Asking : g[2] = format_name("", current.name, current.adornment)}}
                   = {<<f[1], f[3]>> : f \in {g \in Original : g[2] = Plain(current.name) /\ Asks(g)}}
<1> DEFINE adorned == AdornedName(current.name, current.adornment)
           Asks(f) == Asked(current, f[1], f[3], Asking)
           left == {<<f[1], f[3]>> : f \in {g \in Asking : g[2] = adorned}}
           right == {<<f[1], f[3]>> : f \in {g \in Original : g[2] = Plain(current.name) /\ Asks(g)}}
<1>1. current \in Adorned
  <2>1. \A n \in DOMAIN queue : queue[n] \in Adorned
    BY DEF RewritingInv, MagicInv
  <2> QED  BY <2>1, Zenon DEF ToSet
<1> HIDE DEF adorned
<1>2. ASSUME NEW f \in Asking, f[2] = adorned PROVE <<f[1], f[3]>> \in right
  <2>1. <<f[1], Plain(current.name), f[3]>> \in Original /\ Asks(f)
    BY <1>1, <1>2, AskingSound DEF adorned
  <2>2. PICK g : g = <<f[1], Plain(current.name), f[3]>>
    OBVIOUS
  <2>3. g \in Original /\ g[1] = f[1] /\ g[2] = Plain(current.name) /\ g[3] = f[3]
    BY <2>1, <2>2
  <2> QED  BY <2>1, <2>3
<1>3. ASSUME NEW f \in Original, f[2] = Plain(current.name), Asks(f) PROVE <<f[1], f[3]>> \in left
  <2>1. <<f[1], adorned, f[3]>> \in Asking
    BY <1>3, AskingComplete DEF adorned
  <2>2. PICK g : g = <<f[1], adorned, f[3]>>
    OBVIOUS
  <2>3. g \in Asking /\ g[1] = f[1] /\ g[2] = adorned /\ g[3] = f[3]
    BY <2>1, <2>2
  <2> QED  BY <2>3
<1>4. left = right
  <2> HIDE DEF Asks
  <2>1. left \subseteq right
    BY <1>2, Zenon
  <2>2. right \subseteq left
    BY <1>3, Zenon
  <2> QED  BY <2>1, <2>2, Zenon
<1> QED  BY <1>4, Zenon DEF adorned, AdornedName, Asked, AskFact

\* What datalog_program_magic_transform returns (magic.c) derives, under every
\* adornment that it queues, exactly those facts of the original program that its
\* magic facts ask for, and so all the answers of the goal: for every program
\* and store in which a predicate with rules has no stored facts and is not
\* negated, and whatever cycles the rules make.  Model is the least model, the
\* union of all the rounds.
THEOREM MagicExactHolds == ASSUME Rounds = Nat, Separate PROVE MagicSpec => []Exact
<1>1. ASSUME RewritingInv PROVE Exact
  <2> SUFFICES ASSUME result = "program" PROVE Exact
    BY Zenon DEF Exact
  <2>1. \A current \in ToSet(queue) : is_idb_predicate(current.name) =>
          LET Asks(f) == \/ current.adornment = "ff"
                         \/ LET m == make_magic_fact(current.name, current.adornment, f[1], f[3])
                            IN  <<m.s, m.p, m.o>> \in Asking
          IN  {<<f[1], f[3]>> : f \in {g \in Asking : g[2] = format_name("", current.name, current.adornment)}}
                  = {<<f[1], f[3]>> : f \in {g \in Original : g[2] = Plain(current.name) /\ Asks(g)}}
    BY <1>1, ExactAt
  <2>2. \A n \in DOMAIN queue : queue[n] \in ToSet(queue)
    BY Zenon DEF ToSet
  <2> QED  BY <2>1, <2>2, Zenon DEF Exact, Asking, Original
<1>2. MagicSpec => []RewritingInv
  BY RewritingInit, RewritingNext, PTL DEF MagicSpec
<1> QED  BY <1>1, <1>2, PTL
=============================================================================
