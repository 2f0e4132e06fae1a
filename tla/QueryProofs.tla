----------------------------- MODULE QueryProofs ----------------------------
(***************************************************************************)
(* A query gives back every reader lock it takes: for every query, every   *)
(* store and every writer between calls, as long as a negated level finds  *)
(* the memory to save the bindings (facts_with_cursor_next and             *)
(* facts_with_cursor_destroy of lib/facts.c).                              *)
(*                                                                         *)
(* And it returns the right answers: all of them, each of them once, the   *)
(* ones of its page, in order, for every query that is Searchable.  The    *)
(* invariant says where the search is: which facts the levels have found   *)
(* (SearchInv), which answers are Ahead of them, and that the others are   *)
(* those returned, collected or skipped (PageInv).                         *)
(***************************************************************************)
EXTENDS Query, FiniteSetTheorems, WellFoundedInduction, TLAPS

\* A set of natural numbers that is not empty has a least one.
LEMMA LeastNatural ==
    ASSUME NEW T, T \subseteq Nat, T # {}
    PROVE  \E x \in T : \A y \in T : x <= y
<1>1. PICK x \in T : \A y \in T : <<y, x>> \notin OpToRel(<, Nat)
  BY NatLessThanWellFounded, WFMin, Zenon
<1>2. \A y \in T : ~ (y < x)
  BY <1>1 DEF OpToRel
<1> QED  BY <1>2

\* A function on the first N numbers is a sequence of that length.
LEMMA SequenceLength ==
    ASSUME NEW q, NEW N \in Nat, q = [k \in 1..N |-> q[k]]
    PROVE  Len(q) = N /\ DOMAIN q = 1..N
<1> DEFINE S == {q[k] : k \in 1..N}
<1>1. q \in [1..N -> S]
  OBVIOUS
<1>2. q \in Seq(S)
  BY <1>1
<1> QED  BY <1>1, <1>2

\* A step of the selection sort exchanges two patterns.
LEMMA SelectKeeps ==
    ASSUME NEW acc, NEW n, NEW N, acc.spec = [k \in 1..N |-> acc.spec[k]], NEW next, next = Select(acc, n)
    PROVE  next.spec = [k \in 1..N |-> next.spec[k]]
<1> DEFINE CostAt(m) == Cost(acc.spec[m], acc.bound)
           best == CHOOSE g : g = [m \in n..Len(acc.spec) |->
                       IF m = n THEN n ELSE IF Cheaper(CostAt(m), CostAt(g[m - 1])) THEN m ELSE g[m - 1]]
           least == best[Len(acc.spec)]
           chosen == acc.spec[least]
           after == [acc.spec EXCEPT ![n] = chosen, ![least] = acc.spec[n]]
           bound == acc.bound \union (IF Negated(chosen) THEN {} ELSE VarsOf(chosen))
<1>1. Select(acc, n) = [spec |-> after, bound |-> bound]
  BY DEF Select
<1>2. after = [acc.spec EXCEPT ![n] = acc.spec[least], ![least] = acc.spec[n]]
  OBVIOUS
<1> HIDE DEF after, bound
<1>3. Select(acc, n).spec = after
  BY <1>1
<1> HIDE DEF least
<1>4. after = [k \in 1..N |-> after[k]]
  BY <1>2
<1> QED  BY <1>3, <1>4

\* The selection sort keeps the places of the patterns.
LEMMA SortDomain ==
    ASSUME NEW spec, NEW N \in Nat, spec = [k \in 1..N |-> spec[k]]
    PROVE  LET result == facts_spec_sort(spec) IN result = [k \in 1..N |-> result[k]]
<1> DEFINE base == [spec |-> spec, bound |-> {}]
           Run(g, n) == g = [k \in 0..n |-> IF k = 0 THEN base ELSE Select(g[k - 1], k)]
           f == CHOOSE g : Run(g, N)
<1>1. Len(spec) = N
  BY SequenceLength
<1>2. ASSUME NEW n \in Nat PROVE \E g : Run(g, n)
  <2> SUFFICES ASSUME ~ \E g : Run(g, n) PROVE FALSE
    OBVIOUS
  <2> DEFINE T == {m \in Nat : ~ \E g : Run(g, m)}
  <2>1. PICK m \in T : \A y \in T : m <= y
    BY LeastNatural
  <2>2. Run([k \in 0..0 |-> base], 0)
    OBVIOUS
  <2>3. m # 0 /\ m \in Nat
    BY <2>2
  <2>4. m - 1 \in Nat /\ m - 1 \notin T
    <3> HIDE DEF T
    <3> QED  BY <2>1, <2>3
  <2>5. PICK g : Run(g, m - 1)
    BY <2>4
  <2> DEFINE h == [k \in 0..m |-> IF k = 0 THEN base ELSE Select(g[k - 1], k)]
  <2>6. \A k \in 0..(m - 1) : g[k] = IF k = 0 THEN base ELSE Select(g[k - 1], k)
    BY <2>5, <2>4
  <2>7. \A k \in 0..m : h[k] = IF k = 0 THEN base ELSE Select(g[k - 1], k)
    OBVIOUS
  <2>8. \A k \in 0..m : k # 0 => h[k - 1] = g[k - 1]
    <3> SUFFICES ASSUME NEW k \in 0..m, k # 0 PROVE h[k - 1] = g[k - 1]
      OBVIOUS
    <3>1. k - 1 \in 0..(m - 1) /\ k - 1 \in 0..m
      BY <2>3
    <3> HIDE DEF h, base
    <3> QED  BY <2>6, <2>7, <3>1
  <2>9. h = [k \in 0..m |-> IF k = 0 THEN base ELSE Select(h[k - 1], k)]
    BY <2>8
  <2> QED  BY <2>9
<1>3. Run(f, N)
  BY <1>2
<1>4. facts_spec_sort(spec) = f[N].spec
  BY <1>1 DEF facts_spec_sort
<1>5. \A k \in 0..N : f[k] = IF k = 0 THEN base ELSE Select(f[k - 1], k)
  BY <1>3
<1> HIDE DEF f
<1> DEFINE Kept(n) == f[n].spec = [k \in 1..N |-> f[n].spec[k]]
           T == {n \in 0..N : ~ Kept(n)}
<1>6. ASSUME NEW k \in 1..N PROVE f[k] = Select(f[k - 1], k)
  <2>1. k \in 0..N /\ k # 0
    OBVIOUS
  <2> HIDE DEF base
  <2> QED  BY <1>5, <2>1
<1>7. Kept(0)
  <2>1. 0 \in 0..N
    OBVIOUS
  <2>2. f[0] = base
    BY <1>5, <2>1
  <2> QED  BY <2>2
<1>8. ASSUME NEW m \in 1..N, Kept(m - 1) PROVE Kept(m)
  <2> DEFINE acc == f[m - 1]
             next == f[m]
  <2>1. next = Select(acc, m) /\ acc.spec = [k \in 1..N |-> acc.spec[k]]
    BY <1>6, <1>8
  <2> HIDE DEF acc, next
  <2>2. next.spec = [k \in 1..N |-> next.spec[k]]
    BY <2>1, SelectKeeps
  <2> QED  BY <2>2 DEF next
<1> HIDE DEF Kept
<1>9. ASSUME T # {} PROVE FALSE
  <2>1. T \subseteq Nat
    OBVIOUS
  <2>2. PICK m \in T : \A y \in T : m <= y
    BY <1>9, <2>1, LeastNatural
  <2>3. m # 0 /\ m \in 0..N
    BY <1>7
  <2>4. m \in 1..N /\ m - 1 \in 0..N
    BY <2>3
  <2>5. m - 1 \notin T
    <3> HIDE DEF T
    <3> QED  BY <2>2, <2>4
  <2>6. Kept(m)
    BY <1>8, <2>4, <2>5
  <2> QED  BY <2>6
<1>10. Kept(N)
  BY <1>9
<1> QED  BY <1>4, <1>10 DEF Kept

\* What facts_with_checked starts with.
LEMMA FreshLevels ==
    ASSUME NEW spec, NEW N \in Nat, spec = [k \in 1..N |-> spec[k]], NEW locked \in {0, 1}, NEW error, NEW mod,
           NEW var, c' = Fresh(spec, locked, error, mod, var)
    PROVE  LevelsOK' /\ Holding(c.l)' = {} /\ c'.locked = locked
<1>1. Len(spec) = N /\ DOMAIN spec = 1..N
  BY SequenceLength
<1>2. /\ c' = [f \in Fields |-> c'[f]]
      /\ c'.facts_count = N /\ c'.level = 0 /\ c'.locked = locked
      /\ c'.l = [k \in 1..N |-> [spec |-> <<>>, spec_init |-> 0, cursor |-> NoCursor]]
  BY <1>1 DEF Fresh, Fields
<1>3. c'.l = [k \in 1..N |-> c'.l[k]]
  BY <1>2
<1>4. Len(c'.l) = N /\ DOMAIN c'.l = 1..N
  BY <1>3, SequenceLength
<1> DEFINE new == [spec |-> <<>>, spec_init |-> 0, cursor |-> NoCursor]
<1>5. IsLevel(new) /\ new.spec_init = 0 /\ new.cursor.started = 2
  BY DEF IsLevel, IsCursor, NoCursor
<1>6. \A k \in 1..N : c'.l[k] = new
  BY <1>2
<1> HIDE DEF new
<1>7. \A k \in 1..N : IsLevel(c'.l[k]) /\ c'.l[k].spec_init = 0 /\ c'.l[k].cursor.started = 2
  BY <1>5, <1>6
<1>8. \A k \in DOMAIN c'.l : IsLevel(c'.l[k]) /\ (k > c'.level + 1 => c'.l[k].spec_init = 0)
  BY <1>4, <1>7
<1>9. /\ c'.l = [k \in DOMAIN c'.l |-> c'.l[k]]
      /\ Len(c'.l) \in Nat /\ DOMAIN c'.l = 1..Len(c'.l)
      /\ c'.facts_count \in Nat /\ c'.level \in Nat /\ c'.locked \in {0, 1}
      /\ c'.facts_count # 0 => DOMAIN c'.l = 1..c'.facts_count /\ c'.level <= c'.facts_count
  <2>1. c'.facts_count = N /\ c'.level = 0 /\ c'.locked \in {0, 1}
    BY <1>2
  <2>2. c'.l = [k \in DOMAIN c'.l |-> c'.l[k]]
    BY <1>3, <1>4
  <2>3. Len(c'.l) \in Nat /\ DOMAIN c'.l = 1..Len(c'.l) /\ DOMAIN c'.l = 1..N
    BY <1>4
  <2> QED  BY <2>1, <2>2, <2>3
<1>10. LevelsOK'
  BY <1>2, <1>8, <1>9 DEF LevelsOK
<1>11. Holding(c.l)' = {}
  BY <1>4, <1>7 DEF Holding
<1> QED  BY <1>2, <1>10, <1>11

\* The cursor that is left when there is no query.
LEMMA EmptyFresh ==
    ASSUME NEW locked \in {0, 1}, NEW error, NEW mod, NEW var, c' = Fresh(<<>>, locked, error, mod, var)
    PROVE  LevelsOK' /\ Holding(c.l)' = {} /\ c'.locked = locked
<1>1. <<>> = [k \in 1..0 |-> <<>>[k]]
  OBVIOUS
<1> QED  BY <1>1, FreshLevels

\* One level changes, and the thread's locks with its cursor's.
LEMMA CountStep ==
    ASSUME LevelsOK, NEW k \in DOMAIN c.l, NEW x, NEW l2, l2 = [c.l EXCEPT ![k] = x]
    PROVE  /\ Cardinality(Holding(c.l)) \in Nat /\ Cardinality(Holding(l2)) \in Nat
           /\ Cardinality(Holding(l2)) = Cardinality(Holding(c.l)) - Held(c.l[k].cursor) + Held(x.cursor)
<1> DEFINE H == Holding(c.l)
<1>0. DOMAIN c.l = 1..Len(c.l) /\ Len(c.l) \in Nat /\ 1 \in Int
  BY DEF LevelsOK
<1>1. DOMAIN l2 = DOMAIN c.l /\ IsFiniteSet(DOMAIN c.l)
  BY <1>0, FS_Interval
<1>2. IsFiniteSet(H) /\ Cardinality(H) \in Nat
  BY <1>1, FS_Subset, FS_CardinalityType DEF Holding
<1>3. \A j \in DOMAIN c.l : l2[j] = IF j = k THEN x ELSE c.l[j]
  BY DEF LevelsOK
<1>4. k \in H <=> c.l[k].cursor.started # 2
  BY DEF Holding
<1>5. Holding(l2) = IF x.cursor.started # 2 THEN H \union {k} ELSE H \ {k}
  BY <1>1, <1>3 DEF Holding
<1> HIDE DEF H
<1>6. Cardinality(H \union {k}) = IF k \in H THEN Cardinality(H) ELSE Cardinality(H) + 1
  BY <1>2, FS_AddElement
<1>7. Cardinality(H \ {k}) = IF k \in H THEN Cardinality(H) - 1 ELSE Cardinality(H)
  BY <1>2, FS_RemoveElement
<1>8. Cardinality(H \ {k}) \in Nat /\ Cardinality(H \union {k}) \in Nat
  BY <1>2, FS_RemoveElement, FS_AddElement, FS_CardinalityType
<1> QED  BY <1>2, <1>4, <1>5, <1>6, <1>7, <1>8 DEF Held, H

\* What a step of the search has to establish.
LEMMA LevelStep ==
    ASSUME LockInv, c.facts_count # 0, c' = [f \in Fields |-> c'[f]],
           NEW k \in DOMAIN c.l, NEW x, IsLevel(x), c'.l = [c.l EXCEPT ![k] = x],
           c'.locked = c.locked, c'.level \in Nat,
           c'.facts_count \in {0, c.facts_count}, c'.facts_count # 0 => c'.level <= c.facts_count,
           k > c'.level + 1 => x.spec_init = 0,
           \A j \in DOMAIN c.l \ {k} : j > c'.level + 1 => c.l[j].spec_init = 0,
           depth' = depth - Held(c.l[k].cursor) + Held(x.cursor),
           c'.facts_count = 0 /\ ~starved' =>
               x.cursor.started = 2 /\ \A j \in DOMAIN c.l \ {k} : c.l[j].spec_init = 0,
           starved => starved', pc' # "closed"
    PROVE  LockInv'
<1>1. LevelsOK
  BY DEF LockInv
<1>2. DOMAIN c.l = 1..c.facts_count /\ c.facts_count \in Nat /\ c.locked \in {0, 1}
  BY <1>1 DEF LevelsOK
<1>3. /\ c'.l = [j \in 1..c.facts_count |-> c'.l[j]]
      /\ \A j \in DOMAIN c.l : c'.l[j] = IF j = k THEN x ELSE c.l[j]
  BY <1>1, <1>2 DEF LevelsOK
<1>4. Len(c'.l) = c.facts_count /\ DOMAIN c'.l = 1..c.facts_count
  BY <1>2, <1>3, SequenceLength
<1>5. \A j \in DOMAIN c.l : IsLevel(c.l[j])
  BY <1>1 DEF LevelsOK
<1>6. \A j \in 1..c.facts_count : IsLevel(c'.l[j]) /\ (j > c'.level + 1 => c'.l[j].spec_init = 0)
  BY <1>2, <1>3, <1>5
<1>7. /\ c'.l = [j \in DOMAIN c'.l |-> c'.l[j]]
      /\ Len(c'.l) \in Nat /\ DOMAIN c'.l = 1..Len(c'.l)
      /\ c'.facts_count \in Nat /\ c'.level \in Nat /\ c'.locked \in {0, 1}
      /\ c'.facts_count # 0 => DOMAIN c'.l = 1..c'.facts_count /\ c'.level <= c'.facts_count
  BY <1>2, <1>3, <1>4
<1>8. \A j \in DOMAIN c'.l : IsLevel(c'.l[j]) /\ (j > c'.level + 1 => c'.l[j].spec_init = 0)
  BY <1>4, <1>6
<1>9. LevelsOK'
  BY <1>7, <1>8 DEF LevelsOK
<1>10. /\ Cardinality(Holding(c.l)) \in Nat
      /\ Cardinality(Holding(c'.l)) = Cardinality(Holding(c.l)) - Held(c.l[k].cursor) + Held(x.cursor)
  BY <1>1, CountStep
<1>11. depth' = c'.locked + Cardinality(Holding(c'.l))
  <2>1. depth = c.locked + Cardinality(Holding(c.l))
    BY Zenon DEF LockInv
  <2>2. Held(c.l[k].cursor) \in Nat /\ Held(x.cursor) \in Nat /\ c.locked \in Nat
    BY <1>2 DEF Held
  <2> QED  BY <1>10, <2>1, <2>2
<1>12. depth' \in Int
  BY DEF Held, LockInv
<1>13. ~ starved' /\ c'.facts_count = 0 => Holding(c'.l) = {}
  <2> SUFFICES ASSUME ~ starved', c'.facts_count = 0, NEW j \in DOMAIN c'.l PROVE c'.l[j].cursor.started = 2
    BY DEF Holding
  <2>1. CASE j = k
    BY <1>2, <1>3, <1>4, <2>1
  <2>2. CASE j # k
    <3>1. c'.l[j] = c.l[j] /\ c.l[j].spec_init = 0 /\ IsLevel(c.l[j])
      BY <1>2, <1>3, <1>4, <1>5, <2>2
    <3> QED  BY <3>1 DEF IsLevel
  <2> QED  BY <2>1, <2>2
<1> QED  BY <1>9, <1>11, <1>13, <1>12, Zenon DEF LockInv

\* A step that leaves the levels and the locks alone.
LEMMA FrameStep ==
    ASSUME LockInv, c' = [f \in Fields |-> c'[f]],
           c'.l = c.l, c'.level = c.level, c'.facts_count = c.facts_count, c'.locked = c.locked,
           UNCHANGED <<depth, starved>>, pc' = "closed" <=> pc = "closed"
    PROVE  LockInv'
<1>1. LevelsOK'
  BY DEF LockInv, LevelsOK
<1>2. Holding(c'.l) = Holding(c.l)
  BY Zenon DEF Holding
<1> QED  BY <1>1, <1>2, Zenon DEF LockInv

\* Cursors stay cursors, and one that finds a fact holds the lock as before.
LEMMA CursorFacts ==
    ASSUME NEW x, IsCursor(x)
    PROVE  /\ IsCursor(stopped(x)) /\ stopped(x).started = 2
           /\ IsCursor(facts_cursor_next(x))
           /\ Finds(x) => Held(facts_cursor_next(x)) = Held(x)
           /\ ~ Finds(x) => facts_cursor_next(x) = stopped(x)
<1>1. IsCursor(stopped(x)) /\ stopped(x).started = 2
  BY DEF stopped, IsCursor
<1>2. IsCursor(Moved(x)) /\ Moved(x).started = 1
  BY DEF Moved, IsCursor
<1>3. Finds(x) => x.started # 2
  BY DEF Finds
<1> QED  BY <1>1, <1>2, <1>3 DEF facts_cursor_next, Held

\* What facts_with_spo opens is a cursor.
LEMMA OpenedCursor ==
    ASSUME NEW pattern PROVE IsCursor(facts_with_spo(pattern))
BY DEF facts_with_spo, IsCursor

\* The levels with one of them stopped, or with its cursor moved on.
LEMMA LevelFacts ==
    ASSUME LevelsOK, NEW k \in DOMAIN c.l
    PROVE  /\ IsLevel(c.l[k]) /\ IsCursor(c.l[k].cursor)
           /\ LET x == [c.l[k] EXCEPT !.cursor = stopped(@), !.spec_init = 0]
              IN  /\ Stopped(k) = [c.l EXCEPT ![k] = x]
                  /\ IsLevel(x) /\ x.spec_init = 0 /\ Held(x.cursor) = 0 /\ x.cursor.started = 2
           /\ LET x == [c.l[k] EXCEPT !.cursor = facts_cursor_next(@)]
              IN  c.l[k].spec_init = 1 =>
                      /\ IsLevel(x)
                      /\ Held(x.cursor) = IF Finds(c.l[k].cursor) THEN Held(c.l[k].cursor) ELSE 0
<1> DEFINE y == c.l[k]
           x == [y EXCEPT !.cursor = stopped(@), !.spec_init = 0]
           z == [y EXCEPT !.cursor = facts_cursor_next(@)]
<1>1. IsLevel(y) /\ IsCursor(y.cursor)
  BY DEF LevelsOK, IsLevel
<1>2. /\ IsCursor(stopped(y.cursor)) /\ stopped(y.cursor).started = 2
      /\ IsCursor(facts_cursor_next(y.cursor))
      /\ Held(facts_cursor_next(y.cursor)) = IF Finds(y.cursor) THEN Held(y.cursor) ELSE 0
  BY <1>1, CursorFacts DEF Held
<1>3. Stopped(k) = [c.l EXCEPT ![k] = x]
  BY DEF Stopped
<1> HIDE DEF y
<1>4. x = [f \in {"spec", "spec_init", "cursor"} |-> x[f]] /\ x.spec_init = 0 /\ x.cursor = stopped(y.cursor)
  BY <1>1 DEF IsLevel
<1>5. IsLevel(x) /\ x.spec_init = 0 /\ Held(x.cursor) = 0 /\ x.cursor.started = 2
  BY <1>2, <1>4 DEF IsLevel, Held
<1>6. /\ z = [f \in {"spec", "spec_init", "cursor"} |-> z[f]]
      /\ z.spec_init = y.spec_init /\ z.cursor = facts_cursor_next(y.cursor)
  BY <1>1 DEF IsLevel
<1>7. y.spec_init = 1 =>
          IsLevel(z) /\ Held(z.cursor) = IF Finds(y.cursor) THEN Held(y.cursor) ELSE 0
  BY <1>2, <1>6 DEF IsLevel
<1> QED  BY <1>1, <1>3, <1>5, <1>7 DEF y

\* No cursor holds the lock.
LEMMA NoneHeld ==
    ASSUME NEW H, H = {} PROVE Cardinality(H) = 0
BY FS_EmptySet

\* The start: no query, no lock.
LEMMA InitLocks == Init => LockInv
<1> SUFFICES ASSUME Init PROVE LockInv
  OBVIOUS
<1>1. /\ c = [f \in Fields |-> c[f]] /\ c.facts_count = 0 /\ c.level = 0 /\ c.locked = 0
      /\ c.l = [k \in DOMAIN <<>> |-> [spec |-> <<>>, spec_init |-> 0, cursor |-> NoCursor]]
  BY DEF Init, Fresh, Fields
<1>2. c.l = [k \in 1..0 |-> c.l[k]]
  BY <1>1
<1>3. Len(c.l) = 0 /\ DOMAIN c.l = 1..0
  BY <1>2, SequenceLength
<1>4. LevelsOK
  BY <1>1, <1>2, <1>3 DEF LevelsOK
<1>5. Holding(c.l) = {}
  BY <1>3 DEF Holding
<1>6. depth = 0 /\ c.locked = 0
  BY <1>1 DEF Init
<1>7. depth = c.locked + Cardinality(Holding(c.l))
  BY <1>5, <1>6, NoneHeld
<1>8. pc = "closed" /\ c.facts_count = 0 /\ depth \in Int
  BY <1>1, <1>6 DEF Init
<1> QED  BY <1>4, <1>5, <1>6, <1>7, <1>8 DEF LockInv

\* The query is opened by a thread that holds no lock.
LEMMA OpenLocks ==
    ASSUME LockInv, NEW triples \in Asked, NEW mod, Open(triples, mod) PROVE LockInv'
<1>1. pc = "closed" /\ ~ starved /\ ~ starved' /\ pc' = "ready" /\ depth = 0
  BY DEF Open, LockInv
<1>2. ASSUME NEW var, c' = Fresh(facts_spec_sort(Expanded(triples)), 1, 0, mod, var), depth' = depth + 1 PROVE LockInv'
  <2> DEFINE N == Len(triples)
             given == Expanded(triples)
             spec == facts_spec_sort(given)
  <2>1. N \in Nat /\ DOMAIN triples = 1..N
    BY QueryAssumption
  <2>2. given = [k \in 1..N |-> given[k]]
    <3>1. \E g : given = [k \in DOMAIN triples |-> Pattern(triples[g[k]])]
      <4> DEFINE SameGroup(m, n) == m = n \/ (~triples[m].negated /\ ~triples[n].negated /\ triples[m].s = triples[n].s)
                 Lead(n) == CHOOSE m \in 1..n : SameGroup(m, n) /\ \A k \in 1..(m - 1) : ~SameGroup(k, n)
                 NotAfter(m, n) == Lead(m) < Lead(n) \/ (Lead(m) = Lead(n) /\ m <= n)
                 Source(k) == CHOOSE n \in DOMAIN triples : Cardinality({m \in DOMAIN triples : NotAfter(m, n)}) = k
                 places == [k \in DOMAIN triples |-> Source(k)]
      <4>1. given = [k \in DOMAIN triples |-> Pattern(triples[Source(k)])]
        BY DEF Expanded
      <4>2. \A k \in DOMAIN triples : places[k] = Source(k)
        OBVIOUS
      <4> HIDE DEF Source, places
      <4>3. given = [k \in DOMAIN triples |-> Pattern(triples[places[k]])]
        BY <4>1, <4>2, Zenon
      <4> QED  BY <4>3
    <3> HIDE DEF given
    <3> QED  BY <3>1, <2>1
  <2> HIDE DEF given, N
  <2>3. spec = [k \in 1..N |-> spec[k]]
    BY <2>1, <2>2, SortDomain
  <2> HIDE DEF spec
  <2>4. c' = Fresh(spec, 1, 0, mod, var)
    BY <1>2 DEF spec, given
  <2>5. LevelsOK' /\ Holding(c.l)' = {} /\ c'.locked = 1
    BY <2>1, <2>3, <2>4, FreshLevels
  <2>6. Cardinality(Holding(c.l)') = 0
    BY <2>5, NoneHeld
  <2>7. depth' = c'.locked + Cardinality(Holding(c.l)') /\ depth' \in Int
    BY <1>1, <1>2, <2>5, <2>6
  <2> QED  BY <1>1, <2>5, <2>7 DEF LockInv
<1>3. ASSUME NEW var, c' = Fresh(<<>>, 0, -1, mod, var), depth' = depth PROVE LockInv'
  <2>1. LevelsOK' /\ Holding(c.l)' = {} /\ c'.locked = 0
    BY <1>3, EmptyFresh
  <2>2. Cardinality(Holding(c.l)') = 0
    BY <2>1, NoneHeld
  <2>3. depth' = c'.locked + Cardinality(Holding(c.l)') /\ depth' \in Int
    BY <1>1, <1>3, <2>1, <2>2
  <2> QED  BY <1>1, <2>1, <2>3 DEF LockInv
<1> QED  BY <1>2, <1>3 DEF Open

\* Destroying the cursor gives back what is left.
LEMMA DestroyLocks ==
    ASSUME LockInv, facts_with_cursor_destroy PROVE LockInv'
<1>1. /\ c' = Fresh(<<>>, 0, 0, NoModifier, NoVar) /\ starved' = starved
      /\ depth' = depth - c.locked - Cardinality({k \in Begun : c.l[k].cursor.started # 2})
  BY DEF facts_with_cursor_destroy
<1>2. LevelsOK' /\ Holding(c.l)' = {} /\ c'.locked = 0
  BY <1>1, EmptyFresh
<1>3. LevelsOK
  BY DEF LockInv
<1>4. ASSUME ~ starved PROVE depth' = 0
  <2>1. {k \in Begun : c.l[k].cursor.started # 2} = Holding(c.l)
    <3>1. CASE c.facts_count = 0
      <4>1. Holding(c.l) = {} /\ Begun = {}
        BY <1>4, <3>1 DEF LockInv, Begun
      <4> QED  BY <4>1
    <3>2. CASE c.facts_count # 0
      <4>1. DOMAIN c.l = 1..c.facts_count /\ \A k \in DOMAIN c.l : IsLevel(c.l[k])
        BY <1>3, <3>2 DEF LevelsOK
      <4> QED  BY <4>1 DEF Begun, Holding, IsLevel
    <3> QED  BY <3>1, <3>2
  <2>2. depth = c.locked + Cardinality(Holding(c.l)) /\ c.locked \in {0, 1}
    <3>1. pc # "closed"
      BY DEF facts_with_cursor_destroy
    <3> QED  BY <1>3, <3>1 DEF LockInv, LevelsOK
  <2>3. Cardinality(Holding(c.l)) \in Nat
    <3>1. IsFiniteSet(DOMAIN c.l)
      <4>1. DOMAIN c.l = 1..Len(c.l) /\ Len(c.l) \in Nat /\ 1 \in Int
        BY <1>3 DEF LevelsOK
      <4> QED  BY <4>1, FS_Interval
    <3> QED  BY <3>1, FS_Subset, FS_CardinalityType DEF Holding
  <2>4. depth' = depth - c.locked - Cardinality(Holding(c.l))
    BY <1>1, <2>1
  <2> QED  BY <2>2, <2>3, <2>4
<1>5. Cardinality(Holding(c.l)') = 0
  BY <1>2, NoneHeld
<1>6. depth' \in Int
  <2>1. c.facts_count \in Nat /\ c.locked \in Int /\ depth \in Int
    BY <1>3 DEF LockInv, LevelsOK
  <2>2. IsFiniteSet(1..c.facts_count)
    BY <2>1, FS_Interval
  <2>3. Cardinality({k \in Begun : c.l[k].cursor.started # 2}) \in Nat
    BY <2>2, FS_Subset, FS_CardinalityType DEF Begun
  <2> QED  BY <1>1, <2>1, <2>3
<1>7. ~ starved' => depth' = c'.locked + Cardinality(Holding(c.l)') /\ depth' = 0
  BY <1>1, <1>2, <1>4, <1>5
<1>8. pc' = "closed" /\ c'.facts_count = 0
  <2>1. Len(<<>>) = 0
    OBVIOUS
  <2> QED  BY <1>1, <2>1 DEF facts_with_cursor_destroy, Fresh
<1> QED  BY <1>2, <1>6, <1>7, <1>8 DEF LockInv

\* The steps that leave the levels and the locks alone: limit, offset and order.
LEMMA PagingLocks ==
    ASSUME LockInv, \/ CallNext \/ Limit \/ Offset \/ Match \/ NoMatch \/ Collect \/ Collected \/ Page
    PROVE  LockInv'
<1> DEFINE Framed == /\ c' = [f \in Fields |-> c'[f]]
                     /\ c'.l = c.l /\ c'.level = c.level
                     /\ c'.facts_count = c.facts_count /\ c'.locked = c.locked
<1>0. c = [f \in Fields |-> c[f]]
  BY DEF LockInv, LevelsOK
<1>1. Framed
  <2>1. CASE CallNext
    <3>1. \/ c' = c
          \/ c' = [c EXCEPT !.has_matches = TRUE, !.sorted_matches = <<>>, !.limit = -1, !.offset = 0,
                            !.is_sorted = FALSE]
          \/ c' = [c EXCEPT !.error = -1]
      BY <2>1 DEF CallNext
    <3> QED  BY <1>0, <3>1 DEF Fields
  <2>2. CASE Limit \/ NoMatch
    BY <1>0, <2>2 DEF Limit, NoMatch
  <2>3. CASE Offset
    BY <1>0, <2>3 DEF Offset, Fields
  <2>4. CASE Match
    BY <1>0, <2>4 DEF Match, Fields
  <2>5. CASE Collect
    BY <1>0, <2>5 DEF Collect, Fields
  <2>6. CASE Collected
    <3>1. PICK matches : c' = [c EXCEPT !.is_sorted = TRUE, !.limit = call.limit, !.offset = call.offset,
                                      !.result_count = 0, !.sorted_matches = matches]
      BY <2>6 DEF Collected
    <3> QED  BY <1>0, <3>1 DEF Fields
  <2>7. CASE Page
    <3>1. \/ \E o, p : c' = [c EXCEPT !.offset = o, !.sorted_pos = p]
          \/ \E o, p, n : c' = [c EXCEPT !.offset = o, !.sorted_pos = p, !.result_count = n]
      BY <2>7 DEF Page
    <3> QED  BY <1>0, <3>1 DEF Fields
  <2> QED  BY <2>1, <2>2, <2>3, <2>4, <2>5, <2>6, <2>7
<1>2. UNCHANGED <<depth, starved>> /\ pc' # "closed" /\ pc # "closed"
  BY DEF CallNext, Limit, Offset, Match, NoMatch, Collect, Collected, Page, return0, return1
<1> QED  BY <1>1, <1>2, FrameStep

\* The steps that leave the cursor alone.
LEMMA OtherLocks ==
    ASSUME LockInv,
           \/ \E f \in Facts : facts_insert_fact_copy(f) \/ facts_remove_found(f)
           \/ Compact \/ facts_intern \/ Enter \/ Reached \/ UNCHANGED vars
    PROVE  LockInv'
<1>0. c = [f \in Fields |-> c[f]]
  BY DEF LockInv, LevelsOK
<1>1. c' = c /\ UNCHANGED <<depth, starved>> /\ (pc' = "closed" <=> pc = "closed")
  <2>1. CASE \E f \in Facts : facts_insert_fact_copy(f) \/ facts_remove_found(f)
    BY <2>1 DEF facts_insert_fact_copy, facts_remove_found
  <2>2. CASE Compact \/ facts_intern \/ Enter \/ Reached \/ UNCHANGED vars
    BY <2>2 DEF Compact, facts_intern, Enter, Reached, vars
  <2> QED  BY <2>1, <2>2
<1> QED  BY <1>0, <1>1, FrameStep

\* What a step at a level may rely on.
LEMMA AtLevel ==
    ASSUME LockInv, c.facts_count # 0, NEW k, k \in {c.level, c.level + 1}, k # 0, k <= c.facts_count
    PROVE  /\ LevelsOK /\ k \in DOMAIN c.l /\ DOMAIN c.l = 1..c.facts_count
           /\ c.level \in Nat /\ c.facts_count \in Nat /\ c.level <= c.facts_count
           /\ \A j \in DOMAIN c.l : j \in Nat /\ (j > c.level + 1 => c.l[j].spec_init = 0)
<1>1. LevelsOK
  BY DEF LockInv
<1>2. /\ DOMAIN c.l = 1..c.facts_count /\ c.level <= c.facts_count
      /\ c.level \in Nat /\ c.facts_count \in Nat
      /\ \A j \in DOMAIN c.l : j > c.level + 1 => c.l[j].spec_init = 0
  BY <1>1, Zenon DEF LevelsOK
<1> QED  BY <1>1, <1>2

\* The fields of the cursor after a step of the search.
LEMMA OverFields ==
    ASSUME c = [f \in Fields |-> c[f]], NEW levels, c' = Over(levels)
    PROVE  /\ c' = [f \in Fields |-> c'[f]] /\ c'.l = levels
           /\ c'.facts_count = 0 /\ c'.level = c.level /\ c'.locked = c.locked
BY DEF Over, Fields

\* The same when the search goes on at level n.
LEMMA MovedFields ==
    ASSUME c = [f \in Fields |-> c[f]], NEW levels, NEW n,
           c' = [c EXCEPT !.l = levels, !.level = n]
    PROVE  /\ c' = [f \in Fields |-> c'[f]] /\ c'.l = levels
           /\ c'.facts_count = c.facts_count /\ c'.level = n /\ c'.locked = c.locked
BY DEF Fields

\* A level fails.
LEMMA BackLocks ==
    ASSUME LockInv, c.level < c.facts_count, Back, depth' = depth - Held(At.cursor), starved' = starved,
           pc = "level"
    PROVE  LockInv'
<1> DEFINE k == c.level + 1
           x == [c.l[k] EXCEPT !.cursor = stopped(@), !.spec_init = 0]
<1>0. c.facts_count \in Nat /\ c.level \in Nat /\ c = [f \in Fields |-> c[f]]
  BY DEF LockInv, LevelsOK
<1>1. /\ LevelsOK /\ k \in DOMAIN c.l
      /\ \A j \in DOMAIN c.l : j \in Nat /\ (j > c.level + 1 => c.l[j].spec_init = 0)
  <2>1. c.facts_count # 0 /\ k \in {c.level, c.level + 1} /\ k # 0 /\ k <= c.facts_count
    BY <1>0
  <2> HIDE DEF k
  <2> QED  BY <2>1, AtLevel
<1>2. /\ Stopped(k) = [c.l EXCEPT ![k] = x]
      /\ IsLevel(x) /\ x.spec_init = 0 /\ Held(x.cursor) = 0 /\ x.cursor.started = 2
  BY <1>1, LevelFacts
<1>3. depth' = depth - Held(c.l[k].cursor) + Held(x.cursor)
  <2>1. depth' = depth - Held(c.l[k].cursor)
    BY DEF At
  <2> HIDE DEF x
  <2> QED  BY <1>2, <2>1 DEF Held, LockInv
<1>4. pc' # "closed"
  BY DEF Back
<1> HIDE DEF x
<1>5. CASE c.level > 0
  <2>1. c' = [c EXCEPT !.l = Stopped(k), !.level = c.level - 1]
    BY <1>5 DEF Back
  <2>2. /\ c' = [f \in Fields |-> c'[f]] /\ c'.l = [c.l EXCEPT ![k] = x]
        /\ c'.facts_count = c.facts_count /\ c'.level = c.level - 1 /\ c'.locked = c.locked
    BY <1>0, <1>2, <2>1, MovedFields
  <2>3. c'.level = c.level - 1 /\ c'.level \in Nat /\ c'.level <= c.facts_count /\ c.facts_count # 0
    BY <1>0, <1>5, <2>2
  <2>4. \A j \in DOMAIN c.l \ {k} : j > c'.level + 1 => c.l[j].spec_init = 0
    <3>1. \A j \in Nat \ {k} : j > c'.level + 1 => j > c.level + 1
      BY <1>0, <2>3
    <3> QED  BY <1>1, <3>1
  <2> HIDE DEF k
  <2> QED  BY <1>1, <1>2, <1>3, <1>4, <2>2, <2>3, <2>4, LevelStep
<1>6. CASE ~ (c.level > 0)
  <2>1. c' = Over(Stopped(k))
    BY <1>6 DEF Back
  <2>2. /\ c' = [f \in Fields |-> c'[f]] /\ c'.l = [c.l EXCEPT ![k] = x]
        /\ c'.facts_count = 0 /\ c'.level = c.level /\ c'.locked = c.locked
    BY <1>0, <1>2, <2>1, OverFields
  <2>3. c.level = 0 /\ c.facts_count # 0
    BY <1>0, <1>6
  <2>4. \A j \in DOMAIN c.l \ {k} : c.l[j].spec_init = 0
    <3>1. \A j \in Nat : j \in DOMAIN c.l \ {k} => j > c.level + 1 \/ j = 0
      BY <2>3
    <3>2. 0 \notin DOMAIN c.l
      BY <1>1 DEF LevelsOK
    <3> QED  BY <1>1, <3>1, <3>2
  <2> HIDE DEF k
  <2> QED  BY <1>0, <1>1, <1>2, <1>3, <1>4, <2>2, <2>3, <2>4, LevelStep
<1> QED  BY <1>5, <1>6

\* A level holds.
LEMMA DeeperLocks ==
    ASSUME LockInv, c.level < c.facts_count, Deeper, At.spec_init = 1, starved' = starved, pc = "level",
           depth' = depth - (IF Finds(At.cursor) THEN 0 ELSE Held(At.cursor))
    PROVE  LockInv'
<1> DEFINE k == c.level + 1
           x == [c.l[k] EXCEPT !.cursor = facts_cursor_next(@)]
<1>0. c.facts_count \in Nat /\ c.level \in Nat /\ c = [f \in Fields |-> c[f]]
  BY DEF LockInv, LevelsOK
<1>1. /\ LevelsOK /\ k \in DOMAIN c.l
      /\ \A j \in DOMAIN c.l : j \in Nat /\ (j > c.level + 1 => c.l[j].spec_init = 0)
  <2>1. c.facts_count # 0 /\ k \in {c.level, c.level + 1} /\ k # 0 /\ k <= c.facts_count
    BY <1>0
  <2> HIDE DEF k
  <2> QED  BY <2>1, AtLevel
<1>2. IsLevel(x) /\ Held(x.cursor) = IF Finds(c.l[k].cursor) THEN Held(c.l[k].cursor) ELSE 0
  BY <1>1, LevelFacts DEF At
<1>3. depth' = depth - Held(c.l[k].cursor) + Held(x.cursor)
  <2>1. depth' = depth - (IF Finds(c.l[k].cursor) THEN 0 ELSE Held(c.l[k].cursor))
    BY DEF At
  <2> HIDE DEF x
  <2> QED  BY <1>2, <2>1 DEF Held, LockInv
<1>4. pc' # "closed"
  BY DEF Deeper
<1>5. c' = [c EXCEPT !.l = [c.l EXCEPT ![k] = x], !.level = c.level + 1]
  BY <1>0 DEF Deeper, Fields
<1> HIDE DEF x
<1>6. /\ c' = [f \in Fields |-> c'[f]] /\ c'.l = [c.l EXCEPT ![k] = x]
      /\ c'.facts_count = c.facts_count /\ c'.level = c.level + 1 /\ c'.locked = c.locked
  BY <1>0, <1>5, MovedFields
<1>7. /\ c'.level = c.level + 1 /\ c'.level \in Nat /\ c'.level <= c.facts_count
      /\ c.facts_count # 0 /\ ~ (k > c'.level + 1)
  BY <1>0, <1>6
<1>8. \A j \in DOMAIN c.l \ {k} : j > c'.level + 1 => c.l[j].spec_init = 0
  BY <1>0, <1>1, <1>7
<1> HIDE DEF k
<1> QED  BY <1>1, <1>2, <1>3, <1>4, <1>6, <1>7, <1>8, LevelStep

\* The last level gives its next fact, or the search goes back.
LEMMA ResumeLocks ==
    ASSUME LockInv, Resume PROVE LockInv'
<1> DEFINE k == c.level
           last == c.l[k]
           again == ~Negated(last.spec[1]) /\ Finds(last.cursor)
<1>0. /\ c.facts_count \in Nat /\ c.level \in Nat /\ c = [f \in Fields |-> c[f]]
      /\ c.facts_count > 0 /\ c.level = c.facts_count
      /\ starved' = starved /\ pc' # "closed"
  BY DEF LockInv, LevelsOK, Resume
<1>1. /\ LevelsOK /\ k \in DOMAIN c.l
      /\ DOMAIN c.l = 1..c.facts_count
      /\ \A j \in DOMAIN c.l : j \in Nat /\ (j > c.level + 1 => c.l[j].spec_init = 0)
  <2>1. c.facts_count # 0 /\ k \in {c.level, c.level + 1} /\ k # 0 /\ k <= c.facts_count
    BY <1>0
  <2> HIDE DEF k
  <2> QED  BY <2>1, AtLevel
<1>2. CASE again
  <2> DEFINE x == [c.l[k] EXCEPT !.cursor = facts_cursor_next(@)]
  <2>1. last.spec_init = 1
    <3>1. last.cursor.started # 2
      BY <1>2 DEF Finds
    <3> QED  BY <1>1, <3>1 DEF LevelsOK, IsLevel
  <2>2. IsLevel(x) /\ Held(x.cursor) = Held(last.cursor)
    BY <1>1, <1>2, <2>1, LevelFacts
  <2>3. c' = [c EXCEPT !.l[c.facts_count].cursor = facts_cursor_next(last.cursor)] /\ depth' = depth
    BY <1>0, <1>2 DEF Resume
  <2>4. c' = [c EXCEPT !.l = [c.l EXCEPT ![k] = x], !.level = c.level]
    BY <1>0, <2>3 DEF Fields
  <2> HIDE DEF x
  <2>5. /\ c' = [f \in Fields |-> c'[f]] /\ c'.l = [c.l EXCEPT ![k] = x]
        /\ c'.facts_count = c.facts_count /\ c'.level = c.level /\ c'.locked = c.locked
    BY <1>0, <2>4, MovedFields
  <2>6. depth' = depth - Held(last.cursor) + Held(x.cursor)
    BY <2>2, <2>3 DEF Held, LockInv
  <2>7. c.facts_count # 0 /\ c'.level <= c.facts_count /\ ~ (k > c'.level + 1) /\ c'.facts_count # 0
    BY <1>0, <2>5
  <2> QED  BY <1>0, <1>1, <2>2, <2>5, <2>6, <2>7, LevelStep
<1>3. CASE ~ again
  <2> DEFINE x == [c.l[k] EXCEPT !.cursor = stopped(@), !.spec_init = 0]
  <2>1. /\ Stopped(k) = [c.l EXCEPT ![k] = x]
        /\ IsLevel(x) /\ x.spec_init = 0 /\ Held(x.cursor) = 0 /\ x.cursor.started = 2
    BY <1>1, LevelFacts
  <2> HIDE DEF x
  <2>2. depth' = depth - Held(last.cursor)
    BY <1>0, <1>3 DEF Resume
  <2>3. depth' = depth - Held(last.cursor) + Held(x.cursor)
    BY <2>1, <2>2 DEF Held, LockInv
  <2>4. CASE c.level = 1
    <3>1. c' = Over(Stopped(k))
      BY <1>0, <1>3, <2>4 DEF Resume
    <3>2. /\ c' = [f \in Fields |-> c'[f]] /\ c'.l = [c.l EXCEPT ![k] = x]
          /\ c'.facts_count = 0 /\ c'.level = c.level /\ c'.locked = c.locked
      BY <1>0, <2>1, <3>1, OverFields
    <3>3. \A j \in DOMAIN c.l \ {k} : c.l[j].spec_init = 0
      BY <1>0, <1>1, <2>4
    <3>4. c.facts_count # 0
      BY <1>0
    <3> QED  BY <1>0, <1>1, <2>1, <2>3, <3>2, <3>3, <3>4, LevelStep
  <2>5. CASE c.level # 1
    <3>1. c' = [c EXCEPT !.l = Stopped(k), !.level = c.level - 2]
      BY <1>0, <1>3, <2>5 DEF Resume
    <3>2. /\ c' = [f \in Fields |-> c'[f]] /\ c'.l = [c.l EXCEPT ![k] = x]
          /\ c'.facts_count = c.facts_count /\ c'.level = c.level - 2 /\ c'.locked = c.locked
      BY <1>0, <2>1, <3>1, MovedFields
    <3>3. c.facts_count # 0 /\ c'.level \in Nat /\ c'.level <= c.facts_count
      BY <1>0, <2>5, <3>2
    <3>4. \A j \in DOMAIN c.l \ {k} : ~ (j > c'.level + 1)
      BY <1>0, <1>1, <3>2
    <3> QED  BY <1>1, <1>0, <2>1, <2>3, <3>2, <3>3, <3>4, LevelStep
  <2> QED  BY <2>4, <2>5
<1> QED  BY <1>2, <1>3

\* A level is begun.
LEMMA BeginLocks ==
    ASSUME LockInv, BeginLevel PROVE LockInv'
<1> DEFINE k == c.level + 1
           parent == IF c.level = 0 THEN c.spec ELSE Tail(c.l[c.level].spec)
           spec == LevelSpec(parent)
           cursor == facts_with_spo(spec[1])
           x == [spec |-> spec, spec_init |-> 1, cursor |-> cursor]
<1>0. /\ c.facts_count \in Nat /\ c.level \in Nat /\ c = [f \in Fields |-> c[f]]
      /\ c.level < c.facts_count /\ c.l[k].spec_init = 0
      /\ starved' = starved /\ pc' # "closed"
  BY DEF LockInv, LevelsOK, BeginLevel, At
<1>1. /\ LevelsOK /\ k \in DOMAIN c.l
      /\ \A j \in DOMAIN c.l : j \in Nat /\ (j > c.level + 1 => c.l[j].spec_init = 0)
  <2>1. c.facts_count # 0 /\ k \in {c.level, c.level + 1} /\ k # 0 /\ k <= c.facts_count
    BY <1>0
  <2> HIDE DEF k
  <2> QED  BY <2>1, AtLevel
<1>2. c' = [c EXCEPT !.l[c.level + 1] = x] /\ depth' = depth + Held(cursor)
  BY DEF BeginLevel
<1>3. IsCursor(cursor)
  BY OpenedCursor
<1> HIDE DEF spec, cursor
<1>4. IsLevel(x) /\ x.cursor = cursor
  BY <1>3 DEF IsLevel
<1> HIDE DEF x
<1>5. c' = [c EXCEPT !.l = [c.l EXCEPT ![k] = x], !.level = c.level]
  BY <1>0, <1>2 DEF Fields
<1>6. /\ c' = [f \in Fields |-> c'[f]] /\ c'.l = [c.l EXCEPT ![k] = x]
      /\ c'.facts_count = c.facts_count /\ c'.level = c.level /\ c'.locked = c.locked
  BY <1>0, <1>5, MovedFields
<1>7. depth' = depth - Held(c.l[k].cursor) + Held(x.cursor)
  <2>1. Held(c.l[k].cursor) = 0
    BY <1>0, <1>1 DEF LevelsOK, IsLevel, Held
  <2> HIDE DEF k
  <2> QED  BY <1>2, <1>4, <2>1 DEF Held, LockInv
<1>8. c.facts_count # 0 /\ c'.level <= c.facts_count /\ ~ (k > c'.level + 1) /\ c'.facts_count # 0
  BY <1>0, <1>6
<1> HIDE DEF k
<1> QED  BY <1>0, <1>1, <1>4, <1>6, <1>7, <1>8, LevelStep

\* A negated level finds no memory: from here on the count is not claimed.
LEMMA StarvedLocks ==
    ASSUME LockInv, NegatedStarved PROVE LockInv'
<1> DEFINE k == c.level + 1
           x == [c.l[k] EXCEPT !.cursor = stopped(@), !.spec_init = 0]
<1>0. /\ c.facts_count \in Nat /\ c.level \in Nat /\ c = [f \in Fields |-> c[f]]
      /\ c.level < c.facts_count /\ starved' = TRUE /\ pc' # "closed"
      /\ c' = Over(Stopped(k)) /\ depth' = depth - Held(c.l[k].cursor)
  BY DEF LockInv, LevelsOK, NegatedStarved, At
<1>1. /\ LevelsOK /\ k \in DOMAIN c.l
      /\ \A j \in DOMAIN c.l : j \in Nat /\ (j > c.level + 1 => c.l[j].spec_init = 0)
  <2>1. c.facts_count # 0 /\ k \in {c.level, c.level + 1} /\ k # 0 /\ k <= c.facts_count
    BY <1>0
  <2> HIDE DEF k
  <2> QED  BY <2>1, AtLevel
<1>2. /\ Stopped(k) = [c.l EXCEPT ![k] = x]
      /\ IsLevel(x) /\ x.spec_init = 0 /\ Held(x.cursor) = 0 /\ x.cursor.started = 2
  BY <1>1, LevelFacts
<1> HIDE DEF x
<1>3. /\ c' = [f \in Fields |-> c'[f]] /\ c'.l = [c.l EXCEPT ![k] = x]
      /\ c'.facts_count = 0 /\ c'.level = c.level /\ c'.locked = c.locked
  BY <1>0, <1>2, OverFields
<1>4. depth' = depth - Held(c.l[k].cursor) + Held(x.cursor)
  <2> HIDE DEF k
  <2> QED  BY <1>0, <1>2 DEF Held, LockInv
<1>5. c.facts_count # 0
  BY <1>0
<1> HIDE DEF k
<1> QED  BY <1>0, <1>1, <1>2, <1>3, <1>4, <1>5, LevelStep

\* The search looks at a level.
LEMMA SearchLocks ==
    ASSUME LockInv, Positive \/ NegatedLevel PROVE LockInv'
<1>1. CASE Positive /\ Finds(At.cursor)
  <2>1. /\ c.level < c.facts_count /\ Deeper /\ At.spec_init = 1 /\ starved' = starved /\ pc = "level"
        /\ depth' = depth - (IF Finds(At.cursor) THEN 0 ELSE Held(At.cursor))
    BY <1>1 DEF Positive
  <2> QED  BY <2>1, DeeperLocks
<1>2. CASE Positive /\ ~ Finds(At.cursor)
  <2>1. /\ c.level < c.facts_count /\ Back /\ starved' = starved /\ pc = "level"
        /\ depth' = depth - Held(At.cursor)
    BY <1>2 DEF Positive
  <2> QED  BY <2>1, BackLocks
<1>3. CASE NegatedLevel /\ Finds(At.cursor)
  <2>1. /\ c.level < c.facts_count /\ Back /\ starved' = starved /\ pc = "level"
        /\ depth' = depth - Held(At.cursor)
    BY <1>3 DEF NegatedLevel
  <2> QED  BY <2>1, BackLocks
<1>4. CASE NegatedLevel /\ ~ Finds(At.cursor)
  <2>1. /\ c.level < c.facts_count /\ Deeper /\ At.spec_init = 1 /\ starved' = starved /\ pc = "level"
        /\ depth' = depth - (IF Finds(At.cursor) THEN 0 ELSE Held(At.cursor))
    BY <1>4 DEF NegatedLevel
  <2> QED  BY <2>1, DeeperLocks
<1> QED  BY <1>1, <1>2, <1>3, <1>4

\* Every step keeps the invariant.
LEMMA NextLocks == LockInv /\ [Next]_vars => LockInv'
<1> SUFFICES ASSUME LockInv, [Next]_vars PROVE LockInv'
  OBVIOUS
<1>1. CASE \E triples \in Asked, mod \in Modifiers : Open(triples, mod)
  BY <1>1, OpenLocks
<1>2. CASE facts_with_cursor_destroy
  BY <1>2, DestroyLocks
<1>3. CASE CallNext \/ Limit \/ Offset \/ Match \/ NoMatch \/ Collect \/ Collected \/ Page
  BY <1>3, PagingLocks
<1>4. CASE Resume
  BY <1>4, ResumeLocks
<1>5. CASE BeginLevel
  BY <1>5, BeginLocks
<1>6. CASE Positive \/ NegatedLevel
  BY <1>6, SearchLocks
<1>7. CASE NegatedStarved
  BY <1>7, StarvedLocks
<1>8. CASE \/ \E f \in Facts : facts_insert_fact_copy(f) \/ facts_remove_found(f)
           \/ Compact \/ facts_intern \/ Enter \/ Reached \/ UNCHANGED vars
  BY <1>8, OtherLocks
<1> QED  BY <1>1, <1>2, <1>3, <1>4, <1>5, <1>6, <1>7, <1>8 DEF Next, Step

\* The inductive invariant: facts_with_cursor_next keeps a level for each
\* pattern, begins none below the one at work, and holds the reader lock once
\* for each cursor that has not ended.
THEOREM LockInvHolds == Spec => []LockInv
<1>1. Init => LockInv
  BY InitLocks
<1>2. LockInv /\ [Next]_vars => LockInv'
  BY NextLocks
<1> QED  BY <1>1, <1>2, PTL DEF Spec

\* Whatever the query, the store, the limit and the order, and wherever the
\* caller stops, the reader locks that facts_with_cursor_next has taken are those
\* of the cursors that facts_with_cursor_destroy will stop.
THEOREM LocksReturnedHolds == Spec => []LocksReturned
<1>1. LockInv => LocksReturned
  <2> SUFFICES ASSUME LockInv, ~ starved
      PROVE  depth = c.locked + Cardinality({k \in DOMAIN c.l : c.l[k].spec_init = 1 /\ c.l[k].cursor.started # 2})
    BY DEF LocksReturned
  <2>1. \A k \in DOMAIN c.l : IsLevel(c.l[k])
    BY DEF LockInv, LevelsOK
  <2>2. {k \in DOMAIN c.l : c.l[k].spec_init = 1 /\ c.l[k].cursor.started # 2} = Holding(c.l)
    BY <2>1 DEF Holding, IsLevel
  <2>3. CASE pc # "closed"
    BY <2>2, <2>3 DEF LockInv
  <2>4. CASE pc = "closed"
    <3>1. depth = 0 /\ c.locked = 0 /\ Holding(c.l) = {}
      BY <2>4 DEF LockInv
    <3> QED  BY <2>2, <3>1, NoneHeld
  <2> QED  BY <2>3, <2>4
<1> QED  BY <1>1, LockInvHolds, PTL

-----------------------------------------------------------------------------
(* The cursors *)

\* Two digits.
LEMMA Digits ==
    ASSUME NEW B \in Nat, NEW x \in Nat, NEW y \in Nat, NEW r \in 0..(B - 1), NEW q \in 0..(B - 1)
    PROVE  /\ x * B + r \in Nat /\ y * B + q \in Nat
           /\ (x * B + r <= y * B + q) <=> (x < y \/ (x = y /\ r <= q))
<1>1. \A m, n \in Nat : m * B \in Nat /\ (m < n => m * B + B <= n * B)
  <2> SUFFICES ASSUME NEW m \in Nat, NEW n \in Nat PROVE m * B \in Nat /\ (m < n => m * B + B <= n * B)
    OBVIOUS
  <2>1. m * B \in Nat
    OBVIOUS
  <2>2. ASSUME m < n PROVE m * B + B <= n * B
    <3> DEFINE d == n - m - 1
    <3>1. d \in Nat /\ n = m + 1 + d
      BY <2>2
    <3>2. d * B \in Nat
      BY <3>1
    <3> HIDE DEF d
    <3>3. n * B = m * B + B + d * B
      BY <3>1
    <3> QED  BY <2>1, <3>2, <3>3
  <2> QED  BY <2>1, <2>2
<1> DEFINE xb == x * B
           yb == y * B
<1>2. xb \in Nat /\ yb \in Nat
  BY <1>1
<1>3. (x < y => xb + B <= yb) /\ (y < x => yb + B <= xb) /\ (x = y => xb = yb)
  BY <1>1
<1> HIDE DEF xb, yb
<1>4. xb + r \in Nat /\ yb + q \in Nat /\ ((xb + r <= yb + q) <=> (x < y \/ (x = y /\ r <= q)))
  BY <1>2, <1>3
<1> QED  BY <1>4 DEF xb, yb

\* The digits of a key, and the ids, are numbers below P_LAST.
LEMMA Bounds == P_LAST \in Nat /\ P_LAST >= 1 /\ Symbols = 1..(P_LAST - 1)
<1>1. Cardinality(Symbols) \in Nat
  BY QueryAssumption, FS_CardinalityType
<1> QED  BY <1>1, QueryAssumption DEF P_LAST

\* Keys are ordered as their digits are, the most significant first.
LEMMA KeyOrder ==
    ASSUME NEW f \in [Columns -> 0..P_LAST], NEW g \in [Columns -> 0..P_LAST], NEW index \in DOMAIN Trie
    PROVE  LET t == Trie[index]
           IN  /\ encode_triple_key(f, index) \in Nat
               /\ (encode_triple_key(f, index) <= encode_triple_key(g, index)) <=>
                     \/ f[t[1]] < g[t[1]]
                     \/ f[t[1]] = g[t[1]] /\ f[t[2]] < g[t[2]]
                     \/ f[t[1]] = g[t[1]] /\ f[t[2]] = g[t[2]] /\ f[t[3]] <= g[t[3]]
<1> DEFINE t == Trie[index]
           B == P_LAST + 1
           f1 == f[t[1]]
           f2 == f[t[2]]
           f3 == f[t[3]]
           g1 == g[t[1]]
           g2 == g[t[2]]
           g3 == g[t[3]]
           fx == f1 * B + f2
           gx == g1 * B + g2
<1>1. t[1] \in Columns /\ t[2] \in Columns /\ t[3] \in Columns
  BY DEF Trie, Columns
<1>2. B \in Nat /\ B - 1 = P_LAST
  BY Bounds
<1>3. /\ f1 \in 0..(B - 1) /\ f2 \in 0..(B - 1) /\ f3 \in 0..(B - 1)
      /\ g1 \in 0..(B - 1) /\ g2 \in 0..(B - 1) /\ g3 \in 0..(B - 1)
  BY <1>1, <1>2
<1>4. f1 \in Nat /\ f2 \in Nat /\ g1 \in Nat /\ g2 \in Nat
  BY <1>2, <1>3
<1>5. encode_triple_key(f, index) = fx * B + f3 /\ encode_triple_key(g, index) = gx * B + g3
  BY DEF encode_triple_key
<1> HIDE DEF B, f1, f2, f3, g1, g2, g3, t
<1>6. fx \in Nat /\ gx \in Nat
      /\ ((fx <= gx) <=> (f1 < g1 \/ (f1 = g1 /\ f2 <= g2)))
      /\ ((gx <= fx) <=> (g1 < f1 \/ (g1 = f1 /\ g2 <= f2)))
  BY <1>2, <1>3, <1>4, Digits
<1> HIDE DEF fx, gx
<1>7. fx * B + f3 \in Nat /\ ((fx * B + f3 <= gx * B + g3) <=> (fx < gx \/ (fx = gx /\ f3 <= g3)))
  BY <1>2, <1>3, <1>6, Digits
<1>8. (fx * B + f3 <= gx * B + g3) <=> (f1 < g1 \/ (f1 = g1 /\ f2 < g2) \/ (f1 = g1 /\ f2 = g2 /\ f3 <= g3))
  <2>1. (fx < gx \/ (fx = gx /\ f3 <= g3)) <=> (f1 < g1 \/ (f1 = g1 /\ f2 < g2) \/ (f1 = g1 /\ f2 = g2 /\ f3 <= g3))
    BY <1>2, <1>3, <1>4, <1>6
  <2> QED  BY <1>7, <2>1
<1> QED  BY <1>5, <1>7, <1>8 DEF f1, f2, f3, g1, g2, g3, t

\* A fact is known by its key.
LEMMA KeyInjective ==
    ASSUME NEW f \in [Columns -> Symbols], NEW g \in [Columns -> Symbols], NEW index \in DOMAIN Trie,
           encode_triple_key(f, index) = encode_triple_key(g, index)
    PROVE  f = g
<1> DEFINE t == Trie[index]
<1>1. f \in [Columns -> 0..P_LAST] /\ g \in [Columns -> 0..P_LAST]
  BY Bounds
<1>2. \A n \in Columns : f[n] \in Int /\ g[n] \in Int
  BY <1>1, Bounds
<1>3. t[1] \in Columns /\ t[2] \in Columns /\ t[3] \in Columns /\ \A n \in Columns : n \in {t[1], t[2], t[3]}
  BY DEF Trie, Columns
<1> HIDE DEF t
<1>4. encode_triple_key(f, index) <= encode_triple_key(g, index) /\ encode_triple_key(g, index) <= encode_triple_key(f, index)
  BY <1>1, KeyOrder
<1>5. \/ f[t[1]] < g[t[1]]
      \/ f[t[1]] = g[t[1]] /\ f[t[2]] < g[t[2]]
      \/ f[t[1]] = g[t[1]] /\ f[t[2]] = g[t[2]] /\ f[t[3]] <= g[t[3]]
  BY <1>1, <1>4, KeyOrder DEF t
<1>6. \/ g[t[1]] < f[t[1]]
      \/ g[t[1]] = f[t[1]] /\ g[t[2]] < f[t[2]]
      \/ g[t[1]] = f[t[1]] /\ g[t[2]] = f[t[2]] /\ g[t[3]] <= f[t[3]]
  BY <1>1, <1>4, KeyOrder DEF t
<1>7. f[t[1]] = g[t[1]] /\ f[t[2]] = g[t[2]] /\ f[t[3]] = g[t[3]]
  BY <1>2, <1>3, <1>5, <1>6
<1>8. \A n \in Columns : f[n] = g[n]
  BY <1>3, <1>7
<1> QED  BY <1>8

\* What a place of a pattern holds.
Terms == Symbols \union Var

\* In the trie that is chosen the constants of the pattern come first.
LEMMA ConstantsFirst ==
    ASSUME NEW var, NEW index, index = TrieFor(var)
    PROVE  /\ index \in DOMAIN Trie
           /\ LET t == Trie[index]
              IN  /\ t[1] \in Columns /\ t[2] \in Columns /\ t[3] \in Columns
                  /\ \A n \in Columns : n \in {t[1], t[2], t[3]}
                  /\ var[t[2]] = NoVar => var[t[1]] = NoVar
                  /\ var[t[3]] = NoVar => var[t[2]] = NoVar
<1>1. CASE \A n \in Columns : (var[n] = NoVar) = (var[1] = NoVar)
  <2>1. index = "spo"
    BY <1>1, Zenon DEF TrieFor
  <2>2. (var[1] = NoVar <=> var[2] = NoVar) /\ (var[2] = NoVar <=> var[3] = NoVar)
    BY <1>1 DEF Columns
  <2> QED  BY <2>1, <2>2 DEF Trie, Columns
<1>2. CASE /\ ~ \A n \in Columns : (var[n] = NoVar) = (var[1] = NoVar)
           /\ var[1] = NoVar /\ var[3] # NoVar
  <2>1. index = "spo"
    BY <1>2 DEF TrieFor
  <2> QED  BY <1>2, <2>1 DEF Trie, Columns
<1>3. CASE /\ ~ \A n \in Columns : (var[n] = NoVar) = (var[1] = NoVar)
           /\ ~(var[1] = NoVar /\ var[3] # NoVar) /\ var[2] = NoVar
  <2>1. index = "pos"
    BY <1>3 DEF TrieFor
  <2>2. ~(var[1] = NoVar /\ var[2] = NoVar /\ var[3] = NoVar)
    BY <1>3 DEF Columns
  <2> QED  BY <1>3, <2>1, <2>2 DEF Trie, Columns
<1>4. CASE /\ ~ \A n \in Columns : (var[n] = NoVar) = (var[1] = NoVar)
           /\ ~(var[1] = NoVar /\ var[3] # NoVar) /\ var[2] # NoVar
  <2>1. index = "osp"
    BY <1>4 DEF TrieFor
  <2> QED  BY <1>4, <2>1 DEF Trie, Columns
<1> QED  BY <1>1, <1>2, <1>3, <1>4

\* The range of keys of a cursor is that of the facts its pattern describes.
LEMMA RangeFits ==
    ASSUME NEW p, \A n \in Columns : p[n] \in Terms, NEW f \in [Columns -> Symbols],
           NEW index, index = TrieFor([n \in Columns |-> IF p[n] \in Var THEN p[n] ELSE NoVar]),
           NEW low, low = [n \in Columns |-> IF p[n] \in Var THEN P_FIRST ELSE p[n]],
           NEW high, high = [n \in Columns |-> IF p[n] \in Var THEN P_LAST ELSE p[n]]
    PROVE  /\ (/\ encode_triple_key(low, index) <= encode_triple_key(f, index)
               /\ encode_triple_key(f, index) <= encode_triple_key(high, index))
                 <=> \A n \in Columns : p[n] \in Var \union {f[n]}
           /\ index \in DOMAIN Trie
           /\ encode_triple_key(low, index) \in Nat /\ encode_triple_key(f, index) \in Nat
           /\ encode_triple_key(high, index) \in Nat
<1> DEFINE t == Trie[index]
           var == [n \in Columns |-> IF p[n] \in Var THEN p[n] ELSE NoVar]
<1>0. \A n \in Columns : var[n] = NoVar <=> p[n] \notin Var
  BY QueryAssumption
<1>1. /\ index \in DOMAIN Trie
      /\ t[1] \in Columns /\ t[2] \in Columns /\ t[3] \in Columns
      /\ \A n \in Columns : n \in {t[1], t[2], t[3]}
      /\ p[t[2]] \notin Var => p[t[1]] \notin Var
      /\ p[t[3]] \notin Var => p[t[2]] \notin Var
  BY <1>0, ConstantsFirst
<1>2. /\ low \in [Columns -> 0..P_LAST] /\ high \in [Columns -> 0..P_LAST] /\ f \in [Columns -> 0..P_LAST]
  BY Bounds DEF P_FIRST, Terms
<1>3. \A n \in Columns :
          /\ f[n] \in 1..(P_LAST - 1)
          /\ p[n] \in Var => low[n] = 0 /\ high[n] = P_LAST
          /\ p[n] \notin Var => low[n] = p[n] /\ high[n] = p[n] /\ p[n] \in 1..(P_LAST - 1)
  BY Bounds DEF P_FIRST, Terms
<1> DEFINE a1 == t[1]
           a2 == t[2]
           a3 == t[3]
<1>4. (encode_triple_key(low, index) <= encode_triple_key(f, index)) <=>
          \/ low[a1] < f[a1]
          \/ low[a1] = f[a1] /\ low[a2] < f[a2]
          \/ low[a1] = f[a1] /\ low[a2] = f[a2] /\ low[a3] <= f[a3]
  BY <1>1, <1>2, KeyOrder
<1>5. (encode_triple_key(f, index) <= encode_triple_key(high, index)) <=>
          \/ f[a1] < high[a1]
          \/ f[a1] = high[a1] /\ f[a2] < high[a2]
          \/ f[a1] = high[a1] /\ f[a2] = high[a2] /\ f[a3] <= high[a3]
  BY <1>1, <1>2, KeyOrder
<1>6. (\A n \in Columns : p[n] \in Var \union {f[n]}) <=>
          /\ p[a1] \in Var \/ p[a1] = f[a1]
          /\ p[a2] \in Var \/ p[a2] = f[a2]
          /\ p[a3] \in Var \/ p[a3] = f[a3]
  BY <1>1
<1> DEFINE f1 == f[a1]
           f2 == f[a2]
           f3 == f[a3]
           p1 == p[a1]
           p2 == p[a2]
           p3 == p[a3]
           l1 == low[a1]
           l2 == low[a2]
           l3 == low[a3]
           h1 == high[a1]
           h2 == high[a2]
           h3 == high[a3]
<1>7. /\ f1 \in 1..(P_LAST - 1) /\ f2 \in 1..(P_LAST - 1) /\ f3 \in 1..(P_LAST - 1)
      /\ p1 \in Var => l1 = 0 /\ h1 = P_LAST
      /\ p1 \notin Var => l1 = p1 /\ h1 = p1 /\ p1 \in 1..(P_LAST - 1)
      /\ p2 \in Var => l2 = 0 /\ h2 = P_LAST
      /\ p2 \notin Var => l2 = p2 /\ h2 = p2 /\ p2 \in 1..(P_LAST - 1)
      /\ p3 \in Var => l3 = 0 /\ h3 = P_LAST
      /\ p3 \notin Var => l3 = p3 /\ h3 = p3 /\ p3 \in 1..(P_LAST - 1)
  BY <1>1, <1>3
<1>8. (p2 \notin Var => p1 \notin Var) /\ (p3 \notin Var => p2 \notin Var)
  BY <1>1
<1>9. /\ encode_triple_key(low, index) \in Nat /\ encode_triple_key(f, index) \in Nat
      /\ encode_triple_key(high, index) \in Nat
  BY <1>1, <1>2, KeyOrder
<1> HIDE DEF f1, f2, f3, p1, p2, p3, l1, l2, l3, h1, h2, h3
<1>10. (/\ (l1 < f1 \/ (l1 = f1 /\ l2 < f2) \/ (l1 = f1 /\ l2 = f2 /\ l3 <= f3))
        /\ (f1 < h1 \/ (f1 = h1 /\ f2 < h2) \/ (f1 = h1 /\ f2 = h2 /\ f3 <= h3)))
       <=> (p1 \in Var \/ p1 = f1) /\ (p2 \in Var \/ p2 = f2) /\ (p3 \in Var \/ p3 = f3)
  BY <1>7, <1>8, Bounds
<1> QED  BY <1>1, <1>4, <1>5, <1>6, <1>9, <1>10 DEF f1, f2, f3, p1, p2, p3, l1, l2, l3, h1, h2, h3

\* Functions between finite sets are finitely many: each is a set of pairs.
LEMMA FunctionsFinite ==
    ASSUME NEW D, NEW R, IsFiniteSet(D), IsFiniteSet(R)
    PROVE  IsFiniteSet([D -> R])
<1> DEFINE Graph(f) == {<<d, f[d]>> : d \in D}
           g == [f \in [D -> R] |-> Graph(f)]
<1>1. IsFiniteSet(SUBSET (D \X R))
  BY FS_Product, FS_SUBSET
<1>2. g \in [[D -> R] -> SUBSET (D \X R)]
  OBVIOUS
<1>3. ASSUME NEW f \in [D -> R], NEW h \in [D -> R], g[f] = g[h] PROVE f = h
  <2>1. Graph(f) = Graph(h)
    BY <1>3
  <2>2. ASSUME NEW d \in D PROVE f[d] = h[d]
    <3>1. <<d, f[d]>> \in Graph(h)
      BY <2>1
    <3>2. PICK e \in D : <<d, f[d]>> = <<e, h[e]>>
      BY <3>1
    <3> QED  BY <3>2
  <2> QED  BY <2>2
<1>4. g \in Injection([D -> R], SUBSET (D \X R))
  <2> HIDE DEF g
  <2> QED  BY <1>2, <1>3 DEF Injection, IsInjective
<1> HIDE DEF g
<1> QED  BY <1>1, <1>4, FS_Injection

\* The store is finite, and so is what usage counts.
LEMMA FactsFinite ==
    ASSUME StoreInv PROVE facts \subseteq [Columns -> Symbols] /\ IsFiniteSet(facts) /\ IsFiniteSet(facts \X Columns)
<1>1. facts \subseteq [Columns -> Symbols]
  BY QueryAssumption DEF StoreInv
<1>2. IsFiniteSet(Columns)
  <2>1. 1 \in Int /\ 3 \in Int
    OBVIOUS
  <2>2. IsFiniteSet(1..3)
    BY <2>1, FS_Interval
  <2> QED  BY <2>2 DEF Columns
<1>3. IsFiniteSet(facts)
  BY <1>1, <1>2, QueryAssumption, FunctionsFinite, FS_Subset
<1> QED  BY <1>1, <1>2, <1>3, FS_Product

\* The row at which a search in a trie ends.
LEMMA SeekFacts ==
    ASSUME StoreInv, NEW index \in DOMAIN Trie, NEW key \in Int
    PROVE  /\ \A f \in facts : encode_triple_key(f, index) \in Nat
           /\ \/ Seek(index, key) = EOF /\ \A f \in facts : encode_triple_key(f, index) < key
              \/ \E f \in facts : /\ Seek(index, key) = encode_triple_key(f, index)
                                  /\ encode_triple_key(f, index) >= key
                                  /\ \A g \in facts : encode_triple_key(g, index) >= key =>
                                         encode_triple_key(f, index) <= encode_triple_key(g, index)
<1> DEFINE rows == {encode_triple_key(f, index) : f \in facts}
           above == {k \in rows : k >= key}
<1>1. \A f \in facts : encode_triple_key(f, index) \in Nat
  <2> SUFFICES ASSUME NEW f \in facts PROVE encode_triple_key(f, index) \in Nat
    OBVIOUS
  <2>1. f \in [Columns -> 0..P_LAST]
    BY FactsFinite, Bounds
  <2> QED  BY <2>1, KeyOrder
<1>2. hexastore[index] = facts
  BY DEF StoreInv
<1>3. Seek(index, key) = IF above = {} THEN EOF ELSE CHOOSE k \in above : \A other \in above : k <= other
  <2> DEFINE rows2 == {encode_triple_key(f, index) : f \in hexastore[index]}
             above2 == {k \in rows2 : k >= key}
  <2>1. Seek(index, key) = IF above2 = {} THEN EOF ELSE CHOOSE k \in above2 : \A other \in above2 : k <= other
    BY DEF Seek
  <2>2. above2 = above
    BY <1>2
  <2> HIDE DEF above, above2
  <2> QED  BY <2>1, <2>2
<1>4. CASE above = {}
  BY <1>1, <1>3, <1>4
<1>5. CASE above # {}
  <2>1. above \subseteq Nat
    BY <1>1
  <2>2. \E k \in above : \A other \in above : k <= other
    BY <1>5, <2>1, LeastNatural
  <2>3. Seek(index, key) \in above /\ \A other \in above : Seek(index, key) <= other
    <3> HIDE DEF above
    <3> QED  BY <1>3, <1>5, <2>2
  <2>4. PICK f \in facts : Seek(index, key) = encode_triple_key(f, index)
    BY <2>3
  <2> QED  BY <1>1, <2>3, <2>4
<1> QED  BY <1>1, <1>4, <1>5

\* A key of a trie is the key of one fact.
LEMMA FactAtKey ==
    ASSUME StoreInv, NEW index \in DOMAIN Trie, NEW f \in facts
    PROVE  Fact(index, encode_triple_key(f, index)) = f
<1>1. hexastore[index] = facts /\ facts \subseteq [Columns -> Symbols]
  BY FactsFinite DEF StoreInv
<1> DEFINE g == Fact(index, encode_triple_key(f, index))
<1>2. g \in facts /\ encode_triple_key(g, index) = encode_triple_key(f, index)
  BY <1>1, Zenon DEF Fact
<1> HIDE DEF g
<1>3. g \in [Columns -> Symbols] /\ f \in [Columns -> Symbols]
  BY <1>1, <1>2
<1>4. g = f
  BY <1>2, <1>3, KeyInjective
<1> QED  BY <1>4 DEF g

\* The fields of a new cursor.
LEMMA OpenedFields ==
    ASSUME StoreInv, NEW p, \A n \in Columns : p[n] \in Terms
    PROVE  LET x == facts_with_spo(p)
               low == [n \in Columns |-> IF p[n] \in Var THEN P_FIRST ELSE p[n]]
               high == [n \in Columns |-> IF p[n] \in Var THEN P_LAST ELSE p[n]]
           IN  /\ x.var = [n \in Columns |-> IF p[n] \in Var THEN p[n] ELSE NoVar]
               /\ x.index = TrieFor(x.var) /\ x.index \in DOMAIN Trie
               /\ x.end_key = encode_triple_key(high, x.index)
               /\ x.started \in {0, 2}
               /\ x.started = 0 => x.it = Seek(x.index, encode_triple_key(low, x.index))
               /\ x.started = 2 => Matching(p) = {}
<1> DEFINE x == facts_with_spo(p)
           low == [n \in Columns |-> IF p[n] \in Var THEN P_FIRST ELSE p[n]]
           high == [n \in Columns |-> IF p[n] \in Var THEN P_LAST ELSE p[n]]
           var == [n \in Columns |-> IF p[n] \in Var THEN p[n] ELSE NoVar]
           Bound(blank) == [n \in Columns |-> IF var[n] = NoVar THEN p[n] ELSE blank]
           known == \A n \in Columns : var[n] = NoVar => usage(p[n]) > 0
<1>1. \A n \in Columns : var[n] = NoVar <=> p[n] \notin Var
  BY QueryAssumption
<1>2. /\ x.var = var /\ x.index = TrieFor(var)
      /\ x.it = IF known THEN Seek(TrieFor(var), encode_triple_key(Bound(P_FIRST), TrieFor(var))) ELSE EOF
      /\ x.end_key = encode_triple_key(Bound(P_LAST), TrieFor(var))
      /\ x.started = IF known THEN 0 ELSE 2
  BY DEF facts_with_spo
<1>3. Bound(P_FIRST) = low /\ Bound(P_LAST) = high
  BY <1>1
<1>4. x.index \in DOMAIN Trie
  BY <1>2, ConstantsFirst
<1>5. ASSUME ~ known PROVE Matching(p) = {}
  <2>1. PICK n \in Columns : p[n] \notin Var /\ ~ (usage(p[n]) > 0)
    BY <1>1, <1>5
  <2> DEFINE U == {use \in facts \X Columns : use[1][use[2]] = p[n]}
  <2>2. IsFiniteSet(U) /\ usage(p[n]) = interned[p[n]] + Cardinality(U) /\ interned[p[n]] \in Nat
    <3>1. U \in SUBSET (facts \X Columns)
      OBVIOUS
    <3>2. p[n] \in Symbols
      BY <2>1 DEF Terms
    <3> QED  BY <3>1, <3>2, FactsFinite, FS_Subset DEF usage, StoreInv
  <2>3. U = {}
    <3> HIDE DEF U
    <3>1. Cardinality(U) \in Nat
      BY <2>2, FS_CardinalityType
    <3> QED  BY <2>1, <2>2, <3>1, FS_EmptySet
  <2>4. ASSUME NEW f \in facts, \A m \in Columns : p[m] \in Var \union {f[m]} PROVE FALSE
    <3>1. p[n] = f[n]
      BY <2>1, <2>4
    <3>2. <<f, n>> \in U
      BY <3>1
    <3> QED  BY <2>3, <3>2
  <2> QED  BY <2>4 DEF Matching
<1> HIDE DEF known, x, var, low, high, Bound
<1> QED  BY <1>2, <1>3, <1>4, <1>5 DEF x, var, low, high

\* A cursor over the facts of a pattern, wherever it is.
CursorFits(x, p) ==
    LET opened == facts_with_spo(p)
    IN  /\ x.index = opened.index /\ x.var = opened.var /\ x.end_key = opened.end_key
        /\ x.started \in {0, 1, 2}
        /\ x.started = 0 => x.it = opened.it /\ opened.started = 0
        /\ x.started = 1 => \E f \in Matching(p) : x.it = encode_triple_key(f, x.index)
        /\ x.started = 2 => Matching(p) = {}

\* facts_cursor_next goes to the next fact of the pattern in the order of the
\* keys, and ends when there is none.
LEMMA CursorFinds ==
    ASSUME StoreInv, NEW p, \A n \in Columns : p[n] \in Terms, NEW x, IsCursor(x), CursorFits(x, p)
    PROVE  /\ x.index \in DOMAIN Trie
           /\ \A f \in facts : encode_triple_key(f, x.index) \in Nat
           /\ x.started = 1 => x.it \in Nat
           /\ Finds(x) => \E f \in Matching(p) :
                  /\ Moved(x).it = encode_triple_key(f, x.index)
                  /\ Fact(x.index, Moved(x).it) = f
                  /\ x.started = 1 => encode_triple_key(f, x.index) > x.it
                  /\ \A g \in Matching(p) : x.started = 0 \/ encode_triple_key(g, x.index) > x.it =>
                         encode_triple_key(f, x.index) <= encode_triple_key(g, x.index)
           /\ ~Finds(x) => \A g \in Matching(p) : x.started = 1 /\ encode_triple_key(g, x.index) <= x.it
<1> DEFINE low == [n \in Columns |-> IF p[n] \in Var THEN P_FIRST ELSE p[n]]
           high == [n \in Columns |-> IF p[n] \in Var THEN P_LAST ELSE p[n]]
           var == [n \in Columns |-> IF p[n] \in Var THEN p[n] ELSE NoVar]
           K(f) == encode_triple_key(f, x.index)
           first == encode_triple_key(low, x.index)
           opened == facts_with_spo(p)
           it == Moved(x).it
<1>1. /\ x.index = TrieFor(var) /\ x.index \in DOMAIN Trie /\ x.end_key = encode_triple_key(high, x.index)
      /\ opened.started = 0 => opened.it = Seek(x.index, first)
  BY OpenedFields DEF CursorFits
<1>2. \A f \in facts : /\ K(f) \in Nat /\ first \in Nat /\ x.end_key \in Nat
                       /\ f \in Matching(p) <=> first <= K(f) /\ K(f) <= x.end_key
  <2> SUFFICES ASSUME NEW f \in facts
               PROVE  /\ K(f) \in Nat /\ first \in Nat /\ x.end_key \in Nat
                      /\ f \in Matching(p) <=> first <= K(f) /\ K(f) <= x.end_key
    OBVIOUS
  <2>1. f \in [Columns -> Symbols]
    BY FactsFinite
  <2> HIDE DEF low, high
  <2>2. /\ (first <= K(f) /\ K(f) <= x.end_key) <=> \A n \in Columns : p[n] \in Var \union {f[n]}
        /\ K(f) \in Nat /\ first \in Nat /\ x.end_key \in Nat
    BY <1>1, <2>1, RangeFits DEF low, high
  <2> QED  BY <2>2 DEF Matching
<1>3. Matching(p) \subseteq facts
  BY DEF Matching
<1>4. x.started = 1 => x.it \in Nat
  BY <1>2, <1>3 DEF CursorFits
<1>5. CASE x.started = 2
  <2>1. Matching(p) = {} /\ ~ Finds(x)
    BY <1>5 DEF CursorFits, Finds
  <2> QED  BY <1>1, <1>2, <1>4, <1>5, <2>1
<1>6. CASE facts = {}
  <2>1. Matching(p) = {} /\ x.started # 1
    BY <1>3, <1>6 DEF CursorFits
  <2>2. x.started = 0 => it = EOF
    <3> SUFFICES ASSUME x.started = 0 PROVE it = EOF
      OBVIOUS
    <3>1. it = x.it
      BY DEF Moved, IsCursor
    <3>2. x.it = Seek(x.index, first)
      BY <1>1 DEF CursorFits
    <3>3. {encode_triple_key(f, x.index) : f \in hexastore[x.index]} = {}
      BY <1>1, <1>6 DEF StoreInv
    <3> QED  BY <3>1, <3>2, <3>3, Zenon DEF Seek
  <2>3. ~ Finds(x)
    BY <2>1, <2>2 DEF Finds, CursorFits
  <2> QED  BY <1>1, <1>2, <1>4, <2>1, <2>3
<1>7. CASE x.started # 2 /\ facts # {}
  <2> DEFINE from == IF x.started = 0 THEN first ELSE x.it + 1
  <2>1. from \in Nat
    BY <1>2, <1>4, <1>7 DEF CursorFits
  <2>2. it = Seek(x.index, from)
    <3>1. CASE x.started = 0
      <4>1. it = x.it
        BY <3>1 DEF Moved, IsCursor
      <4> QED  BY <1>1, <3>1, <4>1 DEF CursorFits
    <3>2. CASE x.started = 1
      <4>1. x.it # EOF
        BY <1>4, <3>2 DEF EOF
      <4> QED  BY <3>2, <4>1 DEF Moved, IsCursor
    <3> QED  BY <1>7, <3>1, <3>2 DEF CursorFits
  <2>3. \A g \in facts : g \in Matching(p) /\ (x.started = 0 \/ K(g) > x.it) <=> from <= K(g) /\ K(g) <= x.end_key
    <3> SUFFICES ASSUME NEW g \in facts
                 PROVE  g \in Matching(p) /\ (x.started = 0 \/ K(g) > x.it) <=> from <= K(g) /\ K(g) <= x.end_key
      OBVIOUS
    <3>0. K(g) \in Nat /\ first \in Nat /\ x.end_key \in Nat /\ (g \in Matching(p) <=> first <= K(g) /\ K(g) <= x.end_key)
      BY <1>2
    <3> HIDE DEF K, first
    <3>1. CASE x.started = 0
      BY <3>0, <3>1
    <3>2. CASE x.started = 1
      <4>1. PICK f \in Matching(p) : x.it = K(f)
        BY <3>2 DEF CursorFits, K
      <4>2. first <= x.it /\ x.it \in Nat
        BY <1>2, <1>3, <4>1 DEF first, K
      <4> QED  BY <3>0, <3>2, <4>2
    <3> QED  BY <1>7, <3>1, <3>2 DEF CursorFits
  <2> HIDE DEF from, first
  <2>4. Finds(x) <=> it # EOF /\ it <= x.end_key
    BY <1>7 DEF Finds
  <2>5. CASE Finds(x)
    <3>1. it # EOF
      BY <2>4, <2>5
    <3>2. PICK f \in facts : it = K(f) /\ K(f) >= from /\ \A g \in facts : K(g) >= from => K(f) <= K(g)
      BY <1>1, <2>1, <2>2, <3>1, SeekFacts
    <3>3. f \in Matching(p) /\ (x.started = 0 \/ K(f) > x.it)
      BY <1>2, <2>1, <2>3, <2>4, <2>5, <3>2
    <3>4. Fact(x.index, it) = f
      BY <1>1, <3>2, FactAtKey
    <3>5. \A g \in Matching(p) : x.started = 0 \/ K(g) > x.it => K(f) <= K(g)
      BY <1>2, <1>3, <2>1, <2>3, <3>2
    <3> HIDE DEF K
    <3> QED  BY <1>1, <1>2, <1>4, <2>5, <3>2, <3>3, <3>4, <3>5 DEF K
  <2>6. CASE ~ Finds(x)
    <3>1. ASSUME NEW g \in Matching(p) PROVE x.started = 1 /\ K(g) <= x.it
      <4>1. g \in facts /\ K(g) \in Nat /\ x.end_key \in Nat
        BY <1>2, <1>3
      <4>2. ~ (from <= K(g) /\ K(g) <= x.end_key)
        <5>1. CASE it = EOF
          <6>1. \A f \in facts : K(f) < from
            BY <1>1, <2>1, <2>2, <5>1, SeekFacts, <1>2 DEF EOF
          <6> HIDE DEF K
          <6> QED  BY <2>1, <4>1, <6>1
        <5>2. CASE it # EOF
          <6>1. PICK f \in facts : it = K(f) /\ K(f) >= from /\ \A h \in facts : K(h) >= from => K(f) <= K(h)
            BY <1>1, <2>1, <2>2, <5>2, SeekFacts
          <6>2. ~ (it <= x.end_key) /\ it \in Nat
            BY <1>2, <2>4, <2>6, <5>2, <6>1
          <6> HIDE DEF K, it
          <6> QED  BY <2>1, <4>1, <6>1, <6>2
        <5> QED  BY <5>1, <5>2
      <4>3. ~ (x.started = 0 \/ K(g) > x.it)
        BY <2>3, <4>1, <4>2
      <4> HIDE DEF K
      <4> QED  BY <1>4, <1>7, <4>1, <4>3 DEF CursorFits
    <3> QED  BY <1>1, <1>2, <1>4, <2>6, <3>1
  <2> QED  BY <2>5, <2>6
<1> QED  BY <1>5, <1>6, <1>7

-----------------------------------------------------------------------------
(* The patterns and the values bound *)

\* The hypothesis of the theorems about answers: see Searchable.
SearchableQueries == \A triples \in Asked : Searchable(triples)

\* The locks, the store, the patterns and the search, together: no part is kept
\* without the others.
QueryInv == LockInv /\ StoreInv /\ SpecInv /\ SearchInv

\* What a variable holds.
Values == Symbols \union {NULL}

\* An id is neither NULL nor a variable.
LEMMA SymbolFacts == NULL \notin Symbols /\ (\A v \in Var : v \notin Symbols) /\ NoVar \notin Var
<1>1. NULL \notin Symbols
  BY Bounds DEF NULL
<1> QED  BY <1>1, QueryAssumption

\* The pattern of a triple.
LEMMA PatternFacts ==
    ASSUME SearchableQueries, NEW triples \in Asked, NEW t \in ToSet(triples), NEW p, p = Pattern(t)
    PROVE  /\ p = [n \in 1..4 |-> p[n]] /\ \A n \in Columns : p[n] \in Terms
           /\ Negated(p) = t.negated /\ t.negated \in BOOLEAN
           /\ ~t.negated => \A i, j \in Columns : p[i] \in Var /\ p[i] = p[j] => i = j
<1>1. PICK n \in DOMAIN triples : t = triples[n]
  BY DEF ToSet
<1> DEFINE R == [s : Terms, p : Terms, o : Terms, negated : BOOLEAN]
<1>2. triples \in Seq(R)
  BY QueryAssumption DEF Terms
<1>3. t \in R
  <2> HIDE DEF R
  <2> QED  BY <1>1, <1>2
<1>4. p = <<t.s, t.p, t.o, t.negated>>
  BY DEF Pattern
<1>5. \A m \in Columns : p[m] \in Terms
  BY <1>3, <1>4 DEF Columns
<1>6. p = [m \in 1..4 |-> p[m]] /\ Negated(p) = t.negated /\ t.negated \in BOOLEAN
  BY <1>3, <1>4 DEF Negated
<1>7. ~t.negated => \A i, j \in Columns : p[i] \in Var /\ p[i] = p[j] => i = j
  BY <1>1 DEF SearchableQueries, Searchable
<1> QED  BY <1>5, <1>6, <1>7

\* What a search may rely on.
LEMMA SpecFacts ==
    ASSUME SearchableQueries, LockInv, SpecInv, c.facts_count # 0
    PROVE  /\ c.facts_count \in Nat /\ c.facts_count = Len(c.spec) /\ c.locked = 1
           /\ asked.triples # <<>>
           /\ \A k \in 1..c.facts_count :
                 /\ \E t \in ToSet(asked.triples) : c.spec[k] = Pattern(t)
                 /\ c.spec[k] = [n \in 1..4 |-> c.spec[k][n]] /\ \A n \in Columns : c.spec[k][n] \in Terms
                 /\ Negated(c.spec[k]) \in BOOLEAN /\ (Negated(c.spec[k]) => k = c.facts_count)
                 /\ ~Negated(c.spec[k]) => \A i, j \in Columns : c.spec[k][i] \in Var /\ c.spec[k][i] = c.spec[k][j] => i = j
           /\ \A t \in ToSet(asked.triples) :
                 /\ \E k \in 1..c.facts_count : c.spec[k] = Pattern(t)
                 /\ Negated(Pattern(t)) = t.negated
<1> DEFINE N == c.facts_count
<1>1. /\ N \in Nat /\ N = Len(c.spec) /\ c.locked = 1
      /\ {c.spec[k] : k \in 1..N} = {Pattern(t) : t \in ToSet(asked.triples)} /\ asked.triples \in Asked
      /\ \A k \in 1..(N - 1) : ~Negated(c.spec[k])
  BY DEF SpecInv
<1>2. ASSUME NEW k \in 1..N
      PROVE  /\ \E t \in ToSet(asked.triples) : c.spec[k] = Pattern(t)
             /\ c.spec[k] = [n \in 1..4 |-> c.spec[k][n]] /\ \A n \in Columns : c.spec[k][n] \in Terms
             /\ Negated(c.spec[k]) \in BOOLEAN /\ (Negated(c.spec[k]) => k = N)
             /\ ~Negated(c.spec[k]) => \A i, j \in Columns : c.spec[k][i] \in Var /\ c.spec[k][i] = c.spec[k][j] => i = j
  <2>1. PICK t \in ToSet(asked.triples) : c.spec[k] = Pattern(t)
    BY <1>1
  <2>2. Negated(c.spec[k]) => k = N
    BY <1>1
  <2> QED  BY <1>1, <2>1, <2>2, PatternFacts
<1>3. ASSUME NEW t \in ToSet(asked.triples)
      PROVE  (\E k \in 1..N : c.spec[k] = Pattern(t)) /\ Negated(Pattern(t)) = t.negated
  BY <1>1, PatternFacts
<1>4. asked.triples # <<>>
  <2>1. 1 \in 1..N
    BY <1>1
  <2>2. PICK t \in ToSet(asked.triples) : c.spec[1] = Pattern(t)
    BY <1>2, <2>1
  <2>3. asked.triples = <<>> => ToSet(asked.triples) = {}
    BY DEF ToSet
  <2> QED  BY <2>2, <2>3
<1> QED  BY <1>1, <1>2, <1>3, <1>4

\* A pattern with values in place of variables.
LEMMA Substitution ==
    ASSUME NEW p, \A n \in Columns : p[n] \in Terms, NEW b \in [Var -> Values]
    PROVE  LET q == Substituted(p, b)
           IN  /\ q = [n \in 1..4 |-> q[n]] /\ Negated(q) = Negated(p)
               /\ \A n \in Columns : /\ q[n] \in Terms
                                     /\ p[n] \notin Var => q[n] = p[n]
                                     /\ p[n] \in Var => q[n] = (IF b[p[n]] # NULL THEN b[p[n]] ELSE p[n])
                                     /\ p[n] \in Var /\ b[p[n]] # NULL => q[n] \notin Var
<1> DEFINE q == Substituted(p, b)
<1>1. q = [n \in 1..4 |-> q[n]] /\ q[4] = p[4]
  BY DEF Substituted, Columns
<1>2. \A n \in Columns : q[n] = IF p[n] \in Var /\ b[p[n]] # NULL THEN b[p[n]] ELSE p[n]
  BY DEF Substituted, Columns
<1>3. \A v \in Var : b[v] # NULL => b[v] \in Symbols /\ b[v] \notin Var
  BY SymbolFacts DEF Values
<1> HIDE DEF q
<1> QED  BY <1>1, <1>2, <1>3 DEF Negated, Terms, q

\* The values of the levels above are put in again: nothing changes.
LEMMA SubstitutedTwice ==
    ASSUME NEW p, \A n \in Columns : p[n] \in Terms, NEW a \in [Var -> Values], NEW b \in [Var -> Values],
           \A v \in Var : a[v] \in {NULL, b[v]}
    PROVE  Substituted(Substituted(p, a), b) = Substituted(p, b)
<1> DEFINE q == Substituted(p, a)
           r == Substituted(q, b)
           s == Substituted(p, b)
<1>1. /\ Negated(q) = Negated(p) /\ \A n \in Columns : q[n] \in Terms
      /\ \A n \in Columns : /\ p[n] \notin Var => q[n] = p[n]
                            /\ p[n] \in Var => q[n] = (IF a[p[n]] # NULL THEN a[p[n]] ELSE p[n])
                            /\ p[n] \in Var /\ a[p[n]] # NULL => q[n] \notin Var
  BY Substitution
<1> HIDE DEF q
<1>2. /\ r = [n \in 1..4 |-> r[n]] /\ Negated(r) = Negated(q)
      /\ \A n \in Columns : /\ q[n] \notin Var => r[n] = q[n]
                            /\ q[n] \in Var => r[n] = (IF b[q[n]] # NULL THEN b[q[n]] ELSE q[n])
  BY <1>1, Substitution
<1>3. /\ s = [n \in 1..4 |-> s[n]] /\ Negated(s) = Negated(p)
      /\ \A n \in Columns : /\ p[n] \notin Var => s[n] = p[n]
                            /\ p[n] \in Var => s[n] = (IF b[p[n]] # NULL THEN b[p[n]] ELSE p[n])
  BY Substitution
<1> HIDE DEF r, s
<1>4. ASSUME NEW n \in Columns PROVE r[n] = s[n]
  <2>1. CASE p[n] \notin Var
    BY <1>1, <1>2, <1>3, <2>1
  <2>2. CASE p[n] \in Var /\ a[p[n]] = NULL
    BY <1>1, <1>2, <1>3, <2>2
  <2>3. CASE p[n] \in Var /\ a[p[n]] # NULL
    BY <1>1, <1>2, <1>3, <2>3
  <2> QED  BY <2>1, <2>2, <2>3
<1>5. r[4] = s[4]
  BY <1>1, <1>2, <1>3 DEF Negated
<1>6. \A n \in 1..4 : r[n] = s[n]
  BY <1>4, <1>5 DEF Columns
<1>7. r = s
  BY <1>2, <1>3, <1>6
<1> QED  BY <1>7 DEF q, r, s

\* The variables bound before each level.
LEMMA BoundFacts ==
    ASSUME SearchableQueries, LockInv, SpecInv, c.facts_count # 0
    PROVE  /\ BoundBefore(1) = {}
           /\ \A k \in 1..c.facts_count :
                 /\ BoundBefore(k) \subseteq Var
                 /\ BoundBefore(k + 1) = BoundBefore(k) \union (IF Negated(c.spec[k]) THEN {} ELSE VarsOf(c.spec[k]))
                 /\ \A j \in 1..k : BoundBefore(j) \subseteq BoundBefore(k)
                 /\ \A j \in 1..(k - 1) : ~Negated(c.spec[j]) /\ VarsOf(c.spec[j]) \subseteq BoundBefore(k)
           /\ BoundBefore(c.facts_count + 1) = InPositive
<1> DEFINE N == c.facts_count
<1>1. /\ N \in Nat
      /\ \A k \in 1..N : /\ Negated(c.spec[k]) \in BOOLEAN /\ (Negated(c.spec[k]) => k = N)
                         /\ \E t \in ToSet(asked.triples) : c.spec[k] = Pattern(t)
      /\ \A t \in ToSet(asked.triples) : /\ \E k \in 1..N : c.spec[k] = Pattern(t)
                                         /\ Negated(Pattern(t)) = t.negated
  BY SpecFacts
<1>2. \A k, v : v \in BoundBefore(k) <=> \E j \in 1..(k - 1) : ~Negated(c.spec[j]) /\ v \in VarsOf(c.spec[j])
  BY DEF BoundBefore
<1>3. \A p : VarsOf(p) \subseteq Var
  BY DEF VarsOf
<1>4. BoundBefore(1) = {}
  <2>1. 1..(1 - 1) = {}
    OBVIOUS
  <2> QED  BY <1>2, <2>1
<1> HIDE DEF N
<1>5. ASSUME NEW k \in 1..N
      PROVE  /\ BoundBefore(k) \subseteq Var
             /\ BoundBefore(k + 1) = BoundBefore(k) \union (IF Negated(c.spec[k]) THEN {} ELSE VarsOf(c.spec[k]))
             /\ \A j \in 1..k : BoundBefore(j) \subseteq BoundBefore(k)
             /\ \A j \in 1..(k - 1) : ~Negated(c.spec[j]) /\ VarsOf(c.spec[j]) \subseteq BoundBefore(k)
  <2>1. BoundBefore(k) \subseteq Var
    BY <1>2, <1>3
  <2>2. \A j \in Int : j \in 1..(k + 1 - 1) <=> j \in 1..(k - 1) \/ j = k
    BY <1>1
  <2>3. BoundBefore(k + 1) = BoundBefore(k) \union (IF Negated(c.spec[k]) THEN {} ELSE VarsOf(c.spec[k]))
    <3>1. ASSUME NEW v PROVE v \in BoundBefore(k + 1) <=> v \in BoundBefore(k) \/ (~Negated(c.spec[k]) /\ v \in VarsOf(c.spec[k]))
      BY <1>2, <2>2
    <3> QED  BY <3>1
  <2>4. \A j \in 1..k : 1..(j - 1) \subseteq 1..(k - 1)
    BY <1>1
  <2>5. \A j \in 1..k : BoundBefore(j) \subseteq BoundBefore(k)
    <3> SUFFICES ASSUME NEW j \in 1..k, NEW v \in BoundBefore(j) PROVE v \in BoundBefore(k)
      OBVIOUS
    <3>1. PICK i \in 1..(j - 1) : ~Negated(c.spec[i]) /\ v \in VarsOf(c.spec[i])
      BY <1>2
    <3>2. i \in 1..(k - 1)
      BY <2>4
    <3> QED  BY <1>2, <3>1, <3>2
  <2>6. \A j \in 1..(k - 1) : j \in 1..N /\ j # N
    BY <1>1
  <2> QED  BY <1>1, <1>2, <2>1, <2>3, <2>5, <2>6
<1>6. \A v : v \in InPositive <=> \E t \in ToSet(asked.triples) : ~t.negated /\ v \in VarsOf(Pattern(t))
  BY DEF InPositive
<1>7. \A v : v \in BoundBefore(N + 1) <=> v \in InPositive
  <2> DEFINE m == N + 1
  <2>1. 1..(m - 1) = 1..N
    BY <1>1
  <2> HIDE DEF m
  <2>2. \A v : v \in BoundBefore(m) <=> \E j \in 1..N : ~Negated(c.spec[j]) /\ v \in VarsOf(c.spec[j])
    BY <1>2, <2>1
  <2>3. \A v : v \in BoundBefore(m) <=> v \in InPositive
    BY <1>1, <1>6, <2>2
  <2> QED  BY <2>3 DEF m
<1> QED  BY <1>4, <1>5, <1>7 DEF N

\* The answers in terms of the levels.
LEMMA AnswerFacts ==
    ASSUME SearchableQueries, LockInv, SpecInv, StoreInv, c.facts_count # 0, NEW b
    PROVE  b \in AllAnswers <=>
              /\ b \in [Var -> Values]
              /\ \A v \in Var : b[v] # NULL <=> v \in InPositive
              /\ \A k \in 1..c.facts_count :
                    IF Negated(c.spec[k])
                    THEN ~\E f \in facts : \A n \in Columns : Value(b, c.spec[k][n]) \in {NULL, f[n]}
                    ELSE Row(b, k) \in facts
<1> DEFINE N == c.facts_count
           None(k) == ~\E f \in facts : \A n \in Columns : Value(b, c.spec[k][n]) \in {NULL, f[n]}
           Part(k) == IF Negated(c.spec[k]) THEN None(k) ELSE Row(b, k) \in facts
           Bound == \A v \in Var : b[v] # NULL <=> v \in InPositive
<1>1. b \in AllAnswers <=> b \in [Var -> Values] /\ IsAnswer(b)
  BY DEF AllAnswers, Values
<1>2. IsAnswer(b) <=> Bound /\ \A t \in ToSet(asked.triples) : t.negated <=> ~\E f \in facts : Fits(b, t, f)
  BY SpecFacts, Zenon DEF IsAnswer
<1>3. ASSUME b \in [Var -> Values], Bound, NEW t \in ToSet(asked.triples), NEW k \in 1..N, c.spec[k] = Pattern(t)
      PROVE  (t.negated <=> ~\E f \in facts : Fits(b, t, f)) <=> Part(k)
  <2>1. /\ Negated(c.spec[k]) = t.negated /\ t.negated \in BOOLEAN
        /\ \A n \in Columns : c.spec[k][n] \in Terms
    BY <1>3, SpecFacts
  <2>2. (~\E f \in facts : Fits(b, t, f)) <=> None(k)
    BY <1>3 DEF Fits
  <2>3. CASE t.negated
    BY <2>1, <2>2, <2>3
  <2>4. CASE ~t.negated
    <3>1. \A n \in Columns : Value(b, c.spec[k][n]) # NULL
      <4> SUFFICES ASSUME NEW n \in Columns PROVE Value(b, c.spec[k][n]) # NULL
        OBVIOUS
      <4>1. CASE c.spec[k][n] \notin Var
        BY <2>1, <4>1, SymbolFacts DEF Value, Terms
      <4>2. CASE c.spec[k][n] \in Var
        <5>1. c.spec[k][n] \in VarsOf(Pattern(t))
          BY <1>3, <4>2 DEF VarsOf
        <5>2. c.spec[k][n] \in InPositive
          BY <2>4, <5>1 DEF InPositive
        <5> QED  BY <1>3, <4>2, <5>2 DEF Value
      <4> QED  BY <4>1, <4>2
    <3>2. ASSUME NEW f \in facts, \A n \in Columns : Value(b, c.spec[k][n]) \in {NULL, f[n]} PROVE Row(b, k) \in facts
      <4>1. f \in [Columns -> Symbols]
        BY FactsFinite
      <4>2. \A n \in Columns : Value(b, c.spec[k][n]) = f[n]
        BY <3>1, <3>2
      <4>3. Row(b, k) = f
        BY <4>1, <4>2 DEF Row
      <4> QED  BY <4>3
    <3>3. ASSUME Row(b, k) \in facts PROVE \E f \in facts : \A n \in Columns : Value(b, c.spec[k][n]) \in {NULL, f[n]}
      <4>1. \A n \in Columns : Value(b, c.spec[k][n]) \in {NULL, Row(b, k)[n]}
        BY DEF Row
      <4> QED  BY <3>3, <4>1
    <3> QED  BY <2>1, <2>2, <2>4, <3>2, <3>3
  <2> QED  BY <2>1, <2>3, <2>4
<1> HIDE DEF Part
<1>4. ASSUME b \in [Var -> Values], Bound
      PROVE  (\A t \in ToSet(asked.triples) : t.negated <=> ~\E f \in facts : Fits(b, t, f)) <=> \A k \in 1..N : Part(k)
  <2>1. \A t \in ToSet(asked.triples) : \E k \in 1..N : c.spec[k] = Pattern(t)
    BY SpecFacts
  <2>2. \A k \in 1..N : \E t \in ToSet(asked.triples) : c.spec[k] = Pattern(t)
    BY SpecFacts
  <2> QED  BY <1>3, <1>4, <2>1, <2>2
<1>5. b \in AllAnswers <=> b \in [Var -> Values] /\ Bound /\ \A k \in 1..N : Part(k)
  BY <1>1, <1>2, <1>4
<1> QED  BY <1>5 DEF Part

\* The fact that a positive level sees under a binding that fits the levels above.
LEMMA RowMatches ==
    ASSUME SearchableQueries, LockInv, SpecInv, c.facts_count # 0, NEW k \in 1..c.facts_count,
           bindings \in [Var -> Values], NEW b \in [Var -> Values], Row(b, k) \in facts, Agrees(b, k)
    PROVE  Row(b, k) \in Matching(Narrowed(k))
<1>1. \A n \in Columns : c.spec[k][n] \in Terms
  BY SpecFacts
<1>2. Given(k) \in [Var -> Values] /\ \A v \in Var : Given(k)[v] \in {NULL, b[v]}
  BY DEF Given, Agrees, Values
<1>3. ASSUME NEW n \in Columns PROVE Narrowed(k)[n] \in Var \union {Row(b, k)[n]}
  <2>1. /\ c.spec[k][n] \notin Var => Narrowed(k)[n] = c.spec[k][n]
        /\ c.spec[k][n] \in Var => Narrowed(k)[n] = IF Given(k)[c.spec[k][n]] # NULL THEN Given(k)[c.spec[k][n]] ELSE c.spec[k][n]
    BY <1>1, <1>2, Substitution DEF Narrowed
  <2>2. Row(b, k)[n] = Value(b, c.spec[k][n])
    BY DEF Row
  <2>3. CASE c.spec[k][n] \notin Var
    BY <2>1, <2>2, <2>3 DEF Value
  <2>4. CASE c.spec[k][n] \in Var
    BY <1>2, <2>1, <2>2, <2>4 DEF Value
  <2> QED  BY <2>3, <2>4
<1> QED  BY <1>3 DEF Matching

\* Equal facts are equal values.
LEMMA RowEqual ==
    ASSUME NEW k, NEW a, NEW b
    PROVE  Row(a, k) = Row(b, k) <=> \A v \in VarsOf(c.spec[k]) : a[v] = b[v]
<1>1. ASSUME Row(a, k) = Row(b, k), NEW v \in VarsOf(c.spec[k]) PROVE a[v] = b[v]
  <2>1. PICK n \in Columns : v = c.spec[k][n] /\ v \in Var
    BY DEF VarsOf
  <2>2. Row(a, k)[n] = a[v] /\ Row(b, k)[n] = b[v]
    BY <2>1 DEF Row, Value
  <2> QED  BY <1>1, <2>2
<1>2. ASSUME \A v \in VarsOf(c.spec[k]) : a[v] = b[v] PROVE Row(a, k) = Row(b, k)
  <2>1. \A n \in Columns : Value(a, c.spec[k][n]) = Value(b, c.spec[k][n])
    BY <1>2 DEF Value, VarsOf
  <2> QED  BY <2>1 DEF Row
<1> QED  BY <1>1, <1>2

\* What a level of a search that may go on looks like.
LEMMA LevelCursor ==
    ASSUME SearchableQueries, QueryInv, Searching, NEW k \in 1..c.facts_count, c.l[k].spec_init = 1
    PROVE  /\ \A n \in Columns : Narrowed(k)[n] \in Terms
           /\ Negated(Narrowed(k)) = Negated(c.spec[k])
           /\ c.l[k].spec[1] = Narrowed(k)
           /\ IsCursor(c.l[k].cursor) /\ CursorFits(c.l[k].cursor, Narrowed(k))
           /\ c.l[k].cursor.var = [n \in Columns |-> IF Narrowed(k)[n] \in Var THEN Narrowed(k)[n] ELSE NoVar]
           /\ Found(k) => ~Negated(c.spec[k]) /\ Row(bindings, k) \in Matching(Narrowed(k)) /\ c.l[k].cursor.it = Key(bindings, k)
           /\ c.l[k].cursor.started = 2 => Matching(Narrowed(k)) = {}
<1> DEFINE x == c.l[k].cursor
           opened == facts_with_spo(Narrowed(k))
<1>0. c.facts_count # 0 /\ LockInv /\ StoreInv /\ SpecInv /\ SearchInv /\ bindings \in [Var -> Values] /\ LevelFits(k)
  BY DEF QueryInv, Searching, SearchInv, BindingsFit, Values
<1>1. \A n \in Columns : c.spec[k][n] \in Terms
  BY <1>0, SpecFacts
<1>2. Given(k) \in [Var -> Values] /\ Agrees(bindings, k)
  BY <1>0 DEF Given, Agrees, Values
<1>3. (\A n \in Columns : Narrowed(k)[n] \in Terms) /\ Negated(Narrowed(k)) = Negated(c.spec[k])
  BY <1>1, <1>2, Substitution DEF Narrowed
<1>4. /\ c.l[k].spec = [m \in 1..(Len(c.spec) - k + 1) |-> Substituted(c.spec[k + m - 1], Given(k))]
      /\ x.index = opened.index /\ x.var = opened.var /\ x.end_key = opened.end_key
      /\ x.started \in {0, 1, 2}
      /\ x.started = 0 => x = opened
      /\ x.started = 1 => ~Negated(c.spec[k]) /\ Row(bindings, k) \in facts /\ x.it = Key(bindings, k)
      /\ x.started = 2 => Matching(Narrowed(k)) = {}
  BY <1>0, Zenon DEF LevelFits
<1>5. k \in DOMAIN c.l
  BY <1>0 DEF LockInv, LevelsOK
<1>6. IsCursor(x)
  BY <1>0, <1>5 DEF LockInv, LevelsOK, IsLevel
<1>7. Found(k) => ~Negated(c.spec[k]) /\ Row(bindings, k) \in Matching(Narrowed(k)) /\ x.it = Key(bindings, k)
  BY <1>0, <1>2, <1>4, RowMatches DEF Found
<1>8. CursorFits(x, Narrowed(k))
  <2>1. x.started = 1 => \E f \in Matching(Narrowed(k)) : x.it = encode_triple_key(f, x.index)
    <3> SUFFICES ASSUME x.started = 1 PROVE \E f \in Matching(Narrowed(k)) : x.it = encode_triple_key(f, x.index)
      OBVIOUS
    <3>1. Row(bindings, k) \in Matching(Narrowed(k)) /\ x.it = encode_triple_key(Row(bindings, k), x.index)
      BY <1>7 DEF Found, Key
    <3> QED  BY <3>1
  <2>2. x.started = 0 => x.it = opened.it /\ opened.started = 0
    BY <1>4
  <2> HIDE DEF x, opened
  <2> QED  BY <1>4, <2>1, <2>2 DEF CursorFits, x, opened
<1>9. x.var = [n \in Columns |-> IF Narrowed(k)[n] \in Var THEN Narrowed(k)[n] ELSE NoVar]
  BY <1>0, <1>3, <1>4, OpenedFields
<1>10. c.l[k].spec[1] = Narrowed(k)
  <2>1. Len(c.spec) = c.facts_count /\ c.facts_count \in Nat
    BY <1>0, SpecFacts
  <2>2. 1 \in 1..(Len(c.spec) - k + 1) /\ k + 1 - 1 = k
    BY <2>1
  <2>3. c.l[k].spec[1] = Substituted(c.spec[k + 1 - 1], Given(k))
    BY <1>4, <2>2
  <2> QED  BY <2>2, <2>3, Zenon DEF Narrowed
<1> QED  BY <1>3, <1>4, <1>6, <1>7, <1>8, <1>9, <1>10

\* The variables that have a value.
LEMMA BindingsNow ==
    ASSUME SearchableQueries, QueryInv, Searching
    PROVE  /\ c.facts_count # 0 /\ c.facts_count \in Nat /\ c.level \in Nat /\ c.level <= c.facts_count
           /\ LockInv /\ StoreInv /\ SpecInv /\ SearchInv /\ bindings \in [Var -> Values]
           /\ \A k \in 1..c.facts_count : k > c.level + 1 => c.l[k].spec_init = 0
           /\ \A k \in 1..c.level : Found(k) <=> ~Negated(c.spec[k])
           /\ \A v \in Var : bindings[v] # NULL <=>
                 \/ v \in BoundBefore(c.level + 1)
                 \/ c.level < c.facts_count /\ Found(c.level + 1) /\ v \in VarsOf(c.spec[c.level + 1])
<1> DEFINE N == c.facts_count
           L == c.level
<1>1. /\ N # 0 /\ LockInv /\ StoreInv /\ SpecInv /\ SearchInv /\ bindings \in [Var -> Values]
      /\ \A v \in Var : bindings[v] # NULL <=> \E k \in 1..N : Found(k) /\ v \in VarsOf(c.spec[k])
      /\ \A k \in 1..L : Passed(k)
  BY DEF QueryInv, Searching, SearchInv, BindingsFit, Values
<1>2. /\ N \in Nat /\ L \in Nat /\ L <= N
      /\ \A k \in 1..N : k > L + 1 => c.l[k].spec_init = 0
  BY <1>1 DEF LockInv, LevelsOK
<1>3. \A k \in 1..L : Found(k) <=> ~Negated(c.spec[k])
  <2> SUFFICES ASSUME NEW k \in 1..L PROVE Found(k) <=> ~Negated(c.spec[k])
    OBVIOUS
  <2>0. k \in 1..N
    BY <1>2
  <2>1. Negated(c.spec[k]) \in BOOLEAN
    BY <1>1, <2>0, SpecFacts
  <2> QED  BY <1>1, <2>1 DEF Passed, Found
<1>4. ASSUME NEW v \in Var
      PROVE  (\E k \in 1..N : Found(k) /\ v \in VarsOf(c.spec[k])) <=>
                 \/ v \in BoundBefore(L + 1)
                 \/ L < N /\ Found(L + 1) /\ v \in VarsOf(c.spec[L + 1])
  <2>1. v \in BoundBefore(L + 1) <=> \E j \in 1..L : ~Negated(c.spec[j]) /\ v \in VarsOf(c.spec[j])
    <3> DEFINE m == L + 1
    <3>1. 1..(m - 1) = 1..L
      BY <1>2
    <3> HIDE DEF m
    <3>2. v \in BoundBefore(m) <=> \E j \in 1..(m - 1) : ~Negated(c.spec[j]) /\ v \in VarsOf(c.spec[j])
      BY DEF BoundBefore
    <3> QED  BY <3>1, <3>2, Zenon DEF m
  <2>2. \A k \in 1..N : k \in 1..L \/ k = L + 1 \/ k > L + 1
    BY <1>2
  <2>3. \A k \in 1..N : k > L + 1 => ~Found(k)
    BY <1>2 DEF Found
  <2>4. (L + 1 \in 1..N <=> L < N) /\ 1..L \subseteq 1..N
    BY <1>2
  <2> HIDE DEF N, L
  <2>5. (\E k \in 1..N : Found(k) /\ v \in VarsOf(c.spec[k])) <=>
           \/ \E k \in 1..L : Found(k) /\ v \in VarsOf(c.spec[k])
           \/ L + 1 \in 1..N /\ Found(L + 1) /\ v \in VarsOf(c.spec[L + 1])
    BY <2>2, <2>3, <2>4
  <2> QED  BY <1>3, <2>1, <2>4, <2>5
<1> QED  BY <1>1, <1>2, <1>3, <1>4

\* What a move of the cursor of a level does to the bindings.
LEMMA NextBindingsFacts ==
    ASSUME SearchableQueries, QueryInv, Searching, NEW k \in 1..c.facts_count, c.l[k].spec_init = 1,
           ~Negated(c.spec[k]), \A v \in BoundBefore(k) : bindings[v] # NULL,
           NEW x, x = c.l[k].cursor, NEW new, new = NextBindings(x, bindings)
    PROVE  /\ new \in [Var -> Values]
           /\ \A v \in Var : v \notin VarsOf(c.spec[k]) \/ v \in BoundBefore(k) => new[v] = bindings[v]
           /\ Finds(x) => /\ Row(new, k) = Fact(x.index, Moved(x).it) /\ Row(new, k) \in Matching(Narrowed(k))
                          /\ \A v \in VarsOf(c.spec[k]) : new[v] # NULL
           /\ ~Finds(x) /\ x.started # 2 => \A v \in VarsOf(c.spec[k]) \ BoundBefore(k) : new[v] = NULL
           /\ x.started = 2 => new = bindings
<1> DEFINE f == Fact(x.index, Moved(x).it)
           places(v) == {n \in Columns : x.var[n] = v}
           last(v) == CHOOSE n \in places(v) : \A m \in places(v) : m <= n
           p == c.spec[k]
           q == Narrowed(k)
<1>1. /\ c.facts_count # 0 /\ LockInv /\ SpecInv /\ StoreInv /\ bindings \in [Var -> Values]
  BY BindingsNow
<1>2. /\ \A n \in Columns : q[n] \in Terms /\ p[n] \in Terms
      /\ IsCursor(x) /\ CursorFits(x, q)
      /\ \A n \in Columns : x.var[n] = IF q[n] \in Var THEN q[n] ELSE NoVar
      /\ \A i, j \in Columns : p[i] \in Var /\ p[i] = p[j] => i = j
  <2>1. /\ \A n \in Columns : q[n] \in Terms
        /\ IsCursor(x) /\ CursorFits(x, q)
        /\ x.var = [n \in Columns |-> IF q[n] \in Var THEN q[n] ELSE NoVar]
    BY LevelCursor
  <2>2. /\ \A n \in Columns : p[n] \in Terms
        /\ \A i, j \in Columns : p[i] \in Var /\ p[i] = p[j] => i = j
    BY <1>1, SpecFacts
  <2> QED  BY <2>1, <2>2
<1>3. new = [v \in Var |-> IF x.started = 2 \/ places(v) = {} THEN bindings[v]
                           ELSE IF Finds(x) THEN f[last(v)] ELSE NULL]
  BY DEF NextBindings
<1>4. Given(k) \in [Var -> Values] /\ \A v \in Var : Given(k)[v] = IF v \in BoundBefore(k) THEN bindings[v] ELSE NULL
  BY <1>1 DEF Given, Values
<1>5. \A n \in Columns : /\ p[n] \notin Var => q[n] = p[n]
                         /\ p[n] \in Var /\ p[n] \in BoundBefore(k) => q[n] = bindings[p[n]] /\ q[n] \notin Var
                         /\ p[n] \in Var /\ p[n] \notin BoundBefore(k) => q[n] = p[n]
  <2> SUFFICES ASSUME NEW n \in Columns
               PROVE  /\ p[n] \notin Var => q[n] = p[n]
                      /\ p[n] \in Var /\ p[n] \in BoundBefore(k) => q[n] = bindings[p[n]] /\ q[n] \notin Var
                      /\ p[n] \in Var /\ p[n] \notin BoundBefore(k) => q[n] = p[n]
    OBVIOUS
  <2>1. /\ p[n] \notin Var => q[n] = p[n]
        /\ p[n] \in Var => q[n] = (IF Given(k)[p[n]] # NULL THEN Given(k)[p[n]] ELSE p[n])
        /\ p[n] \in Var /\ Given(k)[p[n]] # NULL => q[n] \notin Var
    BY <1>2, <1>4, Substitution DEF Narrowed
  <2> HIDE DEF p, q
  <2> QED  BY <1>4, <2>1
<1> HIDE DEF q
<1>6. ASSUME NEW v \in Var, NEW n \in Columns PROVE x.var[n] = v <=> p[n] = v /\ v \notin BoundBefore(k)
  BY <1>2, <1>5, SymbolFacts DEF Terms
<1>7. ASSUME NEW v \in Var, NEW n \in Columns, p[n] = v, v \notin BoundBefore(k) PROVE places(v) = {n} /\ last(v) = n
  <2>1. places(v) = {n}
    BY <1>2, <1>6, <1>7
  <2>2. \A m \in {n} : m <= n
    BY DEF Columns
  <2> HIDE DEF places
  <2> QED  BY <2>1, <2>2
<1>8. \A v \in Var : v \notin VarsOf(p) \/ v \in BoundBefore(k) => places(v) = {}
  BY <1>6 DEF VarsOf
<1> HIDE DEF places, last
<1>9. \A v \in Var : v \notin VarsOf(p) \/ v \in BoundBefore(k) => new[v] = bindings[v]
  BY <1>3, <1>8
<1>10. x.started = 2 => new = bindings
  BY <1>1, <1>3
<1>11. \A v \in VarsOf(p) \ BoundBefore(k) : \E n \in Columns : p[n] = v /\ v \in Var /\ places(v) = {n} /\ last(v) = n
  BY <1>7 DEF VarsOf
<1>12. ~Finds(x) /\ x.started # 2 => \A v \in VarsOf(p) \ BoundBefore(k) : new[v] = NULL
  BY <1>3, <1>11
<1>13. CASE Finds(x)
  <2>1. x.started # 2
    BY <1>13 DEF Finds
  <2>2. f \in Matching(q)
    BY <1>1, <1>2, <1>13, CursorFinds
  <2>3. f \in [Columns -> Symbols] /\ \A n \in Columns : q[n] \in Var \union {f[n]}
    BY <1>1, <2>2, FactsFinite DEF Matching
  <2> HIDE DEF f
  <2>4. \A v \in VarsOf(p) \ BoundBefore(k) : \E n \in Columns : p[n] = v /\ new[v] = f[n]
    <3> SUFFICES ASSUME NEW v \in VarsOf(p) \ BoundBefore(k) PROVE \E n \in Columns : p[n] = v /\ new[v] = f[n]
      OBVIOUS
    <3>1. PICK n \in Columns : p[n] = v /\ v \in Var /\ places(v) = {n} /\ last(v) = n
      BY <1>11
    <3>2. new[v] = f[last(v)]
      BY <1>3, <1>13, <2>1, <3>1
    <3> QED  BY <3>1, <3>2
  <2>5. ASSUME NEW n \in Columns PROVE Value(new, p[n]) = f[n]
    <3>1. CASE p[n] \notin Var
      BY <1>5, <2>3, <3>1 DEF Value
    <3>2. CASE p[n] \in Var /\ p[n] \in BoundBefore(k)
      BY <1>5, <1>9, <2>3, <3>2 DEF Value
    <3>3. CASE p[n] \in Var /\ p[n] \notin BoundBefore(k)
      <4>1. p[n] \in VarsOf(p)
        BY <3>3 DEF VarsOf
      <4>2. PICK m \in Columns : p[m] = p[n] /\ new[p[n]] = f[m]
        BY <2>4, <3>3, <4>1
      <4>3. m = n
        BY <1>2, <3>3, <4>2
      <4> QED  BY <3>3, <4>2, <4>3 DEF Value
    <3> QED  BY <3>1, <3>2, <3>3
  <2>6. Row(new, k) = f
    BY <2>3, <2>5 DEF Row
  <2>7. \A v \in VarsOf(p) : new[v] \in Symbols
    <3> SUFFICES ASSUME NEW v \in VarsOf(p) PROVE new[v] \in Symbols
      OBVIOUS
    <3>1. PICK n \in Columns : v = p[n] /\ v \in Var
      BY DEF VarsOf
    <3> QED  BY <2>3, <2>5, <3>1 DEF Value
  <2>8. new \in [Var -> Values]
    <3>1. \A v \in Var : new[v] \in Values
      BY <1>1, <1>9, <2>7 DEF Values
    <3>2. new = [v \in Var |-> new[v]]
      BY <1>3
    <3> QED  BY <3>1, <3>2
  <2>9. \A v \in VarsOf(p) : new[v] # NULL
    BY <2>7, SymbolFacts
  <2> QED  BY <1>9, <1>13, <2>1, <2>2, <2>6, <2>8, <2>9 DEF f, q
<1>14. CASE ~Finds(x)
  <2>1. new \in [Var -> Values]
    <3>1. \A v \in Var : new[v] \in Values
      BY <1>1, <1>9, <1>10, <1>12, <1>14 DEF Values
    <3>2. new = [v \in Var |-> new[v]]
      BY <1>3
    <3> QED  BY <3>1, <3>2
  <2> QED  BY <1>9, <1>10, <1>12, <1>14, <2>1
<1> QED  BY <1>13, <1>14

\* An answer beyond the fact at which level k stands.
Beyond(b, k) == Found(k) /\ Agrees(b, k) /\ Key(b, k) > c.l[k].cursor.it

\* The store does not change below a cursor.
LEMMA SameStore ==
    ASSUME facts' = facts, interned' = interned, hexastore' = hexastore, NEW p
    PROVE  Matching(p)' = Matching(p) /\ facts_with_spo(p)' = facts_with_spo(p)
<1>1. Matching(p)' = Matching(p)
  BY DEF Matching
<1>2. \A i, k : Seek(i, k)' = Seek(i, k)
  BY DEF Seek
<1>3. \A a : usage(a)' = usage(a)
  BY DEF usage
<1> QED  BY <1>1, <1>2, <1>3, Zenon DEF facts_with_spo

\* A step at level k leaves the levels above it as they are.
LEMMA Frame ==
    ASSUME SearchableQueries, QueryInv, Searching, NEW k \in 1..(c.facts_count + 1),
           c'.spec = c.spec, c'.facts_count = c.facts_count,
           facts' = facts, interned' = interned, hexastore' = hexastore, asked' = asked,
           \A j \in 1..c.facts_count : j # k => c'.l[j] = c.l[j],
           \A v \in BoundBefore(k) : bindings'[v] = bindings[v]
    PROVE  /\ AllAnswers' = AllAnswers
           /\ \A j : BoundBefore(j)' = BoundBefore(j)
           /\ \A b, j : Row(b, j)' = Row(b, j)
           /\ \A j \in 1..k : Given(j)' = Given(j) /\ Narrowed(j)' = Narrowed(j) /\ \A b : Agrees(b, j)' <=> Agrees(b, j)
           /\ \A j \in 1..c.facts_count : j # k => (Found(j)' <=> Found(j)) /\ (Passed(j)' <=> Passed(j))
           /\ \A j \in 1..(k - 1) : LevelFits(j)' /\ \A b : Beyond(b, j)' <=> Beyond(b, j)
<1> DEFINE N == c.facts_count
<1>1. /\ N # 0 /\ N \in Nat /\ LockInv /\ SpecInv /\ bindings \in [Var -> Values] /\ \A j \in 1..N : LevelFits(j)
  BY BindingsNow DEF SearchInv
<1>2. AllAnswers' = AllAnswers
  BY DEF AllAnswers, IsAnswer, InPositive, Fits
<1>3. ASSUME NEW j PROVE BoundBefore(j)' = BoundBefore(j)
  BY DEF BoundBefore
<1>4. ASSUME NEW b, NEW j PROVE Row(b, j)' = Row(b, j)
  BY DEF Row
<1>5. \A j \in 1..k : BoundBefore(j) \subseteq BoundBefore(k)
  <2>1. CASE k \in 1..N
    BY <1>1, <2>1, BoundFacts
  <2>2. CASE k = N + 1
    <3>1. \A j \in 1..N : BoundBefore(j) \subseteq BoundBefore(N)
      <4>1. N \in 1..N
        BY <1>1
      <4> QED  BY <1>1, <4>1, BoundFacts
    <3>2. BoundBefore(N) \subseteq BoundBefore(N + 1)
      <4>1. N \in 1..N
        BY <1>1
      <4> QED  BY <1>1, <4>1, BoundFacts
    <3>3. \A j \in 1..k : j \in 1..N \/ j = k
      BY <1>1, <2>2
    <3> QED  BY <2>2, <3>1, <3>2, <3>3
  <2> QED  BY <1>1, <2>1, <2>2
<1>6. ASSUME NEW j \in 1..k PROVE Given(j)' = Given(j)
  BY <1>3, <1>5 DEF Given
<1>7. ASSUME NEW j \in 1..k PROVE Narrowed(j)' = Narrowed(j)
  BY <1>6 DEF Narrowed
<1>8. ASSUME NEW j \in 1..k, NEW b PROVE Agrees(b, j)' <=> Agrees(b, j)
  BY <1>3, <1>5 DEF Agrees
<1>9. ASSUME NEW j \in 1..N, j # k PROVE (Found(j)' <=> Found(j)) /\ (Passed(j)' <=> Passed(j)) /\ \A b : Key(b, j)' = Key(b, j)
  <2>1. c'.l[j] = c.l[j]
    BY <1>9
  <2>2. \A b : Key(b, j)' = Key(b, j)
    BY <1>4, <2>1 DEF Key
  <2> QED  BY <2>1, <2>2 DEF Found, Passed
<1>10. ASSUME NEW j \in 1..(k - 1) PROVE LevelFits(j)' /\ \A b : Beyond(b, j)' <=> Beyond(b, j)
  <2>1. j \in 1..N /\ j # k /\ j \in 1..k
    BY <1>1
  <2>2. c'.l[j] = c.l[j] /\ Narrowed(j)' = Narrowed(j) /\ Given(j)' = Given(j)
    BY <1>6, <1>7, <2>1
  <2>3. Matching(Narrowed(j))' = Matching(Narrowed(j)) /\ facts_with_spo(Narrowed(j))' = facts_with_spo(Narrowed(j))
    BY <2>2, SameStore
  <2>4. ~Negated(c.spec[j]) => Row(bindings, j)' = Row(bindings, j) /\ Key(bindings, j)' = Key(bindings, j)
    <3> SUFFICES ASSUME ~Negated(c.spec[j]) PROVE Row(bindings, j)' = Row(bindings, j) /\ Key(bindings, j)' = Key(bindings, j)
      OBVIOUS
    <3>1. VarsOf(c.spec[j]) \subseteq BoundBefore(k)
      <4>1. j + 1 \in 1..k
        BY <1>1
      <4>2. VarsOf(c.spec[j]) \subseteq BoundBefore(j + 1)
        BY <1>1, <2>1, BoundFacts
      <4> QED  BY <1>5, <4>1, <4>2
    <3>2. \A v \in VarsOf(c.spec[j]) : bindings'[v] = bindings[v]
      BY <3>1
    <3>3. Row(bindings, j)' = Row(bindings, j)
      <4>1. \A n \in Columns : Value(bindings', c.spec[j][n]) = Value(bindings, c.spec[j][n])
        BY <3>2 DEF Value, VarsOf
      <4> QED  BY <4>1 DEF Row, Value
    <3> QED  BY <2>2, <3>3 DEF Key
  <2>5. LevelFits(j)
    BY <1>1, <2>1
  <2>6. LevelFits(j)'
    BY <2>2, <2>3, <2>4, <2>5 DEF LevelFits
  <2>7. \A b : Beyond(b, j)' <=> Beyond(b, j)
    BY <1>8, <1>9, <2>1, <2>2 DEF Beyond
  <2> QED  BY <2>6, <2>7
<1> QED  BY <1>2, <1>3, <1>4, <1>6, <1>7, <1>8, <1>9, <1>10

\* What a search that goes on has to show.
GoesOn ==
    /\ \A k \in 1..c.facts_count : LevelFits(k)
    /\ \A k \in 1..c.level : Passed(k)
    /\ BindingsFit
    /\ PlaceFits

\* The answers ahead, said with Beyond, before a step and after it.
LEMMA AheadParts ==
    ASSUME NEW b, NEW m, m = c'.level + 1
    PROVE  /\ Searching => (b \in Ahead <=> b \in AllAnswers /\ ((\E k \in 1..c.facts_count : Beyond(b, k)) \/ (Below /\ Agrees(b, c.level + 1))))
           /\ Searching' => (b \in Ahead' <=> b \in AllAnswers' /\ ((\E k \in 1..c'.facts_count : Beyond(b, k)') \/ (Below' /\ Agrees(b, m)')))
<1>1. Searching => (b \in Ahead <=> b \in AllAnswers /\ ((\E k \in 1..c.facts_count : Beyond(b, k)) \/ (Below /\ Agrees(b, c.level + 1))))
  BY DEF Ahead, Beyond
<1>2. Agrees(b, c.level + 1)' <=> Agrees(b, m)'
  BY DEF Agrees, BoundBefore
<1>3. Searching' => (b \in Ahead' <=> b \in AllAnswers' /\ ((\E k \in 1..c'.facts_count : Beyond(b, k)') \/ (Below' /\ Agrees(b, c.level + 1)')))
  BY DEF Ahead, Beyond
<1> QED  BY <1>1, <1>2, <1>3

\* The keys of the answers at a level that finds a fact.
LEMMA KeysAhead ==
    ASSUME SearchableQueries, QueryInv, Searching, NEW k \in 1..c.facts_count, c.l[k].spec_init = 1,
           ~Negated(c.spec[k]), NEW x, x = c.l[k].cursor, Finds(x), NEW new \in [Var -> Values],
           Row(new, k) = Fact(x.index, Moved(x).it), NEW b \in AllAnswers, Agrees(b, k)
    PROVE  /\ Key(b, k) \in Nat /\ Moved(x).it \in Nat /\ Moved(x).it = Key(new, k)
           /\ (Found(k) => Key(b, k) > x.it) <=> Key(b, k) >= Moved(x).it
           /\ Key(b, k) = Moved(x).it <=> \A v \in VarsOf(c.spec[k]) : b[v] = new[v]
<1>1. /\ c.facts_count # 0 /\ LockInv /\ SpecInv /\ StoreInv /\ bindings \in [Var -> Values]
  BY BindingsNow
<1>2. b \in [Var -> Values] /\ Row(b, k) \in facts
  BY <1>1, AnswerFacts
<1>3. Row(b, k) \in Matching(Narrowed(k))
  BY <1>1, <1>2, RowMatches
<1>4. (\A n \in Columns : Narrowed(k)[n] \in Terms) /\ IsCursor(x) /\ CursorFits(x, Narrowed(k))
  BY LevelCursor
<1>5. /\ x.index \in DOMAIN Trie /\ \A f \in facts : encode_triple_key(f, x.index) \in Nat
      /\ x.started = 1 => x.it \in Nat
  BY <1>1, <1>4, CursorFinds
<1>6. PICK f \in Matching(Narrowed(k)) :
          /\ Moved(x).it = encode_triple_key(f, x.index)
          /\ Fact(x.index, Moved(x).it) = f
          /\ x.started = 1 => encode_triple_key(f, x.index) > x.it
          /\ \A g \in Matching(Narrowed(k)) : x.started = 0 \/ encode_triple_key(g, x.index) > x.it =>
                 encode_triple_key(f, x.index) <= encode_triple_key(g, x.index)
  BY <1>1, <1>4, CursorFinds
<1>7. f \in facts /\ f = Row(new, k)
  BY <1>6 DEF Matching
<1> DEFINE K == encode_triple_key(Row(b, k), x.index)
           M == encode_triple_key(f, x.index)
<1>8. Key(b, k) = K /\ Key(new, k) = M /\ Moved(x).it = M
  BY <1>6, <1>7 DEF Key
<1>9. K \in Nat /\ M \in Nat
  BY <1>2, <1>5, <1>7
<1>10. x.started \in {0, 1} /\ (Found(k) <=> x.started = 1)
  BY <1>4 DEF CursorFits, Finds, Found
<1>11. (x.started = 1 => M > x.it) /\ (x.started = 0 \/ K > x.it => M <= K)
  BY <1>3, <1>6
<1>12. K = M <=> \A v \in VarsOf(c.spec[k]) : b[v] = new[v]
  <2>1. Row(b, k) = Row(new, k) <=> \A v \in VarsOf(c.spec[k]) : b[v] = new[v]
    BY RowEqual
  <2>2. K = M => Row(b, k) = f
    <3>1. Row(b, k) \in [Columns -> Symbols] /\ f \in [Columns -> Symbols]
      BY <1>1, <1>2, <1>7, FactsFinite
    <3> QED  BY <1>5, <3>1, KeyInjective
  <2> QED  BY <1>7, <2>1, <2>2
<1> HIDE DEF K, M
<1>13. (Found(k) => K > x.it) <=> K >= M
  BY <1>5, <1>9, <1>10, <1>11
<1> QED  BY <1>8, <1>9, <1>12, <1>13

\* A level finds its next fact: the search is below it.
LEMMA LevelFinds ==
    ASSUME SearchableQueries, QueryInv, Searching, NEW k \in 1..c.facts_count, c.l[k].spec_init = 1,
           ~Negated(c.spec[k]), NEW x, x = c.l[k].cursor, Finds(x),
           \/ k = c.level + 1 /\ pc = "level"
           \/ k = c.level /\ k = c.facts_count /\ pc = "inner",
           c'.spec = c.spec, c'.facts_count = c.facts_count,
           facts' = facts, interned' = interned, hexastore' = hexastore, asked' = asked,
           c'.is_sorted = c.is_sorted, c'.has_matches = c.has_matches,
           \A j \in 1..c.facts_count : j # k => c'.l[j] = c.l[j],
           c'.l[k].spec = c.l[k].spec, c'.l[k].spec_init = 1, c'.l[k].cursor = Moved(x), c'.level = k,
           bindings' = NextBindings(x, bindings),
           pc' = "level" \/ (pc' = "match" /\ k = c.facts_count)
    PROVE  Searching' /\ GoesOn' /\ Ahead' = Ahead
<1> DEFINE N == c.facts_count
           L == c.level
<1>1. /\ N # 0 /\ N \in Nat /\ L \in Nat /\ L <= N /\ LockInv /\ SpecInv /\ StoreInv /\ bindings \in [Var -> Values]
      /\ \A j \in 1..N : j > L + 1 => c.l[j].spec_init = 0
      /\ \A j \in 1..L : Found(j) <=> ~Negated(c.spec[j])
      /\ \A v \in Var : bindings[v] # NULL <=> \/ v \in BoundBefore(L + 1)
                                               \/ L < N /\ Found(L + 1) /\ v \in VarsOf(c.spec[L + 1])
  BY BindingsNow
<1>2. \A j \in 1..N : LevelFits(j)
  BY <1>1, BindingsNow DEF SearchInv
<1>3. \A j \in 1..L : Passed(j)
  BY <1>1, BindingsNow DEF SearchInv
<1>4. /\ BoundBefore(k + 1) = BoundBefore(k) \union VarsOf(c.spec[k]) /\ BoundBefore(k) \subseteq Var
      /\ \A j \in 1..(k - 1) : ~Negated(c.spec[j]) /\ VarsOf(c.spec[j]) \subseteq BoundBefore(k)
  BY <1>1, BoundFacts
<1>5. \A v \in BoundBefore(k) : bindings[v] # NULL
  BY <1>1, <1>4
<1>6. /\ bindings' \in [Var -> Values]
      /\ \A v \in Var : v \notin VarsOf(c.spec[k]) \/ v \in BoundBefore(k) => bindings'[v] = bindings[v]
      /\ Row(bindings', k) = Fact(x.index, Moved(x).it) /\ Row(bindings', k) \in Matching(Narrowed(k))
      /\ \A v \in VarsOf(c.spec[k]) : bindings'[v] # NULL
  BY <1>5, NextBindingsFacts
<1>7. \A v \in BoundBefore(k) : bindings'[v] = bindings[v]
  BY <1>4, <1>6
<1>8. k \in 1..(N + 1)
  BY <1>1
<1>9. /\ AllAnswers' = AllAnswers
      /\ \A j : BoundBefore(j)' = BoundBefore(j)
      /\ \A b, j : Row(b, j)' = Row(b, j)
      /\ \A j \in 1..k : Given(j)' = Given(j) /\ Narrowed(j)' = Narrowed(j) /\ \A b : Agrees(b, j)' <=> Agrees(b, j)
      /\ \A j \in 1..N : j # k => (Found(j)' <=> Found(j)) /\ (Passed(j)' <=> Passed(j))
      /\ \A j \in 1..(k - 1) : LevelFits(j)' /\ \A b : Beyond(b, j)' <=> Beyond(b, j)
  BY <1>7, <1>8, Frame
<1>10. k \in 1..k /\ Given(k)' = Given(k) /\ Narrowed(k)' = Narrowed(k)
  <2>1. k \in 1..k
    BY <1>1
  <2> QED  BY <1>9, <2>1
<1>11. /\ IsCursor(x)
       /\ Moved(x).index = x.index /\ Moved(x).var = x.var /\ Moved(x).end_key = x.end_key /\ Moved(x).started = 1
  <2>1. IsCursor(x)
    BY LevelCursor
  <2> QED  BY <2>1 DEF IsCursor, Moved
<1>12. Searching' /\ Found(k)' /\ Passed(k)'
  BY <1>1, <1>11 DEF Searching, Found, Passed
<1>13. Moved(x).it = encode_triple_key(Row(bindings', k), x.index) /\ Row(bindings', k) \in facts
  <2>1. (\A n \in Columns : Narrowed(k)[n] \in Terms) /\ CursorFits(x, Narrowed(k))
    BY LevelCursor
  <2>2. Moved(x).it = encode_triple_key(Fact(x.index, Moved(x).it), x.index)
    BY <1>1, <1>11, <2>1, CursorFinds
  <2> QED  BY <1>6, <2>2 DEF Matching
<1>14. LevelFits(k)'
  <2>1. LevelFits(k)
    BY <1>2
  <2>2. facts_with_spo(Narrowed(k))' = facts_with_spo(Narrowed(k))
    BY <1>10, SameStore
  <2>3. Row(bindings, k)' = Row(bindings', k)
    BY DEF Row, Value
  <2>4. Key(bindings, k)' = Moved(x).it
    BY <1>11, <1>13, <2>3 DEF Key
  <2>5. /\ c'.l[k].spec = [m \in 1..(Len(c.spec) - k + 1) |-> Substituted(c.spec[k + m - 1], Given(k))]
        /\ x.index = facts_with_spo(Narrowed(k)).index /\ x.var = facts_with_spo(Narrowed(k)).var
        /\ x.end_key = facts_with_spo(Narrowed(k)).end_key
    BY <2>1 DEF LevelFits
  <2>6. Row(bindings, k)' \in facts' /\ c'.l[k].cursor.it = Key(bindings, k)' /\ ~Negated(c'.spec[k])
    BY <1>13, <2>3, <2>4
  <2> QED  BY <1>10, <1>11, <2>2, <2>5, <2>6 DEF LevelFits
<1>15. \A j \in 1..N : j > k => ~Found(j)' /\ c'.l[j].spec_init = 0
  <2> SUFFICES ASSUME NEW j \in 1..N, j > k PROVE ~Found(j)' /\ c'.l[j].spec_init = 0
    OBVIOUS
  <2>1. j # k /\ j > L + 1
    BY <1>1
  <2> QED  BY <1>1, <2>1 DEF Found
<1>16. \A j \in 1..N : LevelFits(j)'
  <2> SUFFICES ASSUME NEW j \in 1..N PROVE LevelFits(j)'
    OBVIOUS
  <2>1. j \in 1..(k - 1) \/ j = k \/ j > k
    OBVIOUS
  <2>2. j > k => LevelFits(j)'
    BY <1>15 DEF LevelFits
  <2> QED  BY <1>9, <1>14, <2>1, <2>2
<1>17. \A j \in 1..k : Passed(j)'
  <2> SUFFICES ASSUME NEW j \in 1..k PROVE Passed(j)'
    OBVIOUS
  <2>1. j = k \/ (j \in 1..N /\ j # k /\ j \in 1..L)
    BY <1>1
  <2> QED  BY <1>3, <1>9, <1>12, <2>1
<1>18. \A j \in 1..(k - 1) : Found(j)'
  <2> SUFFICES ASSUME NEW j \in 1..(k - 1) PROVE Found(j)'
    OBVIOUS
  <2>1. j \in 1..N /\ j # k /\ j \in 1..L /\ ~Negated(c.spec[j])
    BY <1>1, <1>4
  <2> QED  BY <1>1, <1>9, <2>1
<1>19. BindingsFit'
  <2>1. ASSUME NEW v \in Var PROVE bindings'[v] # NULL <=> \E j \in 1..N : Found(j)' /\ v \in VarsOf(c.spec[j])
    <3>1. (\E j \in 1..N : Found(j)' /\ v \in VarsOf(c.spec[j])) <=> v \in BoundBefore(k + 1)
      <4>1. ASSUME NEW j \in 1..N, Found(j)', v \in VarsOf(c.spec[j]) PROVE v \in BoundBefore(k + 1)
        <5>1. j \in 1..(k - 1) \/ j = k
          BY <1>15, <4>1
        <5> QED  BY <1>4, <4>1, <5>1
      <4>2. ASSUME v \in BoundBefore(k + 1) PROVE \E j \in 1..N : Found(j)' /\ v \in VarsOf(c.spec[j])
        <5>1. CASE v \in VarsOf(c.spec[k])
          BY <1>12, <5>1
        <5>2. CASE v \in BoundBefore(k)
          <6>1. PICK j \in 1..(k - 1) : v \in VarsOf(c.spec[j])
            BY <5>2 DEF BoundBefore
          <6>2. j \in 1..N
            BY <1>1
          <6> QED  BY <1>18, <6>1, <6>2
        <5> QED  BY <1>4, <4>2, <5>1, <5>2
      <4> QED  BY <4>1, <4>2
    <3>2. bindings'[v] # NULL <=> v \in BoundBefore(k + 1)
      <4>1. CASE v \in VarsOf(c.spec[k])
        BY <1>4, <1>6, <4>1
      <4>2. CASE v \notin VarsOf(c.spec[k])
        <5>1. bindings'[v] = bindings[v]
          BY <1>6, <4>2
        <5>2. bindings[v] # NULL <=> v \in BoundBefore(k)
          <6>1. CASE k = L + 1
            BY <1>1, <4>2, <6>1
          <6>2. CASE k = L /\ k = N
            <7>1. ~(L < N)
              BY <1>1, <6>2
            <7>2. BoundBefore(L + 1) = BoundBefore(k) \union VarsOf(c.spec[k])
              BY <1>4, <6>2
            <7> QED  BY <1>1, <4>2, <7>1, <7>2
          <6> QED  BY <6>1, <6>2
        <5> QED  BY <1>4, <4>2, <5>1, <5>2
      <4> QED  BY <4>1, <4>2
    <3> QED  BY <3>1, <3>2
  <2> QED  BY <1>6, <2>1 DEF BindingsFit, Values
<1>20. PlaceFits'
  BY <1>1 DEF PlaceFits
<1>21. GoesOn'
  BY <1>16, <1>17, <1>19, <1>20 DEF GoesOn
<1>22. Below'
  <2>1. k < N => ~Found(k + 1)'
    <3>1. k < N => k + 1 \in 1..N /\ k + 1 > k
      BY <1>1
    <3> QED  BY <1>15, <3>1
  <2>2. Below' <=> (pc' \in {"level", "match"} \/ k < N) /\ (k < N => ~Found(k + 1)')
    BY DEF Below, Found
  <2> QED  BY <2>1, <2>2
<1>23. ASSUME NEW b \in AllAnswers PROVE b \in Ahead <=> b \in Ahead'
  <2> DEFINE Above == \E j \in 1..(k - 1) : Beyond(b, j)
  <2>1. (\E j \in 1..N : Beyond(b, j)') <=> Above \/ Beyond(b, k)'
    <3>1. \A j \in 1..N : j \in 1..(k - 1) \/ j = k \/ j > k
      OBVIOUS
    <3>2. \A j \in 1..N : j > k => ~Beyond(b, j)'
      BY <1>15 DEF Beyond
    <3>3. 1..(k - 1) \subseteq 1..N
      BY <1>1
    <3> QED  BY <1>9, <3>1, <3>2, <3>3
  <2>2. (\E j \in 1..N : Beyond(b, j)) \/ (Below /\ Agrees(b, L + 1)) <=> Above \/ Beyond(b, k) \/ (~Found(k) /\ Agrees(b, k))
    <3>1. \A j \in 1..N : j \in 1..(k - 1) \/ j = k \/ j > k
      OBVIOUS
    <3>2. \A j \in 1..N : j > k => ~Beyond(b, j)
      <4> SUFFICES ASSUME NEW j \in 1..N, j > k PROVE ~Beyond(b, j)
        OBVIOUS
      <4>1. j > L + 1
        BY <1>1
      <4> QED  BY <1>1, <4>1 DEF Beyond, Found
    <3>3. 1..(k - 1) \subseteq 1..N
      BY <1>1
    <3>4. (\E j \in 1..N : Beyond(b, j)) <=> Above \/ Beyond(b, k)
      BY <3>1, <3>2, <3>3
    <3>5. (Below /\ Agrees(b, L + 1)) <=> (~Found(k) /\ Agrees(b, k))
      <4>1. CASE k = L + 1 /\ pc = "level"
        <5>1. L < N
          BY <1>1, <4>1
        <5> QED  BY <4>1, <5>1 DEF Below
      <4>2. CASE k = L /\ k = N /\ pc = "inner"
        <5>1. ~Below
          BY <1>1, <4>2 DEF Below
        <5>2. k \in 1..L
          BY <1>1, <4>2
        <5> QED  BY <1>1, <5>1, <5>2
      <4> QED  BY <4>1, <4>2
    <3> QED  BY <3>4, <3>5
  <2>3. Beyond(b, k) \/ (~Found(k) /\ Agrees(b, k)) <=> Agrees(b, k) /\ (Found(k) => Key(b, k) > x.it)
    BY DEF Beyond
  <2>4. Agrees(b, k + 1)' <=> Agrees(b, k) /\ \A v \in VarsOf(c.spec[k]) : b[v] = bindings'[v]
    <3>1. BoundBefore(k + 1)' = BoundBefore(k) \union VarsOf(c.spec[k])
      BY <1>4, <1>9
    <3> QED  BY <1>7, <3>1 DEF Agrees
  <2>5. Beyond(b, k)' <=> Agrees(b, k) /\ Key(b, k) > Moved(x).it
    <3>1. Key(b, k)' = Key(b, k)
      BY <1>9, <1>11 DEF Key
    <3>2. Agrees(b, k)' <=> Agrees(b, k)
      BY <1>9, <1>10
    <3> QED  BY <1>12, <3>1, <3>2 DEF Beyond
  <2>6. Beyond(b, k)' \/ Agrees(b, k + 1)' <=> Beyond(b, k) \/ (~Found(k) /\ Agrees(b, k))
    <3>1. CASE ~Agrees(b, k)
      BY <2>3, <2>4, <2>5, <3>1
    <3>2. CASE Agrees(b, k)
      <4>1. /\ Key(b, k) \in Nat /\ Moved(x).it \in Nat
            /\ (Found(k) => Key(b, k) > x.it) <=> Key(b, k) >= Moved(x).it
            /\ Key(b, k) = Moved(x).it <=> \A v \in VarsOf(c.spec[k]) : b[v] = bindings'[v]
        BY <1>6, <3>2, KeysAhead
      <4>2. Key(b, k) >= Moved(x).it <=> Key(b, k) > Moved(x).it \/ Key(b, k) = Moved(x).it
        BY <4>1
      <4> QED  BY <2>3, <2>4, <2>5, <3>2, <4>1, <4>2
    <3> QED  BY <3>1, <3>2
  <2>7. b \in Ahead <=> Above \/ Beyond(b, k) \/ (~Found(k) /\ Agrees(b, k))
    <3>1. b \in Ahead <=> (\E j \in 1..N : Beyond(b, j)) \/ (Below /\ Agrees(b, L + 1))
      BY AheadParts
    <3> QED  BY <2>2, <3>1
  <2>8. b \in Ahead' <=> Above \/ Beyond(b, k)' \/ Agrees(b, k + 1)'
    <3>1. b \in Ahead' <=> (\E j \in 1..N : Beyond(b, j)') \/ Agrees(b, k + 1)'
      <4>1. b \in Ahead' <=> b \in AllAnswers' /\ ((\E j \in 1..c'.facts_count : Beyond(b, j)') \/ (Below' /\ Agrees(b, k + 1)'))
        BY <1>12, AheadParts
      <4> QED  BY <1>9, <1>22, <4>1
    <3> QED  BY <2>1, <3>1
  <2> QED  BY <2>6, <2>7, <2>8
<1>24. Ahead' = Ahead
  <2>1. Ahead \subseteq AllAnswers /\ Ahead' \subseteq AllAnswers'
    BY DEF Ahead
  <2> QED  BY <1>9, <1>23, <2>1
<1> QED  BY <1>12, <1>21, <1>24

\* The level at work, and where the search is.
AtWork(k) ==
    \/ k = c.level + 1 /\ pc = "level"
    \/ k = c.level /\ k = c.facts_count /\ pc = "inner"

\* No answer is left at a positive level whose cursor ends.
LEMMA NoneLeft ==
    ASSUME SearchableQueries, QueryInv, Searching, NEW k \in 1..c.facts_count, c.l[k].spec_init = 1, AtWork(k),
           ~Negated(c.spec[k]), ~Finds(c.l[k].cursor), NEW b \in AllAnswers
    PROVE  ~Beyond(b, k) /\ ~(Below /\ Agrees(b, c.level + 1))
<1> DEFINE x == c.l[k].cursor
<1>1. /\ c.facts_count # 0 /\ c.facts_count \in Nat /\ c.level \in Nat
      /\ LockInv /\ SpecInv /\ StoreInv /\ bindings \in [Var -> Values]
  BY BindingsNow
<1>2. b \in [Var -> Values] /\ Row(b, k) \in facts
  BY <1>1, AnswerFacts
<1>3. (\A n \in Columns : Narrowed(k)[n] \in Terms) /\ IsCursor(x) /\ CursorFits(x, Narrowed(k))
  BY LevelCursor
<1>4. /\ \A f \in facts : encode_triple_key(f, x.index) \in Nat
      /\ x.started = 1 => x.it \in Nat
      /\ \A g \in Matching(Narrowed(k)) : x.started = 1 /\ encode_triple_key(g, x.index) <= x.it
  BY <1>1, <1>3, CursorFinds
<1>5. Agrees(b, k) => Found(k) /\ ~(Key(b, k) > x.it)
  <2> SUFFICES ASSUME Agrees(b, k) PROVE Found(k) /\ ~(Key(b, k) > x.it)
    OBVIOUS
  <2>1. Row(b, k) \in Matching(Narrowed(k))
    BY <1>1, <1>2, RowMatches
  <2>2. Key(b, k) \in Nat /\ x.it \in Nat /\ Key(b, k) <= x.it /\ x.started = 1
    BY <1>2, <1>4, <2>1 DEF Key
  <2> QED  BY <2>2 DEF Found
<1>6. CASE k = c.level + 1 /\ pc = "level"
  <2>1. c.level < c.facts_count
    BY <1>1, <1>6
  <2> QED  BY <1>5, <1>6, <2>1 DEF Beyond, Below
<1>7. CASE k = c.level /\ k = c.facts_count /\ pc = "inner"
  <2>1. ~Below
    BY <1>1, <1>7 DEF Below
  <2> QED  BY <1>5, <2>1 DEF Beyond
<1> QED  BY <1>6, <1>7 DEF AtWork

\* Nor is one below a negated level that finds a fact, or at one that is done.
LEMMA NegatedNone ==
    ASSUME SearchableQueries, QueryInv, Searching, NEW k \in 1..c.facts_count, c.l[k].spec_init = 1, AtWork(k),
           Negated(c.spec[k]), pc = "level" => Finds(c.l[k].cursor), NEW b \in AllAnswers
    PROVE  ~Beyond(b, k) /\ ~(Below /\ Agrees(b, c.level + 1))
<1> DEFINE x == c.l[k].cursor
           N == c.facts_count
<1>1. /\ N # 0 /\ N \in Nat /\ c.level \in Nat /\ LockInv /\ SpecInv /\ StoreInv /\ bindings \in [Var -> Values]
  BY BindingsNow
<1>2. ~Found(k)
  BY LevelCursor
<1>3. k = N
  BY <1>1, SpecFacts
<1>4. CASE k = c.level /\ k = N /\ pc = "inner"
  <2>1. ~Below
    BY <1>1, <1>4 DEF Below
  <2> QED  BY <1>2, <2>1 DEF Beyond
<1>5. CASE k = c.level + 1 /\ pc = "level"
  <2> SUFFICES ASSUME Agrees(b, k) PROVE FALSE
    BY <1>2, <1>5 DEF Beyond
  <2>1. (\A n \in Columns : Narrowed(k)[n] \in Terms) /\ IsCursor(x) /\ CursorFits(x, Narrowed(k)) /\ Finds(x)
    BY <1>5, LevelCursor
  <2>2. PICK f \in Matching(Narrowed(k)) : TRUE
    BY <1>1, <2>1, CursorFinds
  <2>3. f \in facts /\ f \in [Columns -> Symbols] /\ \A n \in Columns : Narrowed(k)[n] \in Var \union {f[n]}
    BY <1>1, <2>2, FactsFinite DEF Matching
  <2>4. /\ b \in [Var -> Values]
        /\ \A v \in Var : b[v] # NULL <=> v \in InPositive
        /\ ~\E g \in facts : \A n \in Columns : Value(b, c.spec[k][n]) \in {NULL, g[n]}
    BY <1>1, AnswerFacts
  <2>5. InPositive = BoundBefore(k)
    <3>1. SearchableQueries /\ LockInv /\ SpecInv /\ c.facts_count # 0
      BY <1>1
    <3>2. k = c.facts_count
      BY <1>3
    <3> HIDE DEF x, N
    <3>3. BoundBefore(c.facts_count + 1) = InPositive
      BY <3>1, BoundFacts
    <3>4. BoundBefore(k + 1) = BoundBefore(k) \union (IF Negated(c.spec[k]) THEN {} ELSE VarsOf(c.spec[k]))
      BY <3>1, BoundFacts
    <3> QED  BY <3>2, <3>3, <3>4
  <2>6. Given(k) \in [Var -> Values] /\ \A v \in Var : Given(k)[v] = IF v \in BoundBefore(k) THEN bindings[v] ELSE NULL
    BY <1>1 DEF Given, Values
  <2>7. \A v \in Var : Given(k)[v] = b[v]
    BY <2>4, <2>5, <2>6 DEF Agrees
  <2>8. \A n \in Columns : c.spec[k][n] \in Terms
    BY <1>1, SpecFacts
  <2>9. ASSUME NEW n \in Columns PROVE Value(b, c.spec[k][n]) \in {NULL, f[n]}
    <3>1. /\ c.spec[k][n] \notin Var => Narrowed(k)[n] = c.spec[k][n]
          /\ c.spec[k][n] \in Var /\ Given(k)[c.spec[k][n]] # NULL =>
                Narrowed(k)[n] = Given(k)[c.spec[k][n]] /\ Narrowed(k)[n] \notin Var
      BY <2>6, <2>8, Substitution DEF Narrowed
    <3>2. CASE c.spec[k][n] \notin Var
      BY <2>3, <3>1, <3>2 DEF Value
    <3>3. CASE c.spec[k][n] \in Var
      BY <2>3, <2>7, <3>1, <3>3 DEF Value
    <3> QED  BY <3>2, <3>3
  <2> QED  BY <2>3, <2>4, <2>9
<1> QED  BY <1>4, <1>5 DEF AtWork

\* What a level that fails leaves bound.
LEMMA GivenBack ==
    ASSUME SearchableQueries, QueryInv, Searching, NEW k \in 1..c.facts_count, c.l[k].spec_init = 1, AtWork(k),
           \/ ~Negated(c.spec[k]) /\ ~Finds(c.l[k].cursor) /\ bindings' = NextBindings(c.l[k].cursor, bindings)
           \/ Negated(c.spec[k]) /\ bindings' = bindings
    PROVE  bindings' = Given(k)
<1> DEFINE x == c.l[k].cursor
           N == c.facts_count
           L == c.level
<1>1. /\ N # 0 /\ N \in Nat /\ L \in Nat /\ LockInv /\ SpecInv /\ StoreInv /\ bindings \in [Var -> Values]
      /\ \A v \in Var : bindings[v] # NULL <=> \/ v \in BoundBefore(L + 1)
                                               \/ L < N /\ Found(L + 1) /\ v \in VarsOf(c.spec[L + 1])
      /\ \A j \in 1..L : Found(j) <=> ~Negated(c.spec[j])
  BY BindingsNow
<1>2. /\ BoundBefore(k) \subseteq Var
      /\ BoundBefore(k + 1) = BoundBefore(k) \union (IF Negated(c.spec[k]) THEN {} ELSE VarsOf(c.spec[k]))
  BY <1>1, BoundFacts
<1>3. \A v \in Var : bindings[v] # NULL <=> v \in BoundBefore(k) \/ (Found(k) /\ v \in VarsOf(c.spec[k]))
  <2>1. CASE k = L + 1
    <3>1. L < N
      BY <1>1, <2>1
    <3> QED  BY <1>1, <2>1, <3>1
  <2>2. CASE k = L /\ k = N
    <3>1. ~(L < N) /\ k \in 1..L
      BY <1>1, <2>2
    <3>2. Found(k) <=> ~Negated(c.spec[k])
      BY <1>1, <3>1
    <3>3. BoundBefore(L + 1) = BoundBefore(k + 1)
      BY <2>2
    <3> QED  BY <1>1, <1>2, <3>1, <3>2, <3>3
  <2> QED  BY <2>1, <2>2 DEF AtWork
<1>4. Given(k) = [v \in Var |-> IF v \in BoundBefore(k) THEN bindings[v] ELSE NULL]
  BY DEF Given
<1>5. Found(k) => ~Negated(c.spec[k])
  BY LevelCursor
<1>6. CASE Negated(c.spec[k]) /\ bindings' = bindings
  BY <1>1, <1>3, <1>4, <1>5, <1>6
<1>7. CASE ~Negated(c.spec[k]) /\ ~Finds(x) /\ bindings' = NextBindings(x, bindings)
  <2>1. \A v \in BoundBefore(k) : bindings[v] # NULL
    BY <1>2, <1>3
  <2>2. /\ bindings' \in [Var -> Values]
        /\ \A v \in Var : v \notin VarsOf(c.spec[k]) \/ v \in BoundBefore(k) => bindings'[v] = bindings[v]
        /\ x.started # 2 => \A v \in VarsOf(c.spec[k]) \ BoundBefore(k) : bindings'[v] = NULL
        /\ x.started = 2 => bindings' = bindings
    BY <1>7, <2>1, NextBindingsFacts
  <2>3. x.started = 2 => ~Found(k)
    BY DEF Found
  <2>4. \A v \in Var : bindings'[v] = IF v \in BoundBefore(k) THEN bindings[v] ELSE NULL
    BY <1>3, <2>2, <2>3
  <2> QED  BY <1>4, <2>2, <2>4
<1> QED  BY <1>6, <1>7

\* A level fails: the search continues at the one above, or is over.
LEMMA LevelFails ==
    ASSUME SearchableQueries, QueryInv, Searching, NEW k \in 1..c.facts_count, c.l[k].spec_init = 1, AtWork(k),
           \A b \in AllAnswers : ~Beyond(b, k) /\ ~(Below /\ Agrees(b, c.level + 1)),
           c'.spec = c.spec, facts' = facts, interned' = interned, hexastore' = hexastore, asked' = asked,
           c'.is_sorted = c.is_sorted, c'.has_matches = c.has_matches,
           \A j \in 1..c.facts_count : j # k => c'.l[j] = c.l[j],
           c'.l[k].spec_init = 0, bindings' = Given(k),
           k = 1 => c'.facts_count = 0,
           k # 1 => c'.facts_count = c.facts_count /\ c'.level = k - 2 /\ pc' = "level"
    PROVE  (Searching' => GoesOn') /\ Ahead' = Ahead
<1> DEFINE N == c.facts_count
           L == c.level
<1>1. /\ N # 0 /\ N \in Nat /\ L \in Nat /\ L <= N /\ LockInv /\ SpecInv /\ StoreInv /\ bindings \in [Var -> Values]
      /\ \A j \in 1..N : j > L + 1 => c.l[j].spec_init = 0
      /\ \A j \in 1..L : Found(j) <=> ~Negated(c.spec[j])
  BY BindingsNow
<1>2. \A j \in 1..L : Passed(j)
  BY <1>1, BindingsNow DEF SearchInv
<1>3. \A j \in 1..N : j > k => c.l[j].spec_init = 0
  BY <1>1 DEF AtWork
<1>4. ASSUME NEW b \in AllAnswers PROVE b \in Ahead <=> \E j \in 1..(k - 1) : Beyond(b, j)
  <2>1. b \in Ahead <=> (\E j \in 1..N : Beyond(b, j)) \/ (Below /\ Agrees(b, L + 1))
    BY DEF Ahead, Beyond
  <2>2. \A j \in 1..N : j \in 1..(k - 1) \/ j = k \/ j > k
    OBVIOUS
  <2>3. \A j \in 1..N : j > k => ~Beyond(b, j)
    BY <1>3 DEF Beyond, Found
  <2>4. 1..(k - 1) \subseteq 1..N
    BY <1>1
  <2> QED  BY <2>1, <2>2, <2>3, <2>4
<1>5. Ahead \subseteq AllAnswers /\ Ahead' \subseteq AllAnswers'
  BY DEF Ahead
<1>6. CASE k = 1
  <2>1. ~Searching'
    BY <1>6 DEF Searching
  <2>2. Ahead' = {}
    BY <2>1 DEF Ahead
  <2>3. 1..(k - 1) = {}
    BY <1>6
  <2>4. Ahead = {}
    BY <1>4, <1>5, <2>3
  <2> QED  BY <2>1, <2>2, <2>4
<1>7. CASE k # 1
  <2>1. c'.facts_count = N /\ c'.level = k - 2 /\ pc' = "level" /\ Searching'
    BY <1>7 DEF Searching
  <2>2. /\ BoundBefore(k) \subseteq Var
        /\ \A j \in 1..(k - 1) : ~Negated(c.spec[j]) /\ VarsOf(c.spec[j]) \subseteq BoundBefore(k)
    BY <1>1, BoundFacts
  <2>3. \A v \in Var : bindings'[v] = IF v \in BoundBefore(k) THEN bindings[v] ELSE NULL
    BY DEF Given
  <2>4. \A v \in BoundBefore(k) : bindings'[v] = bindings[v]
    BY <2>2, <2>3
  <2>5. k \in 1..(N + 1)
    BY <1>1
  <2>6. /\ AllAnswers' = AllAnswers
        /\ \A j \in 1..N : j # k => (Found(j)' <=> Found(j)) /\ (Passed(j)' <=> Passed(j))
        /\ \A j \in 1..(k - 1) : LevelFits(j)' /\ \A b : Beyond(b, j)' <=> Beyond(b, j)
    BY <2>1, <2>4, <2>5, Frame
  <2>7. \A j \in 1..N : j >= k => c'.l[j].spec_init = 0 /\ ~Found(j)'
    <3> SUFFICES ASSUME NEW j \in 1..N, j >= k PROVE c'.l[j].spec_init = 0
      BY DEF Found
    <3>1. CASE j = k
      BY <3>1
    <3>2. CASE j # k
      <4>1. j > k /\ c'.l[j] = c.l[j]
        BY <3>2
      <4> QED  BY <1>3, <4>1
    <3> QED  BY <3>1, <3>2
  <2>8. \A j \in 1..N : j \in 1..(k - 1) \/ j >= k
    OBVIOUS
  <2>9. \A j \in 1..(k - 1) : j \in 1..N /\ j # k /\ j \in 1..L
    BY <1>1 DEF AtWork
  <2>10. \A j \in 1..(k - 1) : Found(j)' /\ Passed(j)'
    BY <1>1, <1>2, <2>2, <2>6, <2>9
  <2>11. \A j \in 1..N : LevelFits(j)'
    <3>1. \A j \in 1..N : c'.l[j].spec_init = 0 => LevelFits(j)'
      BY DEF LevelFits
    <3> QED  BY <2>6, <2>7, <2>8, <3>1
  <2>12. \A j \in 1..(k - 2) : Passed(j)'
    <3>1. \A j \in 1..(k - 2) : j \in 1..(k - 1)
      OBVIOUS
    <3> QED  BY <2>10, <3>1
  <2>13. BindingsFit'
    <3>1. Given(k) \in [Var -> Values]
      BY <1>1 DEF Given, Values
    <3>2. ASSUME NEW v \in Var PROVE bindings'[v] # NULL <=> \E j \in 1..N : Found(j)' /\ v \in VarsOf(c.spec[j])
      <4>1. ASSUME v \in BoundBefore(k) PROVE bindings[v] # NULL /\ \E j \in 1..N : Found(j)' /\ v \in VarsOf(c.spec[j])
        <5>1. PICK j \in 1..(k - 1) : v \in VarsOf(c.spec[j])
          BY <4>1 DEF BoundBefore
        <5>2. j \in 1..N /\ Found(j) /\ Found(j)'
          BY <2>6, <2>9, <2>10
        <5>3. bindings[v] # NULL
          BY <5>1, <5>2, BindingsNow DEF SearchInv, BindingsFit
        <5> QED  BY <5>1, <5>2, <5>3
      <4>2. ASSUME NEW j \in 1..N, Found(j)', v \in VarsOf(c.spec[j]) PROVE v \in BoundBefore(k)
        <5>1. j \in 1..(k - 1)
          BY <2>7, <2>8, <4>2
        <5> QED  BY <2>2, <4>2, <5>1
      <4> QED  BY <2>3, <4>1, <4>2
    <3> QED  BY <2>1, <3>1, <3>2 DEF BindingsFit, Values
  <2>14. PlaceFits'
    BY <2>1 DEF PlaceFits
  <2>15. GoesOn'
    BY <2>1, <2>11, <2>12, <2>13, <2>14 DEF GoesOn
  <2>16. ~Below'
    <3>1. k - 1 \in 1..(k - 1) /\ k - 2 < N
      BY <1>1, <1>7
    <3>2. Found(k - 1)'
      BY <2>10, <3>1
    <3>3. Below' => (k - 2 < N => ~Found(k - 2 + 1)')
      BY <2>1 DEF Below, Found
    <3>4. k - 2 + 1 = k - 1
      OBVIOUS
    <3> QED  BY <3>1, <3>2, <3>3, <3>4
  <2>17. ASSUME NEW b \in AllAnswers PROVE b \in Ahead' <=> b \in Ahead
    <3>1. b \in Ahead' <=> \E j \in 1..N : Beyond(b, j)'
      BY <2>1, <2>6, <2>16 DEF Ahead, Beyond
    <3>2. \A j \in 1..N : j >= k => ~Beyond(b, j)'
      BY <2>7 DEF Beyond
    <3>3. (\E j \in 1..N : Beyond(b, j)') <=> \E j \in 1..(k - 1) : Beyond(b, j)
      BY <2>6, <2>8, <2>9, <3>2
    <3> QED  BY <1>4, <3>1, <3>3
  <2>18. Ahead' = Ahead
    BY <1>5, <2>6, <2>17
  <2> QED  BY <2>15, <2>18
<1> QED  BY <1>6, <1>7

\* What the search leaves alone.
Kept ==
    /\ c'.spec = c.spec /\ c'.locked = c.locked /\ c'.error = c.error
    /\ c'.limit = c.limit /\ c'.offset = c.offset /\ c'.result_count = c.result_count
    /\ c'.is_sorted = c.is_sorted /\ c'.has_matches = c.has_matches
    /\ c'.sort_var = c.sort_var /\ c'.sort_desc = c.sort_desc
    /\ c'.sorted_matches = c.sorted_matches /\ c'.sorted_pos = c.sorted_pos

\* A step of the search changes the levels, the level at work and the end only.
LEMMA KeptFields ==
    ASSUME c = [f \in Fields |-> c[f]], NEW levels, NEW n, c' = Over(levels) \/ c' = [c EXCEPT !.l = levels, !.level = n]
    PROVE  Kept
<1>1. CASE c' = Over(levels)
  BY <1>1 DEF Kept, Over, Fields
<1>2. CASE c' = [c EXCEPT !.l = levels, !.level = n]
  BY <1>2 DEF Kept, Fields
<1> QED  BY <1>1, <1>2

\* The tail of a sequence, place by place.
LEMMA TailOf ==
    ASSUME NEW q, NEW N \in Nat, N # 0, q = [k \in 1..N |-> q[k]]
    PROVE  Tail(q) = [k \in 1..(N - 1) |-> q[k + 1]]
<1> DEFINE S == {q[k] : k \in 1..N}
<1>1. q \in [1..N -> S]
  OBVIOUS
<1>2. q \in Seq(S) /\ Len(q) = N
  BY <1>1
<1>3. q # <<>>
  BY <1>2
<1> HIDE DEF S
<1> QED  BY <1>2, <1>3

\* The search is under way.
LEMMA UnderWay ==
    ASSUME QueryInv, pc \in {"level", "inner", "match", "limit", "offset"}, c.facts_count # 0
    PROVE  Searching /\ ~c.is_sorted
BY DEF QueryInv, SearchInv, Searching

\* A level is begun.
LEMMA BeginSearch ==
    ASSUME SearchableQueries, QueryInv, BeginLevel
    PROVE  Kept /\ c'.facts_count = c.facts_count /\ c'.level = c.level /\ Searching' /\ GoesOn' /\ Ahead' = Ahead
<1> DEFINE N == c.facts_count
           L == c.level
           parent == IF L = 0 THEN c.spec ELSE Tail(c.l[L].spec)
           spec == LevelSpec(parent)
           cursor == facts_with_spo(spec[1])
           y == [spec |-> spec, spec_init |-> 1, cursor |-> cursor]
<1>1. /\ pc = "level" /\ L < N /\ c.l[L + 1].spec_init = 0 /\ c' = [c EXCEPT !.l[L + 1] = y]
      /\ facts' = facts /\ interned' = interned /\ hexastore' = hexastore /\ asked' = asked /\ bindings' = bindings /\ pc' = pc
  BY DEF BeginLevel, At
<1>2. N # 0
  BY <1>1 DEF QueryInv, SearchInv
<1>3. Searching
  BY <1>1, <1>2, UnderWay
<1>4. /\ N \in Nat /\ L \in Nat /\ LockInv /\ SpecInv /\ StoreInv /\ bindings \in [Var -> Values]
      /\ \A j \in 1..N : j > L + 1 => c.l[j].spec_init = 0
      /\ \A v \in Var : bindings[v] # NULL <=> \/ v \in BoundBefore(L + 1)
                                               \/ L < N /\ Found(L + 1) /\ v \in VarsOf(c.spec[L + 1])
  BY <1>3, BindingsNow
<1>5. (\A j \in 1..N : LevelFits(j)) /\ (\A j \in 1..L : Passed(j)) /\ BindingsFit /\ PlaceFits
  BY <1>3, <1>4, BindingsNow DEF SearchInv
<1>6. PICK k \in 1..N : k = L + 1
  BY <1>1, <1>4
<1>7. /\ c = [f \in Fields |-> c[f]] /\ DOMAIN c.l = 1..N
  BY <1>2, <1>4 DEF LockInv, LevelsOK
<1> HIDE DEF y
<1>8. c' = [c EXCEPT !.l = [c.l EXCEPT ![k] = y], !.level = L]
  BY <1>1, <1>6, <1>7 DEF Fields
<1>9. Kept /\ c'.l = [c.l EXCEPT ![k] = y] /\ c'.facts_count = N /\ c'.level = L
  BY <1>7, <1>8, KeptFields, MovedFields
<1>10. c'.l[k] = y /\ \A j \in 1..N : j # k => c'.l[j] = c.l[j]
  BY <1>7, <1>9
<1>11. k \in 1..(N + 1)
  BY <1>4
<1>12. /\ AllAnswers' = AllAnswers
       /\ \A j : BoundBefore(j)' = BoundBefore(j)
       /\ \A j \in 1..k : Given(j)' = Given(j) /\ Narrowed(j)' = Narrowed(j) /\ \A b : Agrees(b, j)' <=> Agrees(b, j)
       /\ \A j \in 1..N : j # k => (Found(j)' <=> Found(j)) /\ (Passed(j)' <=> Passed(j))
       /\ \A j \in 1..(k - 1) : LevelFits(j)' /\ \A b : Beyond(b, j)' <=> Beyond(b, j)
  <2>1. c'.spec = c.spec
    BY <1>9 DEF Kept
  <2> QED  BY <1>1, <1>3, <1>9, <1>10, <1>11, <2>1, Frame
<1>13. k \in 1..k /\ Given(k)' = Given(k) /\ Narrowed(k)' = Narrowed(k)
  <2>1. k \in 1..k
    BY <1>4
  <2> QED  BY <1>12, <2>1
<1>14. ~Found(k)
  BY <1>1, <1>6 DEF Found
<1>15. bindings = Given(k)
  <2>1. \A v \in Var : bindings[v] # NULL <=> v \in BoundBefore(k)
    BY <1>4, <1>6, <1>14
  <2> QED  BY <1>4, <2>1 DEF Given
<1>16. c.spec = [m \in 1..N |-> c.spec[m]] /\ N = Len(c.spec) /\ \A m \in 1..N : \A n \in Columns : c.spec[m][n] \in Terms
  <2>1. N = Len(c.spec) /\ \A m \in 1..N : \A n \in Columns : c.spec[m][n] \in Terms
    BY <1>2, <1>4, SpecFacts
  <2> QED  BY <1>4, <2>1 DEF SpecInv
<1>17. spec = [m \in 1..(N - k + 1) |-> Substituted(c.spec[k + m - 1], Given(k))]
  <2>1. CASE L = 0
    <3>1. spec = [m \in DOMAIN c.spec |-> Substituted(c.spec[m], bindings)]
      BY <2>1 DEF LevelSpec, spec_subst
    <3>2. DOMAIN c.spec = 1..N
      BY <1>16
    <3>3. N - k + 1 = N /\ \A m \in 1..N : k + m - 1 = m
      BY <1>4, <1>6, <2>1
    <3> HIDE DEF spec
    <3> QED  BY <1>15, <3>1, <3>2, <3>3
  <2>2. CASE L # 0
    <3> DEFINE above == c.l[L].spec
               M == N - L + 1
    <3>1. L \in 1..L /\ L \in 1..N
      BY <1>1, <1>4, <2>2
    <3>2. c.l[L].spec_init = 1
      BY <1>5, <3>1 DEF Passed
    <3>3. above = [m \in 1..(Len(c.spec) - L + 1) |-> Substituted(c.spec[L + m - 1], Given(L))]
      BY <1>5, <3>1, <3>2, Zenon DEF LevelFits
    <3>4. above = [m \in 1..M |-> Substituted(c.spec[L + m - 1], Given(L))]
      BY <1>16, <3>3
    <3>5. above = [m \in 1..M |-> above[m]] /\ M \in Nat /\ M # 0
      BY <1>1, <1>4, <3>4
    <3> HIDE DEF above, M
    <3>6. Tail(above) = [m \in 1..(M - 1) |-> above[m + 1]]
      BY <3>5, TailOf
    <3>7. spec = [m \in 1..(M - 1) |-> Substituted(above[m + 1], bindings)]
      <4>1. spec = [m \in DOMAIN Tail(above) |-> Substituted(Tail(above)[m], bindings)]
        BY <2>2 DEF LevelSpec, spec_subst, above
      <4> HIDE DEF spec
      <4> QED  BY <3>6, <4>1
    <3>8. M - 1 = N - k + 1
      BY <1>4, <1>6 DEF M
    <3>9. ASSUME NEW m \in 1..(M - 1) PROVE Substituted(above[m + 1], bindings) = Substituted(c.spec[k + m - 1], Given(k))
      <4>1. m + 1 \in 1..M /\ L + (m + 1) - 1 = k + m - 1 /\ k + m - 1 \in 1..N
        <5>1. L \in Nat /\ N \in Nat /\ k = L + 1 /\ m \in 1..(N - L + 1 - 1)
          BY <1>4, <1>6 DEF M
        <5> HIDE DEF L, N
        <5> QED  BY <5>1 DEF M
      <4>2. above[m + 1] = Substituted(c.spec[k + m - 1], Given(L))
        <5>1. above[m + 1] = Substituted(c.spec[L + (m + 1) - 1], Given(L))
          BY <3>4, <4>1
        <5> QED  BY <4>1, <5>1
      <4>3. Given(L) \in [Var -> Values] /\ \A v \in Var : Given(L)[v] \in {NULL, bindings[v]}
        BY <1>4 DEF Given, Values
      <4>4. \A n \in Columns : c.spec[k + m - 1][n] \in Terms
        BY <1>16, <4>1
      <4>5. Substituted(Substituted(c.spec[k + m - 1], Given(L)), bindings) = Substituted(c.spec[k + m - 1], bindings)
        BY <1>4, <4>3, <4>4, SubstitutedTwice
      <4> QED  BY <1>15, <4>2, <4>5
    <3> HIDE DEF spec
    <3> QED  BY <3>7, <3>8, <3>9
  <2> QED  BY <2>1, <2>2
<1> HIDE DEF spec
<1>18. spec[1] = Narrowed(k)
  <2>1. 1 \in 1..(N - k + 1) /\ k + 1 - 1 = k
    BY <1>4
  <2>2. spec[1] = Substituted(c.spec[k + 1 - 1], Given(k))
    BY <1>17, <2>1
  <2> QED  BY <2>1, <2>2, Zenon DEF Narrowed
<1>19. (\A n \in Columns : Narrowed(k)[n] \in Terms) /\ Given(k) \in [Var -> Values]
  BY <1>4, <1>15, <1>16, Substitution DEF Narrowed
<1>20. cursor.started \in {0, 2} /\ (cursor.started = 2 => Matching(Narrowed(k)) = {})
  BY <1>4, <1>18, <1>19, OpenedFields
<1>21. cursor = facts_with_spo(Narrowed(k))
  BY <1>18
<1> HIDE DEF cursor
<1>22. y.spec = spec /\ y.spec_init = 1 /\ y.cursor = cursor
  BY DEF y
<1>23. LevelFits(k)'
  <2>1. facts_with_spo(Narrowed(k))' = facts_with_spo(Narrowed(k)) /\ Matching(Narrowed(k))' = Matching(Narrowed(k))
    BY <1>1, <1>13, SameStore
  <2>2. c'.l[k].spec = [m \in 1..(Len(c'.spec) - k + 1) |-> Substituted(c'.spec[k + m - 1], Given(k)')]
    <3>1. c'.spec = c.spec
      BY <1>9 DEF Kept
    <3>2. c'.l[k].spec = spec
      BY <1>10, <1>22
    <3> HIDE DEF y
    <3> QED  BY <1>13, <1>16, <1>17, <3>1, <3>2
  <2>3. c'.l[k].cursor = facts_with_spo(Narrowed(k))'
    BY <1>10, <1>21, <1>22, <2>1
  <2>4. c'.l[k].cursor.started \in {0, 2} /\ (c'.l[k].cursor.started = 2 => Matching(Narrowed(k))' = {})
    BY <1>10, <1>20, <1>22, <2>1
  <2> QED  BY <2>2, <2>3, <2>4 DEF LevelFits
<1>24. ~Found(k)'
  BY <1>10, <1>20, <1>22 DEF Found
<1>25. \A j \in 1..N : Found(j)' <=> Found(j)
  BY <1>12, <1>14, <1>24
<1>26. \A j \in 1..N : j \in 1..(k - 1) \/ j = k \/ j > L + 1
  BY <1>6
<1>27. \A j \in 1..N : LevelFits(j)'
  <2>1. \A j \in 1..N : j > L + 1 => c'.l[j].spec_init = 0
    BY <1>4, <1>6, <1>10
  <2>2. \A j \in 1..N : c'.l[j].spec_init = 0 => LevelFits(j)'
    BY DEF LevelFits
  <2> QED  BY <1>12, <1>23, <1>26, <2>1, <2>2
<1>28. \A j \in 1..L : Passed(j)'
  <2>1. \A j \in 1..L : j \in 1..N /\ j # k
    BY <1>1, <1>4, <1>6
  <2> QED  BY <1>5, <1>12, <2>1
<1>29. BindingsFit'
  BY <1>1, <1>5, <1>9, <1>25 DEF BindingsFit, Kept
<1>30. PlaceFits'
  BY <1>1 DEF PlaceFits
<1>31. Searching'
  BY <1>3, <1>9 DEF Searching, Kept
<1>32. GoesOn'
  BY <1>9, <1>27, <1>28, <1>29, <1>30 DEF GoesOn
<1>33. Below /\ Below'
  <2>1. Below
    BY <1>1, <1>6, <1>14 DEF Below
  <2>2. Below' <=> (pc' \in {"level", "match"} \/ L < N) /\ (L < N => ~Found(k)')
    BY <1>6, <1>9 DEF Below, Found
  <2> QED  BY <1>1, <1>24, <2>1, <2>2
<1>34. ASSUME NEW b \in AllAnswers PROVE b \in Ahead' <=> b \in Ahead
  <2>1. b \in Ahead <=> (\E j \in 1..N : Beyond(b, j)) \/ Agrees(b, k)
    BY <1>3, <1>6, <1>33 DEF Ahead, Beyond
  <2>2. b \in Ahead' <=> (\E j \in 1..N : Beyond(b, j)') \/ Agrees(b, k)'
    <3>1. k = c'.level + 1
      BY <1>6, <1>9
    <3>2. b \in Ahead' <=> b \in AllAnswers' /\ ((\E j \in 1..c'.facts_count : Beyond(b, j)') \/ (Below' /\ Agrees(b, k)'))
      BY <1>31, <3>1, AheadParts
    <3> QED  BY <1>9, <1>12, <1>33, <3>2
  <2>3. \A j \in 1..N : j \notin 1..(k - 1) => ~Beyond(b, j) /\ ~Beyond(b, j)'
    <3>1. \A j \in 1..N : j > L + 1 => ~Found(j)
      BY <1>4 DEF Found
    <3> QED  BY <1>14, <1>25, <1>26, <3>1 DEF Beyond
  <2>4. Agrees(b, k)' <=> Agrees(b, k)
    BY <1>12, <1>13
  <2> QED  BY <1>12, <2>1, <2>2, <2>3, <2>4
<1>35. Ahead' = Ahead
  <2>1. Ahead \subseteq AllAnswers /\ Ahead' \subseteq AllAnswers'
    BY DEF Ahead
  <2> QED  BY <1>12, <1>34, <2>1
<1> QED  BY <1>9, <1>31, <1>32, <1>35

\* What every step of the search shows.
SearchStep == Kept /\ c'.facts_count \in {0, c.facts_count} /\ SearchInv' /\ Ahead' = Ahead

\* What a step of the search may rely on.
LEMMA WorkFacts ==
    ASSUME SearchableQueries, QueryInv, pc \in {"level", "inner"}, c.facts_count # 0,
           NEW k \in 1..c.facts_count, AtWork(k)
    PROVE  /\ Searching /\ ~c.is_sorted /\ LevelsOK /\ c = [f \in Fields |-> c[f]]
           /\ DOMAIN c.l = 1..c.facts_count /\ k \in DOMAIN c.l
           /\ c.facts_count \in Nat /\ c.level \in Nat /\ c.level <= c.facts_count
           /\ k = c.level => c.l[k].spec_init = 1
<1>1. Searching /\ ~c.is_sorted
  BY UnderWay
<1>2. LockInv /\ LevelsOK
  BY DEF QueryInv, LockInv
<1>3. /\ c = [f \in Fields |-> c[f]] /\ DOMAIN c.l = 1..c.facts_count
      /\ c.facts_count \in Nat /\ c.level \in Nat /\ c.level <= c.facts_count
  BY <1>2 DEF LevelsOK
<1>4. k = c.level => c.l[k].spec_init = 1
  <2> SUFFICES ASSUME k = c.level PROVE c.l[k].spec_init = 1
    OBVIOUS
  <2>1. k \in 1..c.level
    BY <1>3
  <2>2. Passed(k)
    BY <1>1, <2>1 DEF QueryInv, SearchInv
  <2> QED  BY <2>2 DEF Passed
<1> QED  BY <1>1, <1>2, <1>3, <1>4

\* A level fails, in the middle of the search or at its end.
LEMMA FailSearch ==
    ASSUME SearchableQueries, QueryInv, pc \in {"level", "inner"}, c.facts_count # 0,
           NEW k \in 1..c.facts_count, AtWork(k), c.l[k].spec_init = 1,
           \A b \in AllAnswers : ~Beyond(b, k) /\ ~(Below /\ Agrees(b, c.level + 1)),
           bindings' = Given(k), facts' = facts, interned' = interned, hexastore' = hexastore, asked' = asked,
           IF k = 1 THEN c' = Over(Stopped(k)) /\ pc' = "nomatch"
           ELSE c' = [c EXCEPT !.l = Stopped(k), !.level = k - 2] /\ pc' = "level"
    PROVE  SearchStep
<1>1. /\ Searching /\ ~c.is_sorted /\ LevelsOK /\ c = [f \in Fields |-> c[f]]
      /\ DOMAIN c.l = 1..c.facts_count /\ k \in DOMAIN c.l
  BY WorkFacts
<1> DEFINE y == [c.l[k] EXCEPT !.cursor = stopped(@), !.spec_init = 0]
<1>2. Stopped(k) = [c.l EXCEPT ![k] = y] /\ y.spec_init = 0
  BY <1>1, LevelFacts
<1> HIDE DEF y
<1>3. Kept
  BY <1>1, KeptFields
<1>4. /\ c'.l = Stopped(k) /\ (k = 1 => c'.facts_count = 0)
      /\ (k # 1 => c'.facts_count = c.facts_count /\ c'.level = k - 2 /\ pc' = "level")
  <2>1. CASE k = 1
    BY <1>1, <2>1, OverFields
  <2>2. CASE k # 1
    <3>1. c' = [c EXCEPT !.l = Stopped(k), !.level = k - 2] /\ pc' = "level"
      BY <2>2
    <3> QED  BY <1>1, <2>2, <3>1, MovedFields
  <2> QED  BY <2>1, <2>2
<1>5. c'.l[k].spec_init = 0 /\ \A j \in 1..c.facts_count : j # k => c'.l[j] = c.l[j]
  BY <1>1, <1>2, <1>4
<1>6. (Searching' => GoesOn') /\ Ahead' = Ahead
  <2>1. c'.spec = c.spec /\ c'.is_sorted = c.is_sorted /\ c'.has_matches = c.has_matches
    BY <1>3 DEF Kept
  <2> QED  BY <1>1, <1>4, <1>5, <2>1, LevelFails
<1>7. ~c'.is_sorted
  BY <1>1, <1>3 DEF Kept
<1>8. SearchInv'
  <2>1. CASE k = 1
    <3>1. c'.facts_count = 0 /\ pc' = "nomatch"
      BY <1>4, <2>1
    <3> QED  BY <1>6, <1>7, <3>1 DEF SearchInv, GoesOn
  <2>2. CASE k # 1
    <3>1. c'.facts_count # 0 /\ pc' = "level"
      BY <1>4, <2>2
    <3> QED  BY <1>6, <1>7, <3>1 DEF SearchInv, GoesOn
  <2> QED  BY <2>1, <2>2
<1> QED  BY <1>3, <1>4, <1>6, <1>8 DEF SearchStep

\* Back, when the level at work has nothing more below the values it has.
LEMMA BackSearch ==
    ASSUME SearchableQueries, QueryInv, pc = "level", c.level < c.facts_count, At.spec_init = 1,
           NEW k \in 1..c.facts_count, k = c.level + 1,
           \A b \in AllAnswers : ~Beyond(b, k) /\ ~(Below /\ Agrees(b, c.level + 1)),
           bindings' = Given(k), facts' = facts, interned' = interned, hexastore' = hexastore, asked' = asked, Back
    PROVE  SearchStep
<1>1. AtWork(k) /\ c.l[k].spec_init = 1 /\ c.facts_count # 0 /\ c.facts_count \in Nat /\ c.level \in Nat
  BY DEF AtWork, At, QueryInv, LockInv, LevelsOK
<1>2. IF k = 1 THEN c' = Over(Stopped(k)) /\ pc' = "nomatch"
      ELSE c' = [c EXCEPT !.l = Stopped(k), !.level = k - 2] /\ pc' = "level"
  <2>1. CASE k = 1
    <3>1. ~(c.level > 0)
      BY <1>1, <2>1
    <3> QED  BY <2>1, <3>1 DEF Back
  <2>2. CASE k # 1
    <3>1. c.level > 0 /\ c.level - 1 = k - 2
      BY <1>1, <2>2
    <3> QED  BY <2>2, <3>1 DEF Back
  <2> QED  BY <2>1, <2>2
<1> QED  BY <1>1, <1>2, FailSearch

\* A positive level looks for its next fact.
LEMMA PositiveSearch ==
    ASSUME SearchableQueries, QueryInv, Positive PROVE SearchStep
<1> DEFINE x == At.cursor
<1>1. /\ pc = "level" /\ c.level < c.facts_count /\ At.spec_init = 1 /\ ~Negated(At.spec[1])
      /\ bindings' = NextBindings(x, bindings) /\ (IF Finds(x) THEN Deeper ELSE Back)
      /\ facts' = facts /\ interned' = interned /\ hexastore' = hexastore /\ asked' = asked
  BY DEF Positive
<1>2. c.level \in Nat /\ c.facts_count \in Nat /\ c.facts_count # 0
  BY <1>1 DEF QueryInv, LockInv, LevelsOK
<1>3. PICK k \in 1..c.facts_count : k = c.level + 1
  BY <1>1, <1>2
<1>4. c.l[k].spec_init = 1 /\ x = c.l[k].cursor /\ At = c.l[k]
  BY <1>1, <1>3 DEF At
<1>5. AtWork(k)
  BY <1>1, <1>3 DEF AtWork
<1>6. /\ Searching /\ ~c.is_sorted /\ LevelsOK /\ c = [f \in Fields |-> c[f]]
      /\ DOMAIN c.l = 1..c.facts_count /\ k \in DOMAIN c.l
  BY <1>1, <1>2, <1>5, WorkFacts
<1>7. ~Negated(c.spec[k]) /\ IsCursor(x)
  BY <1>1, <1>4, <1>6, LevelCursor
<1> HIDE DEF x
<1>8. CASE Finds(x)
  <2> DEFINE y == [c.l[k] EXCEPT !.cursor = facts_cursor_next(@)]
  <2>1. Deeper
    BY <1>1, <1>8
  <2>2. c' = [c EXCEPT !.l = [c.l EXCEPT ![k] = y], !.level = k] /\ pc' = pc
    BY <1>3, <1>6, <2>1 DEF Deeper, Fields
  <2>3. IsLevel(c.l[k])
    BY <1>6, LevelFacts
  <2>4. y.spec = c.l[k].spec /\ y.spec_init = 1 /\ y.cursor = Moved(x)
    BY <1>4, <1>8, <2>3 DEF facts_cursor_next, IsLevel
  <2> HIDE DEF y
  <2>5. Kept /\ c'.l = [c.l EXCEPT ![k] = y] /\ c'.facts_count = c.facts_count /\ c'.level = k
    BY <1>6, <2>2, KeptFields, MovedFields
  <2>6. c'.l[k] = y /\ \A j \in 1..c.facts_count : j # k => c'.l[j] = c.l[j]
    BY <1>6, <2>5
  <2>7. Searching' /\ GoesOn' /\ Ahead' = Ahead
    <3>1. c'.spec = c.spec /\ c'.is_sorted = c.is_sorted /\ c'.has_matches = c.has_matches
      BY <2>5 DEF Kept
    <3>2. /\ k = c.level + 1 /\ pc = "level" /\ pc' = "level"
          /\ c'.l[k].spec = c.l[k].spec /\ c'.l[k].spec_init = 1 /\ c'.l[k].cursor = Moved(x)
      BY <1>1, <1>3, <2>2, <2>4, <2>6
    <3> QED  BY <1>1, <1>4, <1>6, <1>7, <1>8, <2>5, <2>6, <3>1, <3>2, LevelFinds
  <2>8. SearchInv'
    <3>1. ~c'.is_sorted /\ pc' = "level" /\ c'.facts_count # 0
      BY <1>1, <1>2, <1>6, <2>2, <2>5 DEF Kept
    <3> QED  BY <2>7, <3>1 DEF SearchInv, GoesOn
  <2> QED  BY <2>5, <2>7, <2>8 DEF SearchStep
<1>9. CASE ~Finds(x)
  <2>1. Back
    BY <1>1, <1>9
  <2>2. \A b \in AllAnswers : ~Beyond(b, k) /\ ~(Below /\ Agrees(b, c.level + 1))
    BY <1>4, <1>5, <1>6, <1>7, <1>9, NoneLeft
  <2>3. bindings' = Given(k)
    BY <1>1, <1>4, <1>5, <1>6, <1>7, <1>9, GivenBack
  <2> QED  BY <1>1, <1>3, <2>1, <2>2, <2>3, BackSearch
<1> QED  BY <1>8, <1>9

\* A negated level is passed.
LEMMA NegatedPassed ==
    ASSUME SearchableQueries, QueryInv, Searching, NEW k \in 1..c.facts_count, c.l[k].spec_init = 1,
           k = c.level + 1, pc = "level", pc' = "level",
           Negated(c.spec[k]), NEW x, x = c.l[k].cursor, ~Finds(x),
           c'.spec = c.spec, c'.facts_count = c.facts_count,
           facts' = facts, interned' = interned, hexastore' = hexastore, asked' = asked,
           c'.is_sorted = c.is_sorted, c'.has_matches = c.has_matches,
           \A j \in 1..c.facts_count : j # k => c'.l[j] = c.l[j],
           c'.l[k].spec = c.l[k].spec, c'.l[k].spec_init = 1, c'.l[k].cursor = stopped(x), c'.level = k,
           bindings' = bindings
    PROVE  Searching' /\ GoesOn' /\ Ahead' = Ahead
<1> DEFINE N == c.facts_count
           L == c.level
<1>1. /\ N # 0 /\ N \in Nat /\ L \in Nat /\ L <= N /\ LockInv /\ SpecInv /\ StoreInv
  BY BindingsNow
<1>2. (\A j \in 1..N : LevelFits(j)) /\ (\A j \in 1..L : Passed(j)) /\ BindingsFit
  BY BindingsNow DEF SearchInv
<1>3. k = N /\ Negated(c.spec[k]) \in BOOLEAN
  BY <1>1, SpecFacts
<1>4. k \in 1..(N + 1)
  BY <1>1
<1>5. /\ AllAnswers' = AllAnswers
      /\ \A j : BoundBefore(j)' = BoundBefore(j)
      /\ \A j \in 1..k : Given(j)' = Given(j) /\ Narrowed(j)' = Narrowed(j) /\ \A b : Agrees(b, j)' <=> Agrees(b, j)
      /\ \A j \in 1..N : j # k => (Found(j)' <=> Found(j)) /\ (Passed(j)' <=> Passed(j))
      /\ \A j \in 1..(k - 1) : LevelFits(j)' /\ \A b : Beyond(b, j)' <=> Beyond(b, j)
  BY <1>4, Frame
<1>6. k \in 1..k /\ Given(k)' = Given(k) /\ Narrowed(k)' = Narrowed(k)
  <2>1. k \in 1..k
    BY <1>1
  <2> QED  BY <1>5, <2>1
<1>7. /\ (\A n \in Columns : Narrowed(k)[n] \in Terms) /\ IsCursor(x) /\ CursorFits(x, Narrowed(k)) /\ ~Found(k)
  BY LevelCursor
<1>8. Matching(Narrowed(k)) = {}
  <2>1. \A g \in Matching(Narrowed(k)) : x.started = 1
    BY <1>1, <1>7, CursorFinds
  <2>2. x.started # 1
    BY <1>7 DEF Found
  <2> QED  BY <2>1, <2>2
<1>9. /\ stopped(x).index = x.index /\ stopped(x).var = x.var /\ stopped(x).end_key = x.end_key /\ stopped(x).started = 2
  BY <1>7 DEF IsCursor, stopped
<1>10. LevelFits(k)'
  <2>1. facts_with_spo(Narrowed(k))' = facts_with_spo(Narrowed(k)) /\ Matching(Narrowed(k))' = Matching(Narrowed(k))
    BY <1>6, SameStore
  <2>2. /\ c'.l[k].spec = [m \in 1..(Len(c.spec) - k + 1) |-> Substituted(c.spec[k + m - 1], Given(k))]
        /\ x.index = facts_with_spo(Narrowed(k)).index /\ x.var = facts_with_spo(Narrowed(k)).var
        /\ x.end_key = facts_with_spo(Narrowed(k)).end_key
    BY <1>2 DEF LevelFits
  <2> QED  BY <1>6, <1>8, <1>9, <2>1, <2>2 DEF LevelFits
<1>11. \A j \in 1..N : j \in 1..(k - 1) \/ j = k
  BY <1>3
<1>12. ~Found(k)' /\ Passed(k)'
  BY <1>9 DEF Found, Passed
<1>13. \A j \in 1..N : Found(j)' <=> Found(j)
  BY <1>5, <1>7, <1>12
<1>14. \A j \in 1..k : Passed(j)'
  <2>1. \A j \in 1..k : j = k \/ (j \in 1..N /\ j # k /\ j \in 1..L)
    BY <1>1
  <2> QED  BY <1>2, <1>5, <1>12, <2>1
<1>15. BindingsFit'
  BY <1>2, <1>13 DEF BindingsFit
<1>16. PlaceFits'
  BY DEF PlaceFits
<1>17. GoesOn'
  BY <1>5, <1>10, <1>11, <1>14, <1>15, <1>16 DEF GoesOn
<1>18. Searching'
  BY DEF Searching
<1>19. Below /\ Below'
  <2>1. Below
    BY <1>7 DEF Below
  <2>2. Below'
    BY <1>1, <1>3 DEF Below
  <2> QED  BY <2>1, <2>2
<1>20. ASSUME NEW b \in AllAnswers PROVE b \in Ahead' <=> b \in Ahead
  <2>1. b \in Ahead <=> (\E j \in 1..N : Beyond(b, j)) \/ Agrees(b, k)
    BY <1>19 DEF Ahead, Beyond
  <2>2. b \in Ahead' <=> (\E j \in 1..N : Beyond(b, j)') \/ Agrees(b, k + 1)'
    <3>2. b \in Ahead' <=> b \in AllAnswers' /\ ((\E j \in 1..c'.facts_count : Beyond(b, j)') \/ (Below' /\ Agrees(b, k + 1)'))
      BY <1>18, AheadParts
    <3> QED  BY <1>5, <1>19, <3>2
  <2>3. ~Beyond(b, k) /\ ~Beyond(b, k)'
    BY <1>7, <1>12 DEF Beyond
  <2>4. Agrees(b, k + 1)' <=> Agrees(b, k)
    <3>1. BoundBefore(k + 1) = BoundBefore(k)
      <4>1. BoundBefore(k + 1) = BoundBefore(k) \union (IF Negated(c.spec[k]) THEN {} ELSE VarsOf(c.spec[k]))
        BY <1>1, BoundFacts
      <4> QED  BY <4>1
    <3>2. BoundBefore(k + 1)' = BoundBefore(k)
      BY <1>5, <3>1
    <3> QED  BY <3>2 DEF Agrees
  <2>5. \A j \in 1..N : Beyond(b, j)' <=> Beyond(b, j)
    BY <1>5, <1>11, <2>3
  <2> QED  BY <2>1, <2>2, <2>4, <2>5
<1>21. Ahead' = Ahead
  <2>1. Ahead \subseteq AllAnswers /\ Ahead' \subseteq AllAnswers'
    BY DEF Ahead
  <2> QED  BY <1>5, <1>20, <2>1
<1> QED  BY <1>17, <1>18, <1>21

\* A negated level is passed, or the search goes back from it.
LEMMA NegatedSearch ==
    ASSUME SearchableQueries, QueryInv, NegatedLevel PROVE SearchStep
<1> DEFINE x == At.cursor
<1>1. /\ pc = "level" /\ c.level < c.facts_count /\ At.spec_init = 1 /\ Negated(At.spec[1])
      /\ (IF Finds(x) THEN Back ELSE Deeper)
      /\ facts' = facts /\ interned' = interned /\ hexastore' = hexastore /\ asked' = asked /\ bindings' = bindings
  BY DEF NegatedLevel
<1>2. c.level \in Nat /\ c.facts_count \in Nat /\ c.facts_count # 0
  BY <1>1 DEF QueryInv, LockInv, LevelsOK
<1>3. PICK k \in 1..c.facts_count : k = c.level + 1
  BY <1>1, <1>2
<1>4. c.l[k].spec_init = 1 /\ x = c.l[k].cursor /\ At = c.l[k]
  BY <1>1, <1>3 DEF At
<1>5. AtWork(k)
  BY <1>1, <1>3 DEF AtWork
<1>6. /\ Searching /\ ~c.is_sorted /\ LevelsOK /\ c = [f \in Fields |-> c[f]]
      /\ DOMAIN c.l = 1..c.facts_count /\ k \in DOMAIN c.l
  BY <1>1, <1>2, <1>5, WorkFacts
<1>7. Negated(c.spec[k]) /\ IsCursor(x)
  BY <1>1, <1>4, <1>6, LevelCursor
<1> HIDE DEF x
<1>8. CASE ~Finds(x)
  <2> DEFINE y == [c.l[k] EXCEPT !.cursor = facts_cursor_next(@)]
  <2>1. Deeper
    BY <1>1, <1>8
  <2>2. c' = [c EXCEPT !.l = [c.l EXCEPT ![k] = y], !.level = k] /\ pc' = pc
    BY <1>3, <1>6, <2>1 DEF Deeper, Fields
  <2>3. IsLevel(c.l[k])
    BY <1>6, LevelFacts
  <2>4. y.spec = c.l[k].spec /\ y.spec_init = 1 /\ y.cursor = stopped(x)
    BY <1>4, <1>8, <2>3 DEF facts_cursor_next, IsLevel
  <2> HIDE DEF y
  <2>5. Kept /\ c'.l = [c.l EXCEPT ![k] = y] /\ c'.facts_count = c.facts_count /\ c'.level = k
    BY <1>6, <2>2, KeptFields, MovedFields
  <2>6. c'.l[k] = y /\ \A j \in 1..c.facts_count : j # k => c'.l[j] = c.l[j]
    BY <1>6, <2>5
  <2>7. Searching' /\ GoesOn' /\ Ahead' = Ahead
    <3>1. c'.spec = c.spec /\ c'.is_sorted = c.is_sorted /\ c'.has_matches = c.has_matches
      BY <2>5 DEF Kept
    <3>2. /\ k = c.level + 1 /\ pc = "level" /\ pc' = "level"
          /\ c'.l[k].spec = c.l[k].spec /\ c'.l[k].spec_init = 1 /\ c'.l[k].cursor = stopped(x)
      BY <1>1, <1>3, <2>2, <2>4, <2>6
    <3> QED  BY <1>1, <1>4, <1>6, <1>7, <1>8, <2>5, <2>6, <3>1, <3>2, NegatedPassed
  <2>8. SearchInv'
    <3>1. ~c'.is_sorted /\ pc' = "level" /\ c'.facts_count # 0
      BY <1>1, <1>2, <1>6, <2>2, <2>5 DEF Kept
    <3> QED  BY <2>7, <3>1 DEF SearchInv, GoesOn
  <2> QED  BY <2>5, <2>7, <2>8 DEF SearchStep
<1>9. CASE Finds(x)
  <2>1. Back
    BY <1>1, <1>9
  <2>2. \A b \in AllAnswers : ~Beyond(b, k) /\ ~(Below /\ Agrees(b, c.level + 1))
    BY <1>4, <1>5, <1>6, <1>7, <1>9, NegatedNone
  <2>3. bindings' = Given(k)
    BY <1>1, <1>4, <1>5, <1>6, <1>7, GivenBack
  <2> QED  BY <1>1, <1>3, <2>1, <2>2, <2>3, BackSearch
<1> QED  BY <1>8, <1>9

\* The last level is taken up again.
LEMMA ResumeSearch ==
    ASSUME SearchableQueries, QueryInv, Resume PROVE SearchStep
<1>1. /\ pc = "inner" /\ c.facts_count > 0 /\ c.level = c.facts_count
      /\ facts' = facts /\ interned' = interned /\ hexastore' = hexastore /\ asked' = asked
  BY DEF Resume
<1>2. c.level \in Nat /\ c.facts_count \in Nat /\ c.facts_count # 0
  BY <1>1 DEF QueryInv, LockInv, LevelsOK
<1>3. PICK k \in 1..c.facts_count : k = c.facts_count
  BY <1>2
<1> DEFINE x == c.l[k].cursor
<1>5. AtWork(k)
  BY <1>1, <1>3 DEF AtWork
<1>6. /\ Searching /\ ~c.is_sorted /\ LevelsOK /\ c = [f \in Fields |-> c[f]]
      /\ DOMAIN c.l = 1..c.facts_count /\ k \in DOMAIN c.l /\ c.l[k].spec_init = 1
  BY <1>1, <1>2, <1>3, <1>5, WorkFacts
<1>7. Negated(c.l[k].spec[1]) = Negated(c.spec[k]) /\ IsCursor(x) /\ Negated(c.spec[k]) \in BOOLEAN
  <2>1. LockInv /\ SpecInv
    BY DEF QueryInv
  <2> QED  BY <1>2, <1>6, <2>1, LevelCursor, SpecFacts
<1>4. /\ \/ /\ ~Negated(c.spec[k]) /\ Finds(x)
            /\ c' = [c EXCEPT !.l[k].cursor = facts_cursor_next(x)]
            /\ pc' = "match"
         \/ /\ Negated(c.spec[k]) \/ ~Finds(x)
            /\ IF k = 1 THEN c' = Over(Stopped(k)) /\ pc' = "nomatch"
               ELSE c' = [c EXCEPT !.l = Stopped(k), !.level = k - 2] /\ pc' = "level"
      /\ bindings' = IF Negated(c.spec[k]) THEN bindings ELSE NextBindings(x, bindings)
  BY <1>1, <1>3, <1>7 DEF Resume
<1> HIDE DEF x
<1>8. CASE ~Negated(c.spec[k]) /\ Finds(x)
  <2> DEFINE y == [c.l[k] EXCEPT !.cursor = facts_cursor_next(x)]
  <2>2. c' = [c EXCEPT !.l = [c.l EXCEPT ![k] = y], !.level = k] /\ pc' = "match"
    <3>1. c' = [c EXCEPT !.l[k].cursor = facts_cursor_next(x)] /\ pc' = "match"
      BY <1>4, <1>8
    <3>2. PICK z : z = facts_cursor_next(x)
      OBVIOUS
    <3>3. c.level = k
      BY <1>1, <1>3
    <3>4. c' = [c EXCEPT !.l = [c.l EXCEPT ![k] = [c.l[k] EXCEPT !.cursor = z]]]
      BY <1>6, <3>1, <3>2, Zenon DEF Fields
    <3>5. c' = [c EXCEPT !.l = [c.l EXCEPT ![k] = y]]
      BY <3>2, <3>4
    <3> HIDE DEF y
    <3> QED  BY <1>6, <3>1, <3>3, <3>5 DEF Fields
  <2>3. IsLevel(c.l[k])
    BY <1>6, LevelFacts
  <2>4. y.spec = c.l[k].spec /\ y.spec_init = 1 /\ y.cursor = Moved(x)
    BY <1>6, <1>8, <2>3 DEF facts_cursor_next, IsLevel
  <2> HIDE DEF y
  <2>5. Kept /\ c'.l = [c.l EXCEPT ![k] = y] /\ c'.facts_count = c.facts_count /\ c'.level = k
    BY <1>6, <2>2, KeptFields, MovedFields
  <2>6. c'.l[k] = y /\ \A j \in 1..c.facts_count : j # k => c'.l[j] = c.l[j]
    BY <1>6, <2>5
  <2>7. Searching' /\ GoesOn' /\ Ahead' = Ahead
    <3>1. c'.spec = c.spec /\ c'.is_sorted = c.is_sorted /\ c'.has_matches = c.has_matches
      BY <2>5 DEF Kept
    <3>2. /\ k = c.level /\ k = c.facts_count /\ pc = "inner" /\ pc' = "match"
          /\ c'.l[k].spec = c.l[k].spec /\ c'.l[k].spec_init = 1 /\ c'.l[k].cursor = Moved(x)
          /\ bindings' = NextBindings(x, bindings) /\ x = c.l[k].cursor
      BY <1>1, <1>3, <1>4, <1>8, <2>2, <2>4, <2>6 DEF x
    <3> QED  BY <1>1, <1>4, <1>6, <1>8, <2>5, <2>6, <3>1, <3>2, LevelFinds
  <2>8. SearchInv'
    <3>1. ~c'.is_sorted /\ pc' = "match" /\ c'.facts_count # 0
      BY <1>1, <1>2, <1>6, <2>2, <2>5 DEF Kept
    <3> QED  BY <2>7, <3>1 DEF SearchInv, GoesOn
  <2> QED  BY <2>5, <2>7, <2>8 DEF SearchStep
<1>9. CASE Negated(c.spec[k]) \/ ~Finds(x)
  <2>1. IF k = 1 THEN c' = Over(Stopped(k)) /\ pc' = "nomatch"
        ELSE c' = [c EXCEPT !.l = Stopped(k), !.level = k - 2] /\ pc' = "level"
    BY <1>4, <1>9
  <2>2. \A b \in AllAnswers : ~Beyond(b, k) /\ ~(Below /\ Agrees(b, c.level + 1))
    <3>1. CASE Negated(c.spec[k])
      BY <1>1, <1>5, <1>6, <3>1, NegatedNone
    <3>2. CASE ~Negated(c.spec[k])
      BY <1>5, <1>6, <1>9, <3>2, NoneLeft DEF x
    <3> QED  BY <3>1, <3>2
  <2>3. bindings' = Given(k)
    BY <1>4, <1>5, <1>6, <1>9, GivenBack DEF x
  <2> QED  BY <1>1, <1>2, <1>5, <1>6, <2>1, <2>2, <2>3, FailSearch
<1> QED  BY <1>4, <1>8, <1>9

\* A step that leaves the search where it is.
LEMMA SameSearch ==
    ASSUME c'.spec = c.spec, c'.l = c.l, c'.level = c.level, c'.facts_count = c.facts_count,
           facts' = facts, interned' = interned, hexastore' = hexastore, asked' = asked, bindings' = bindings
    PROVE  /\ AllAnswers' = AllAnswers
           /\ \A k \in 1..c.facts_count : (LevelFits(k)' <=> LevelFits(k)) /\ (Passed(k)' <=> Passed(k)) /\ (Found(k)' <=> Found(k))
           /\ \A k : BoundBefore(k)' = BoundBefore(k)
           /\ \A b, k : (Agrees(b, k)' <=> Agrees(b, k)) /\ (Beyond(b, k)' <=> Beyond(b, k))
           /\ BindingsFit' <=> BindingsFit
<1>1. AllAnswers' = AllAnswers
  BY DEF AllAnswers, IsAnswer, InPositive, Fits
<1>2. ASSUME NEW k PROVE BoundBefore(k)' = BoundBefore(k)
  BY DEF BoundBefore
<1>3. ASSUME NEW k PROVE (Passed(k)' <=> Passed(k)) /\ (Found(k)' <=> Found(k))
  BY DEF Passed, Found
<1>4. ASSUME NEW b, NEW k PROVE Row(b, k)' = Row(b, k) /\ Key(b, k)' = Key(b, k)
  BY DEF Row, Key
<1>5. ASSUME NEW b, NEW k PROVE (Agrees(b, k)' <=> Agrees(b, k)) /\ (Beyond(b, k)' <=> Beyond(b, k))
  BY <1>2, <1>3, <1>4 DEF Agrees, Beyond
<1>6. ASSUME NEW k PROVE LevelFits(k)' <=> LevelFits(k)
  <2>1. Given(k)' = Given(k)
    BY <1>2 DEF Given
  <2>2. Narrowed(k)' = Narrowed(k)
    BY <2>1 DEF Narrowed
  <2>3. Matching(Narrowed(k))' = Matching(Narrowed(k)) /\ facts_with_spo(Narrowed(k))' = facts_with_spo(Narrowed(k))
    BY <2>2, SameStore
  <2>4. Row(bindings, k)' = Row(bindings, k) /\ Key(bindings, k)' = Key(bindings, k)
    BY DEF Row, Value, Key
  <2> QED  BY <2>1, <2>3, <2>4 DEF LevelFits
<1>7. BindingsFit' <=> BindingsFit
  BY <1>3 DEF BindingsFit
<1> QED  BY <1>1, <1>2, <1>3, <1>5, <1>6, <1>7

\* Nothing is ahead when the search is over.
LEMMA OverAhead ==
    ASSUME ~Searching' PROVE Ahead' = {}
BY DEF Ahead

\* The search has passed the last level: the bindings are a match.
LEMMA ReachedSearch ==
    ASSUME SearchableQueries, QueryInv, Reached PROVE SearchStep
<1>1. /\ pc = "level" /\ c.level = c.facts_count /\ pc' = "match"
      /\ c' = c /\ facts' = facts /\ interned' = interned /\ hexastore' = hexastore /\ asked' = asked /\ bindings' = bindings
  BY DEF Reached
<1>2. c.facts_count # 0
  BY <1>1 DEF QueryInv, SearchInv
<1>3. Searching /\ ~c.is_sorted
  BY <1>1, <1>2, UnderWay
<1>4. SearchInv /\ LevelsOK
  BY DEF QueryInv, LockInv
<1>5. c.level \in Nat /\ c.facts_count \in Nat
  BY <1>4 DEF LevelsOK
<1>6. Kept
  BY <1>1 DEF Kept
<1>7. /\ AllAnswers' = AllAnswers
      /\ \A k \in 1..c.facts_count : (LevelFits(k)' <=> LevelFits(k)) /\ (Passed(k)' <=> Passed(k)) /\ (Found(k)' <=> Found(k))
      /\ \A k : BoundBefore(k)' = BoundBefore(k)
      /\ \A b, k : (Agrees(b, k)' <=> Agrees(b, k)) /\ (Beyond(b, k)' <=> Beyond(b, k))
      /\ BindingsFit' <=> BindingsFit
  BY <1>1, SameSearch
<1>8. PlaceFits'
  BY <1>1, <1>2 DEF PlaceFits
<1>9. (\A k \in 1..c.facts_count : LevelFits(k)) /\ (\A k \in 1..c.level : Passed(k)) /\ BindingsFit
  BY <1>3, <1>4 DEF SearchInv
<1>10. SearchInv'
  <2>1. (\A k \in 1..c'.facts_count : LevelFits(k)') /\ (\A k \in 1..c'.level : Passed(k)') /\ BindingsFit' /\ PlaceFits'
    BY <1>1, <1>7, <1>8, <1>9
  <2> QED  BY <1>1, <1>2, <1>3, <2>1 DEF SearchInv
<1>11. Below /\ Below' /\ Searching'
  BY <1>1, <1>3, <1>5 DEF Below, Searching
<1>12. PICK m : m = c.level + 1
  OBVIOUS
<1>13. ASSUME NEW b PROVE b \in Ahead' <=> b \in Ahead
  <2>1. b \in Ahead <=> b \in AllAnswers /\ ((\E k \in 1..c.facts_count : Beyond(b, k)) \/ Agrees(b, m))
    BY <1>3, <1>11, <1>12 DEF Ahead, Beyond
  <2>2. m = c'.level + 1
    BY <1>1, <1>12
  <2>3. b \in Ahead' <=> b \in AllAnswers' /\ ((\E k \in 1..c'.facts_count : Beyond(b, k)') \/ (Below' /\ Agrees(b, m)'))
    BY <1>11, <2>2, AheadParts
  <2> QED  BY <1>1, <1>7, <1>11, <2>1, <2>3
<1>14. Ahead' = Ahead
  BY <1>13
<1> QED  BY <1>1, <1>6, <1>10, <1>14 DEF SearchStep

\* A step of the paging that the search does not see: the place changes, and the
\* next fact is looked for at a level or not, as before.
LEMMA PagingSearch ==
    ASSUME SearchInv, LevelsOK, c'.spec = c.spec, c'.l = c.l, c'.level = c.level, c'.facts_count = c.facts_count,
           facts' = facts, interned' = interned, hexastore' = hexastore, asked' = asked, bindings' = bindings,
           Searching' => Searching, pc \notin {"level", "match"},
           pc' = "level" => c.level < c.facts_count,
           pc' \notin {"match", "collect"}
    PROVE  /\ Searching' => GoesOn'
           /\ Searching' => Ahead' = Ahead
<1> SUFFICES ASSUME Searching' PROVE GoesOn' /\ Ahead' = Ahead
  OBVIOUS
<1>1. Searching
  OBVIOUS
<1>2. /\ AllAnswers' = AllAnswers
      /\ \A k \in 1..c.facts_count : (LevelFits(k)' <=> LevelFits(k)) /\ (Passed(k)' <=> Passed(k)) /\ (Found(k)' <=> Found(k))
      /\ \A k : BoundBefore(k)' = BoundBefore(k)
      /\ \A b, k : (Agrees(b, k)' <=> Agrees(b, k)) /\ (Beyond(b, k)' <=> Beyond(b, k))
      /\ BindingsFit' <=> BindingsFit
  BY SameSearch
<1>3. (\A k \in 1..c.facts_count : LevelFits(k)) /\ (\A k \in 1..c.level : Passed(k)) /\ BindingsFit /\ PlaceFits
  BY <1>1 DEF SearchInv
<1>4. c.level \in Nat /\ c.facts_count \in Nat /\ c.facts_count # 0 /\ c.level <= c.facts_count
  BY <1>1 DEF LevelsOK, Searching
<1>5. PlaceFits'
  BY <1>3, <1>4 DEF PlaceFits
<1>6. \A k \in 1..c.level : Passed(k)'
  <2>1. \A k \in 1..c.level : k \in 1..c.facts_count
    BY <1>4
  <2> QED  BY <1>2, <1>3, <2>1
<1>7. GoesOn'
  BY <1>2, <1>3, <1>5, <1>6 DEF GoesOn
<1>8. Below' <=> Below
  <2>1. c.level < c.facts_count => c.level + 1 \in 1..c.facts_count
    BY <1>4
  <2>2. c.level < c.facts_count => (Found(c.level + 1)' <=> Found(c.level + 1))
    BY DEF Found
  <2>3. Below <=> c.level < c.facts_count /\ ~Found(c.level + 1)
    BY DEF Below
  <2>4. Below' <=> c.level < c.facts_count /\ ~Found(c.level + 1)'
    BY DEF Below
  <2> QED  BY <2>2, <2>3, <2>4
<1>9. PICK m : m = c.level + 1
  OBVIOUS
<1>10. ASSUME NEW b PROVE b \in Ahead' <=> b \in Ahead
  <2>1. b \in Ahead <=> b \in AllAnswers /\ ((\E k \in 1..c.facts_count : Beyond(b, k)) \/ (Below /\ Agrees(b, m)))
    BY <1>1, <1>9 DEF Ahead, Beyond
  <2>2. m = c'.level + 1
    BY <1>9
  <2>3. b \in Ahead' <=> b \in AllAnswers' /\ ((\E k \in 1..c'.facts_count : Beyond(b, k)') \/ (Below' /\ Agrees(b, m)'))
    BY <2>2, AheadParts
  <2> QED  BY <1>2, <1>8, <2>1, <2>3
<1> QED  BY <1>7, <1>10

\* The search is entered for the first time, or when it is over.
LEMMA EnterSearch ==
    ASSUME SearchableQueries, QueryInv, Enter PROVE SearchStep
<1>1. /\ pc = "inner" /\ pc' = (IF c.facts_count = 0 THEN "nomatch" ELSE "level")
      /\ c.facts_count = 0 \/ c.level < c.facts_count
      /\ c' = c /\ facts' = facts /\ interned' = interned /\ hexastore' = hexastore /\ asked' = asked /\ bindings' = bindings
  BY DEF Enter
<1>2. SearchInv /\ LevelsOK /\ ~c.is_sorted
  BY <1>1 DEF QueryInv, LockInv, SearchInv
<1>3. Kept /\ (Searching' <=> Searching)
  BY <1>1 DEF Kept, Searching
<1>4. CASE c.facts_count = 0
  <2>1. ~Searching /\ ~Searching'
    BY <1>3, <1>4 DEF Searching
  <2>2. Ahead = {} /\ Ahead' = {}
    BY <2>1 DEF Ahead
  <2>3. SearchInv'
    BY <1>1, <1>2, <1>4, <2>1 DEF SearchInv
  <2> QED  BY <1>1, <1>3, <2>2, <2>3 DEF SearchStep
<1>5. CASE c.facts_count # 0
  <2>1. Searching'
    BY <1>1, <1>2, <1>5 DEF Searching
  <2>2. GoesOn' /\ Ahead' = Ahead
    BY <1>1, <1>2, <1>3, <1>5, <2>1, PagingSearch
  <2>3. SearchInv'
    BY <1>1, <1>2, <1>5, <2>2 DEF SearchInv, GoesOn
  <2> QED  BY <1>1, <1>3, <2>2, <2>3 DEF SearchStep
<1> QED  BY <1>4, <1>5

\* A negated level finds no memory, and the search is over.
LEMMA StarvedSearch ==
    ASSUME SearchableQueries, QueryInv, NegatedStarved
    PROVE  Kept /\ c'.facts_count = 0 /\ SearchInv' /\ Ahead' = {} /\ starved'
<1>1. /\ pc = "level" /\ c' = Over(Stopped(c.level + 1)) /\ pc' = "nomatch" /\ starved'
  BY DEF NegatedStarved
<1>2. SearchInv /\ LevelsOK /\ ~c.is_sorted
  BY <1>1 DEF QueryInv, LockInv, SearchInv
<1>3. c = [f \in Fields |-> c[f]]
  BY <1>2 DEF LevelsOK
<1>4. Kept /\ c'.facts_count = 0
  BY <1>1, <1>3, KeptFields, OverFields
<1>5. ~Searching'
  BY <1>4 DEF Searching
<1>6. SearchInv'
  BY <1>1, <1>2, <1>4, <1>5 DEF SearchInv, Kept
<1> QED  BY <1>1, <1>4, <1>5, <1>6, OverAhead

\* The bindings of a match are an answer that was still to be found.
LEMMA MatchAhead ==
    ASSUME SearchableQueries, QueryInv, pc = "match"
    PROVE  /\ Searching /\ bindings \in Ahead
           /\ \A b : b \in Ahead /\ b # bindings <=> b \in AllAnswers /\ \E k \in 1..c.facts_count : Beyond(b, k)
<1> DEFINE N == c.facts_count
<1>1. N # 0
  BY DEF QueryInv, SearchInv
<1>2. Searching /\ ~c.is_sorted
  BY <1>1, UnderWay
<1>3. /\ N \in Nat /\ c.level \in Nat /\ LockInv /\ SpecInv /\ StoreInv /\ SearchInv /\ bindings \in [Var -> Values]
      /\ \A k \in 1..c.level : Found(k) <=> ~Negated(c.spec[k])
      /\ \A v \in Var : bindings[v] # NULL <=> \/ v \in BoundBefore(c.level + 1)
                                               \/ c.level < N /\ Found(c.level + 1) /\ v \in VarsOf(c.spec[c.level + 1])
  BY <1>2, BindingsNow
<1>4. c.level = N /\ (\A k \in 1..N : Passed(k)) /\ (\A k \in 1..N : LevelFits(k))
  BY <1>2, <1>3 DEF SearchInv, PlaceFits
<1>5. BoundBefore(N + 1) = InPositive
  BY <1>1, <1>3, BoundFacts
<1>6. \A v \in Var : bindings[v] # NULL <=> v \in InPositive
  BY <1>3, <1>4, <1>5
<1>7. ASSUME NEW k \in 1..N
      PROVE IF Negated(c.spec[k])
            THEN ~\E f \in facts : \A n \in Columns : Value(bindings, c.spec[k][n]) \in {NULL, f[n]}
            ELSE Row(bindings, k) \in facts /\ ~Beyond(bindings, k)
  <2>1. Passed(k) /\ c.l[k].spec_init = 1
    BY <1>4 DEF Passed
  <2>2. CASE ~Negated(c.spec[k])
    <3>1. Found(k)
      BY <1>3, <1>4, <2>2
    <3>2. Row(bindings, k) \in Matching(Narrowed(k)) /\ c.l[k].cursor.it = Key(bindings, k)
      BY <1>2, <2>1, <3>1, LevelCursor
    <3>3. Row(bindings, k) \in facts
      BY <3>2 DEF Matching
    <3>4. /\ (\A n \in Columns : Narrowed(k)[n] \in Terms)
          /\ IsCursor(c.l[k].cursor) /\ CursorFits(c.l[k].cursor, Narrowed(k))
      BY <1>2, <2>1, LevelCursor
    <3>5. Key(bindings, k) \in Nat
      BY <1>3, <3>3, <3>4, CursorFinds DEF Key
    <3>6. ~Beyond(bindings, k)
      BY <3>2, <3>5 DEF Beyond
    <3> QED  BY <2>2, <3>3, <3>6
  <2>3. CASE Negated(c.spec[k])
    <3> SUFFICES ASSUME NEW f \in facts, \A n \in Columns : Value(bindings, c.spec[k][n]) \in {NULL, f[n]}
                 PROVE  FALSE
      BY <2>3
    <3>1. c.l[k].cursor.started = 2
      BY <2>1, <2>3 DEF Passed
    <3>2. Matching(Narrowed(k)) = {}
      BY <1>2, <2>1, <3>1, LevelCursor
    <3>3. \A n \in Columns : c.spec[k][n] \in Terms
      BY <1>1, <1>3, SpecFacts
    <3>4. k = N
      BY <1>1, <1>3, <2>3, SpecFacts
    <3>5. BoundBefore(k) = InPositive
      <4>1. BoundBefore(k + 1) = BoundBefore(k) \union (IF Negated(c.spec[k]) THEN {} ELSE VarsOf(c.spec[k]))
        BY <1>1, <1>3, BoundFacts
      <4> QED  BY <1>5, <2>3, <3>4, <4>1
    <3>6. Given(k) = bindings
      BY <1>3, <1>6, <3>5 DEF Given
    <3>7. ASSUME NEW n \in Columns PROVE Narrowed(k)[n] \in Var \union {f[n]}
      <4>1. /\ c.spec[k][n] \notin Var => Narrowed(k)[n] = c.spec[k][n]
            /\ c.spec[k][n] \in Var => Narrowed(k)[n] = (IF bindings[c.spec[k][n]] # NULL THEN bindings[c.spec[k][n]] ELSE c.spec[k][n])
        BY <1>3, <3>3, <3>6, Substitution DEF Narrowed
      <4>2. CASE c.spec[k][n] \notin Var
        <5>1. c.spec[k][n] # NULL
          BY <3>3, <4>2, SymbolFacts DEF Terms
        <5> QED  BY <4>1, <4>2, <5>1 DEF Value
      <4>3. CASE c.spec[k][n] \in Var
        BY <4>1, <4>3 DEF Value
      <4> QED  BY <4>2, <4>3
    <3>8. f \in Matching(Narrowed(k))
      BY <3>7 DEF Matching
    <3> QED  BY <3>2, <3>8
  <2> QED  BY <2>2, <2>3
<1>8. bindings \in AllAnswers
  BY <1>1, <1>3, <1>6, <1>7, AnswerFacts
<1>9. Below
  BY <1>4, <1>3 DEF Below
<1>10. \A b : b \in Ahead <=> b \in AllAnswers /\ ((\E k \in 1..N : Beyond(b, k)) \/ Agrees(b, N + 1))
  BY <1>2, <1>4, <1>9 DEF Ahead, Beyond
<1>11. \A b \in AllAnswers : Agrees(b, N + 1) <=> b = bindings
  <2> SUFFICES ASSUME NEW b \in AllAnswers PROVE Agrees(b, N + 1) <=> b = bindings
    OBVIOUS
  <2>1. b \in [Var -> Values] /\ \A v \in Var : b[v] # NULL <=> v \in InPositive
    BY <1>1, <1>3, AnswerFacts
  <2>2. Agrees(b, N + 1) => \A v \in Var : b[v] = bindings[v]
    BY <1>5, <1>6, <2>1 DEF Agrees
  <2>3. Agrees(b, N + 1) => b = bindings
    BY <1>3, <2>1, <2>2
  <2> QED  BY <2>3 DEF Agrees
<1>12. ~\E k \in 1..N : Beyond(bindings, k)
  <2> SUFFICES ASSUME NEW k \in 1..N, Beyond(bindings, k) PROVE FALSE
    OBVIOUS
  <2>1. k \in 1..c.level /\ Found(k)
    BY <1>4 DEF Beyond
  <2>2. ~Negated(c.spec[k])
    BY <1>3, <2>1
  <2> QED  BY <1>7, <2>2
<1>13. bindings \in Ahead
  BY <1>8, <1>10, <1>11
<1> QED  BY <1>2, <1>8, <1>10, <1>11, <1>12, <1>13

-----------------------------------------------------------------------------
(* The store *)

\* An insertion that fails half-way takes the fact out of the tries it had reached,
\* and a removal takes it out of all: the tries go on to agree.
LEMMA StoreStep ==
    ASSUME StoreInv, [Next]_vars PROVE StoreInv'
<1> DEFINE D == {"spo", "pos", "osp"}
           All(S) == [index \in D |-> S]
<1>0. DOMAIN Trie = D
  BY DEF Trie
<1>1. hexastore = All(facts) /\ facts \subseteq Facts /\ interned \in [Symbols -> Nat]
  BY <1>0 DEF StoreInv
<1>2. ASSUME NEW S, NEW f PROVE hexastore_remove(All(S), f) = All(S \ {f})
  BY DEF hexastore_remove, raxRemove
<1>3. ASSUME NEW S, NEW f
      PROVE  /\ raxInsert(raxInsert(raxInsert(All(S), "spo", f), "pos", f), "osp", f) = All(S \union {f})
             /\ f \notin S => raxRemove(raxInsert(All(S), "spo", f), "spo", f) = All(S)
             /\ f \notin S => raxRemove(raxRemove(raxInsert(raxInsert(All(S), "spo", f), "pos", f), "pos", f), "spo", f) = All(S)
  BY DEF raxInsert, raxRemove
<1> HIDE DEF All
<1>4. ASSUME NEW f \in Facts, facts_insert_fact_copy(f) PROVE StoreInv'
  <2>1. f \notin facts /\ interned' = interned
    BY <1>4 DEF facts_insert_fact_copy
  <2>2. PICK fails \in {"none"} \union (Starving \intersect {"spo", "pos", "osp", "index"}) :
            LET inserted == hexastore_insert(hexastore, f, fails)
            IN  CASE fails = "none" -> hexastore' = inserted /\ facts' = facts \union {f}
                  [] fails = "index" -> hexastore' = hexastore_remove(inserted, f) /\ UNCHANGED facts
                  [] OTHER -> hexastore' = inserted /\ UNCHANGED facts
    BY <1>4 DEF facts_insert_fact_copy
  <2>3. CASE fails = "none"
    <3>1. hexastore_insert(hexastore, f, fails) = All(facts \union {f})
      BY <1>1, <1>3, <2>3 DEF hexastore_insert
    <3> QED  BY <1>0, <1>1, <2>1, <2>2, <2>3, <3>1 DEF StoreInv, All
  <2>4. CASE fails = "index"
    <3>1. hexastore_insert(hexastore, f, fails) = All(facts \union {f})
      BY <1>1, <1>3, <2>4 DEF hexastore_insert
    <3>2. hexastore_remove(All(facts \union {f}), f) = All(facts)
      <4>1. (facts \union {f}) \ {f} = facts
        BY <2>1
      <4> QED  BY <1>2, <4>1
    <3> QED  BY <1>0, <1>1, <2>1, <2>2, <2>4, <3>1, <3>2 DEF StoreInv, All
  <2>5. CASE fails \in {"spo", "pos", "osp"}
    <3>1. hexastore_insert(hexastore, f, fails) = All(facts)
      BY <1>1, <1>3, <2>1, <2>5 DEF hexastore_insert
    <3> QED  BY <1>0, <1>1, <2>1, <2>2, <2>5, <3>1 DEF StoreInv, All
  <2> QED  BY <2>3, <2>4, <2>5
<1>5. ASSUME NEW f \in Facts, facts_remove_found(f) PROVE StoreInv'
  <2>1. facts' = facts \ {f} /\ interned' = interned /\ hexastore' = hexastore_remove(hexastore, f)
    BY <1>5 DEF facts_remove_found
  <2>2. hexastore' = All(facts \ {f})
    BY <1>1, <1>2, <2>1
  <2> QED  BY <1>0, <1>1, <2>1, <2>2 DEF StoreInv, All
<1>6. CASE Compact
  <2>1. facts' = facts /\ interned' = interned /\ \E fails \in BOOLEAN : hexastore' = hexastore_compact(hexastore, fails)
    BY <1>6 DEF Compact
  <2>2. hexastore.spo = facts
    BY <1>1 DEF All
  <2>3. hexastore' = All(facts)
    BY <1>0, <1>1, <2>1, <2>2 DEF hexastore_compact, All
  <2> QED  BY <1>0, <1>1, <2>1, <2>3 DEF StoreInv, All
<1>7. CASE UNCHANGED <<facts, hexastore>> /\ interned' \in [Symbols -> Nat]
  BY <1>7 DEF StoreInv
<1>8. CASE \/ \E triples \in Asked, mod \in Modifiers : Open(triples, mod)
           \/ facts_with_cursor_destroy \/ CallNext \/ UNCHANGED vars
  BY <1>1, <1>7, <1>8 DEF Open, facts_with_cursor_destroy, CallNext, vars
<1>9. CASE Step
  <2>1. CASE Limit \/ Offset \/ Match \/ NoMatch \/ Collect \/ Collected \/ Page
    BY <1>1, <1>7, <2>1 DEF Limit, Offset, Match, NoMatch, Collect, Collected, Page
  <2>2. CASE Resume \/ Enter \/ BeginLevel \/ Positive \/ NegatedLevel \/ NegatedStarved \/ Reached
    BY <1>1, <1>7, <2>2 DEF Resume, Enter, BeginLevel, Positive, NegatedLevel, NegatedStarved, Reached
  <2> QED  BY <1>9, <2>1, <2>2 DEF Step
<1>10. CASE facts_intern
  BY <1>7, <1>10, QueryAssumption DEF facts_intern
<1> QED  BY <1>4, <1>5, <1>6, <1>8, <1>9, <1>10 DEF Next

\* The tries hold what the hash index holds.
LEMMA InitStore == Init => StoreInv
BY DEF Init, StoreInv, new_hexastore

\* While a query has its lock no writer gets in.
LEMMA StoreFixed ==
    ASSUME LockInv, [Next]_vars, c.locked = 1 PROVE facts' = facts /\ interned' = interned /\ hexastore' = hexastore
<1>1. pc # "closed"
  BY DEF LockInv
<1>2. LevelsOK
  BY DEF LockInv
<1>3. DOMAIN c.l = 1..Len(c.l) /\ Len(c.l) \in Nat /\ 1 \in Int
  BY <1>2 DEF LevelsOK
<1>4. IsFiniteSet(DOMAIN c.l)
  BY <1>3, FS_Interval
<1>5. Cardinality(Holding(c.l)) \in Nat
  BY <1>4, FS_Subset, FS_CardinalityType DEF Holding
<1>6. depth = c.locked + Cardinality(Holding(c.l))
  BY <1>1, Zenon DEF LockInv
<1>7. depth # 0
  BY <1>5, <1>6
<1>8. CASE \E f \in Facts : facts_insert_fact_copy(f) \/ facts_remove_found(f)
  BY <1>7, <1>8 DEF facts_insert_fact_copy, facts_remove_found
<1>9. CASE Compact \/ facts_intern
  BY <1>1, <1>7, <1>9 DEF Compact, facts_intern
<1>10. CASE \/ \E triples \in Asked, mod \in Modifiers : Open(triples, mod)
            \/ facts_with_cursor_destroy \/ CallNext \/ UNCHANGED vars
  BY <1>10 DEF Open, facts_with_cursor_destroy, CallNext, vars
<1>11. CASE Step
  <2>1. CASE Limit \/ Offset \/ Match \/ NoMatch \/ Collect \/ Collected \/ Page
    BY <2>1 DEF Limit, Offset, Match, NoMatch, Collect, Collected, Page
  <2>2. CASE Resume \/ Enter \/ BeginLevel \/ Positive \/ NegatedLevel \/ NegatedStarved \/ Reached
    BY <2>2 DEF Resume, Enter, BeginLevel, Positive, NegatedLevel, NegatedStarved, Reached
  <2> QED  BY <1>11, <2>1, <2>2 DEF Step
<1> QED  BY <1>8, <1>9, <1>10, <1>11 DEF Next

-----------------------------------------------------------------------------
(* The order of the patterns *)

\* The patterns of a query that can be searched, in some order.
Apart(spec) ==
    \A n, m \in DOMAIN spec : n # m /\ Negated(spec[n]) =>
        /\ ~Negated(spec[m])
        /\ \E i \in Columns : spec[m][i] \notin Var
        /\ \E v \in VarsOf(spec[n]) : \A j \in DOMAIN spec \ {m, n} : v \notin VarsOf(spec[j])

\* A total order on the first numbers, given by what is not after each, gives each
\* its place.
LEMMA Ranks ==
    ASSUME NEW N \in Nat, NEW Down \in [1..N -> SUBSET (1..N)],
           \A m, n \in 1..N : m \in Down[n] \/ n \in Down[m],
           \A m, n \in 1..N : m \in Down[n] /\ n \in Down[m] => m = n,
           \A m, n, k \in 1..N : m \in Down[n] /\ n \in Down[k] => m \in Down[k]
    PROVE  /\ \A n \in 1..N : Cardinality(Down[n]) \in 1..N
           /\ \A n, m \in 1..N : Cardinality(Down[n]) = Cardinality(Down[m]) => n = m
           /\ \A k \in 1..N : \E n \in 1..N : Cardinality(Down[n]) = k
<1> DEFINE f == [n \in 1..N |-> Cardinality(Down[n])]
<1>1. IsFiniteSet(1..N) /\ Cardinality(1..N) = N
  <2>1. 1 \in Int /\ N \in Int
    OBVIOUS
  <2>2. IsFiniteSet(1..N) /\ Cardinality(1..N) = IF 1 > N THEN 0 ELSE N - 1 + 1
    BY <2>1, FS_Interval
  <2> QED  BY <2>2
<1>2. ASSUME NEW n \in 1..N
      PROVE  IsFiniteSet(Down[n]) /\ Cardinality(Down[n]) \in 1..N /\ n \in Down[n]
  <2>1. Down[n] \in SUBSET (1..N) /\ n \in Down[n]
    OBVIOUS
  <2>2. IsFiniteSet(Down[n]) /\ Cardinality(Down[n]) <= N
    BY <1>1, <2>1, FS_Subset
  <2>3. Cardinality(Down[n]) \in Nat /\ Cardinality(Down[n]) # 0
    BY <2>1, <2>2, FS_CardinalityType, FS_EmptySet
  <2> QED  BY <2>1, <2>2, <2>3
<1>3. ASSUME NEW n \in 1..N, NEW m \in 1..N, m \in Down[n], m # n PROVE Cardinality(Down[m]) # Cardinality(Down[n])
  <2>1. Down[m] \in SUBSET Down[n] /\ n \notin Down[m]
    BY <1>3
  <2>2. Down[m] # Down[n]
    BY <1>2, <2>1
  <2> QED  BY <1>2, <2>1, <2>2, FS_Subset
<1>4. ASSUME NEW n \in 1..N, NEW m \in 1..N, Cardinality(Down[n]) = Cardinality(Down[m]) PROVE n = m
  BY <1>3, <1>4
<1>5. f \in Injection(1..N, 1..N)
  BY <1>2, <1>4 DEF Injection, IsInjective
<1>6. f \in Surjection(1..N, 1..N)
  BY <1>1, <1>5, FS_Injection
<1>7. \A k \in 1..N : \E n \in 1..N : Cardinality(Down[n]) = k
  BY <1>6 DEF Surjection
<1> QED  BY <1>2, <1>4, <1>7

\* compile_sparql_to_spec and spec_expand keep every triple, once.
LEMMA ExpandedKeeps ==
    ASSUME SearchableQueries, NEW triples \in Asked, NEW spec, spec = Expanded(triples)
    PROVE  /\ Len(triples) \in Nat /\ spec = [k \in 1..Len(triples) |-> spec[k]]
           /\ {spec[k] : k \in 1..Len(triples)} = {Pattern(t) : t \in ToSet(triples)}
           /\ Apart(spec)
<1> DEFINE N == Len(triples)
           SameGroup(m, n) == m = n \/ (~triples[m].negated /\ ~triples[n].negated /\ triples[m].s = triples[n].s)
           Lead(n) == CHOOSE m \in 1..n : SameGroup(m, n) /\ \A k \in 1..(m - 1) : ~SameGroup(k, n)
           NotAfter(m, n) == Lead(m) < Lead(n) \/ (Lead(m) = Lead(n) /\ m <= n)
           Rank(n) == Cardinality({m \in 1..N : NotAfter(m, n)})
           Source(k) == CHOOSE n \in 1..N : Rank(n) = k
<1>1. DOMAIN triples = 1..N /\ N \in Nat
  <2>1. \E T : triples \in Seq(T)
    BY QueryAssumption
  <2> QED  BY <2>1
<1>2. spec = [k \in 1..N |-> Pattern(triples[Source(k)])]
  <2> DEFINE RankIn(D, n) == Cardinality({m \in D : NotAfter(m, n)})
             SourceIn(D, k) == CHOOSE n \in D : RankIn(D, n) = k
  <2> HIDE DEF Lead
  <2>1. spec = [k \in DOMAIN triples |-> Pattern(triples[SourceIn(DOMAIN triples, k)])]
    BY DEF Expanded, Lead
  <2>2. \A k : SourceIn(1..N, k) = Source(k)
    OBVIOUS
  <2> HIDE DEF SourceIn, Source
  <2> QED  BY <1>1, <2>1, <2>2
<1>3. ASSUME NEW n \in 1..N PROVE Lead(n) \in Int
  <2> DEFINE T == {m \in 1..n : SameGroup(m, n)}
  <2>1. T \subseteq Nat /\ n \in T
    OBVIOUS
  <2>2. PICK m \in T : \A y \in T : m <= y
    BY <2>1, LeastNatural
  <2>3. m \in 1..n /\ SameGroup(m, n) /\ \A k \in 1..(m - 1) : ~SameGroup(k, n)
    <3>1. m \in 1..n /\ SameGroup(m, n)
      OBVIOUS
    <3>2. ASSUME NEW k \in 1..(m - 1), SameGroup(k, n) PROVE FALSE
      <4>1. k \in 1..n /\ ~(m <= k)
        OBVIOUS
      <4>2. k \in T
        BY <3>2, <4>1
      <4> HIDE DEF T
      <4> QED  BY <2>2, <4>1, <4>2
    <3> QED  BY <3>1, <3>2
  <2> HIDE DEF SameGroup
  <2>4. \E j \in 1..n : SameGroup(j, n) /\ \A k \in 1..(j - 1) : ~SameGroup(k, n)
    BY <2>3
  <2>5. Lead(n) \in 1..n
    BY <2>4
  <2> QED  BY <2>5
<1> HIDE DEF Lead
<1>4. /\ \A m, n \in 1..N : NotAfter(m, n) \/ NotAfter(n, m)
      /\ \A m, n \in 1..N : NotAfter(m, n) /\ NotAfter(n, m) => m = n
      /\ \A m, n, k \in 1..N : NotAfter(m, n) /\ NotAfter(n, k) => NotAfter(m, k)
  <2> SUFFICES ASSUME NEW m \in 1..N, NEW n \in 1..N, NEW k \in 1..N
               PROVE  /\ NotAfter(m, n) \/ NotAfter(n, m)
                      /\ NotAfter(m, n) /\ NotAfter(n, m) => m = n
                      /\ NotAfter(m, n) /\ NotAfter(n, k) => NotAfter(m, k)
    OBVIOUS
  <2>1. Lead(m) \in Int /\ Lead(n) \in Int /\ Lead(k) \in Int
    BY <1>3
  <2> QED  BY <2>1
<1> HIDE DEF NotAfter
<1>5. /\ \A n \in 1..N : Rank(n) \in 1..N
      /\ \A n, m \in 1..N : Rank(n) = Rank(m) => n = m
      /\ \A k \in 1..N : \E n \in 1..N : Rank(n) = k
  <2> DEFINE Down == [n \in 1..N |-> {m \in 1..N : NotAfter(m, n)}]
  <2>1. \A n \in 1..N : Cardinality(Down[n]) = Rank(n)
    OBVIOUS
  <2>2. /\ Down \in [1..N -> SUBSET (1..N)]
        /\ \A m, n \in 1..N : m \in Down[n] \/ n \in Down[m]
        /\ \A m, n \in 1..N : m \in Down[n] /\ n \in Down[m] => m = n
        /\ \A m, n, k \in 1..N : m \in Down[n] /\ n \in Down[k] => m \in Down[k]
    BY <1>4
  <2> HIDE DEF Down, Rank, N
  <2>3. /\ \A n \in 1..N : Cardinality(Down[n]) \in 1..N
        /\ \A n, m \in 1..N : Cardinality(Down[n]) = Cardinality(Down[m]) => n = m
        /\ \A k \in 1..N : \E n \in 1..N : Cardinality(Down[n]) = k
    BY <1>1, <2>2, Ranks
  <2> QED  BY <2>1, <2>3
<1> HIDE DEF Rank
<1>6. \A k \in 1..N : Source(k) \in 1..N /\ Rank(Source(k)) = k
  BY <1>5
<1>7. \A n \in 1..N : Source(Rank(n)) = n
  BY <1>5, <1>6
<1> HIDE DEF Source
<1>8. \A k \in 1..N : spec[k] = Pattern(triples[Source(k)])
  BY <1>2
<1>9. {spec[k] : k \in 1..N} = {Pattern(t) : t \in ToSet(triples)}
  <2>1. ASSUME NEW k \in 1..N PROVE \E t \in ToSet(triples) : spec[k] = Pattern(t)
    BY <1>1, <1>6, <1>8 DEF ToSet
  <2>2. ASSUME NEW t \in ToSet(triples) PROVE \E k \in 1..N : spec[k] = Pattern(t)
    <3>1. PICK n \in 1..N : t = triples[n]
      BY <1>1 DEF ToSet
    <3>2. Rank(n) \in 1..N /\ spec[Rank(n)] = Pattern(t)
      BY <1>5, <1>7, <1>8, <3>1
    <3> QED  BY <3>2
  <2> QED  BY <2>1, <2>2
<1>10. ASSUME NEW n \in 1..N, NEW m \in 1..N, n # m, Negated(spec[n])
       PROVE  /\ ~Negated(spec[m])
              /\ \E i \in Columns : spec[m][i] \notin Var
              /\ \E v \in VarsOf(spec[n]) : \A j \in 1..N \ {m, n} : v \notin VarsOf(spec[j])
  <2> DEFINE a == Source(n)
             b == Source(m)
  <2>1. a \in 1..N /\ b \in 1..N /\ a # b /\ spec[n] = Pattern(triples[a]) /\ spec[m] = Pattern(triples[b])
    BY <1>6, <1>8, <1>10
  <2>2. Negated(Pattern(triples[a])) = triples[a].negated /\ Negated(Pattern(triples[b])) = triples[b].negated
    BY DEF Negated, Pattern
  <2>3. triples[a].negated
    BY <1>10, <2>1, <2>2
  <2>4. /\ ~triples[b].negated
        /\ \E i \in Columns : Pattern(triples[b])[i] \notin Var
        /\ \E v \in VarsOf(Pattern(triples[a])) : \A j \in 1..N \ {b, a} : v \notin VarsOf(Pattern(triples[j]))
    BY <1>1, <2>1, <2>3 DEF SearchableQueries, Searchable
  <2>5. PICK v \in VarsOf(Pattern(triples[a])) : \A j \in 1..N \ {b, a} : v \notin VarsOf(Pattern(triples[j]))
    BY <2>4
  <2>6. \A j \in 1..N \ {m, n} : v \notin VarsOf(spec[j])
    BY <1>6, <1>8, <2>5
  <2> HIDE DEF a, b
  <2> QED  BY <2>1, <2>2, <2>4, <2>5, <2>6
<1>11. spec = [k \in 1..N |-> spec[k]] /\ DOMAIN spec = 1..N
  BY <1>2
<1>12. Apart(spec)
  BY <1>10, <1>11 DEF Apart
<1> QED  BY <1>1, <1>9, <1>11, <1>12

\* Products of natural numbers keep the order.
LEMMA Products ==
    ASSUME NEW a \in Nat, NEW b \in Nat, NEW m \in Nat, NEW n \in Nat, a <= m, b <= n
    PROVE  a * b \in Nat /\ a * b <= m * n
<1>1. a * b <= m * b
  <2>1. (m - a) * b >= 0
    OBVIOUS
  <2> QED  BY <2>1
<1>2. m * b <= m * n
  <2>1. m * (n - b) >= 0
    OBVIOUS
  <2> QED  BY <2>1
<1> QED  BY <1>1, <1>2

LEMMA ThreeFactors ==
    ASSUME NEW a \in Nat, NEW b \in Nat, NEW d \in Nat, NEW m \in Nat, NEW n \in Nat, NEW k \in Nat,
           a >= 1, b >= 1, d >= 1, a <= m, b <= n, d <= k
    PROVE  a * b * d \in Nat /\ a * b * d >= 1 /\ a * b * d <= m * n * k
<1>1. a * b \in Nat /\ a * b <= m * n /\ 1 * 1 <= a * b /\ m * n \in Nat
  BY Products
<1> QED  BY <1>1, Products

\* A symbol is used a number of times.
LEMMA UsageFacts == ASSUME StoreInv, NEW a \in Symbols PROVE usage(a) \in Nat
<1> DEFINE uses == {use \in facts \X Columns : use[1][use[2]] = a}
<1>1. IsFiniteSet(facts \X Columns)
  BY FactsFinite
<1>2. uses \in SUBSET (facts \X Columns)
  OBVIOUS
<1>3. usage(a) = interned[a] + Cardinality(uses)
  BY DEF usage
<1> HIDE DEF uses
<1>4. Cardinality(uses) \in Nat
  BY <1>1, <1>2, FS_Subset, FS_CardinalityType
<1>5. interned[a] \in Nat
  BY DEF StoreInv
<1> QED  BY <1>3, <1>4, <1>5

\* With each place of a positive pattern unbound its estimate grows a hundred
\* thousandfold, and stays below that of a negated one while a place has a constant.
LEMMA PositiveCost ==
    ASSUME StoreInv, FewUses, NEW p, \A n \in Columns : p[n] \in Terms, ~Negated(p),
           \E i \in Columns : p[i] \notin Var, NEW bound
    PROVE  /\ Cost(p, bound)[1] \in 0..2 /\ Cost(p, bound)[2] \in Nat /\ Cost(p, bound)[2] >= 1
           /\ Cost(p, bound)[2] < IF Cost(p, bound)[1] = 0 THEN 1000000000000000000
                                  ELSE IF Cost(p, bound)[1] = 1 THEN 10000000000000 ELSE 100000000
<1> DEFINE free == {n \in Columns : p[n] \in Var \ bound}
           Tenths(n) == IF p[n] \in Var THEN 10 ELSE IF usage(p[n]) > 0 THEN 10 * usage(p[n]) ELSE 1
           m == Tenths(1) * Tenths(2) * Tenths(3)
<1>0. IsFiniteSet(Columns) /\ Cardinality(Columns) = 3
  <2>1. 1 \in Int /\ 3 \in Int
    OBVIOUS
  <2>2. IsFiniteSet(1..3) /\ Cardinality(1..3) = IF 1 > 3 THEN 0 ELSE 3 - 1 + 1
    BY <2>1, FS_Interval
  <2> QED  BY <2>2 DEF Columns
<1>1. Columns = {1, 2, 3}
  BY DEF Columns
<1>2. free \in SUBSET Columns /\ free # Columns
  OBVIOUS
<1>3. ASSUME NEW n \in Columns
      PROVE  /\ Tenths(n) \in Nat /\ Tenths(n) >= 1 /\ Tenths(n) <= 999990
             /\ n \in free => Tenths(n) <= 10
  <2>1. CASE p[n] \in Var
    BY <2>1
  <2>2. CASE p[n] \notin Var
    <3>1. usage(p[n]) \in Nat /\ usage(p[n]) < 100000
      BY <2>2, UsageFacts DEF FewUses, Terms
    <3> QED  BY <2>2, <3>1
  <2> QED  BY <2>1, <2>2
<1>4. Cost(p, bound) = <<Cardinality(free), m>>
  BY DEF Cost
<1> HIDE DEF free, Tenths
<1>5. IsFiniteSet(free) /\ Cardinality(free) \in Nat /\ Cardinality(free) <= 3 /\ Cardinality(free) # 3
  <2>1. IsFiniteSet(free) /\ Cardinality(free) <= Cardinality(Columns) /\ Cardinality(free) # Cardinality(Columns)
    BY <1>0, <1>2, FS_Subset
  <2> QED  BY <1>0, <2>1, FS_CardinalityType
<1>6. /\ Tenths(1) \in Nat /\ Tenths(1) >= 1 /\ Tenths(1) <= 999990
      /\ Tenths(2) \in Nat /\ Tenths(2) >= 1 /\ Tenths(2) <= 999990
      /\ Tenths(3) \in Nat /\ Tenths(3) >= 1 /\ Tenths(3) <= 999990
  BY <1>1, <1>3
<1>7. m \in Nat /\ m >= 1 /\ m <= 999990 * 999990 * 999990
  BY <1>6, ThreeFactors
<1>8. ASSUME NEW i \in free PROVE m <= 10 * 999990 * 999990
  <2>1. Tenths(i) <= 10 /\ i \in {1, 2, 3}
    BY <1>1, <1>2, <1>3
  <2>2. CASE i = 1
    BY <1>6, <2>1, <2>2, ThreeFactors
  <2>3. CASE i = 2
    <3>1. m <= 999990 * 10 * 999990
      BY <1>6, <2>1, <2>3, ThreeFactors
    <3> QED  BY <3>1
  <2>4. CASE i = 3
    <3>1. m <= 999990 * 999990 * 10
      BY <1>6, <2>1, <2>4, ThreeFactors
    <3> QED  BY <3>1
  <2> QED  BY <2>1, <2>2, <2>3, <2>4
<1>9. ASSUME NEW i \in free, NEW j \in free, i # j PROVE m <= 10 * 10 * 999990
  <2>1. Tenths(i) <= 10 /\ i \in {1, 2, 3} /\ Tenths(j) <= 10 /\ j \in {1, 2, 3}
    BY <1>1, <1>2, <1>3
  <2>2. CASE {i, j} = {1, 2}
    <3>1. Tenths(1) <= 10 /\ Tenths(2) <= 10
      BY <1>9, <2>1, <2>2
    <3> QED  BY <1>6, <3>1, ThreeFactors
  <2>3. CASE {i, j} = {1, 3}
    <3>1. Tenths(1) <= 10 /\ Tenths(3) <= 10
      BY <1>9, <2>1, <2>3
    <3>2. m <= 10 * 999990 * 10
      BY <1>6, <3>1, ThreeFactors
    <3> QED  BY <3>2
  <2>4. CASE {i, j} = {2, 3}
    <3>1. Tenths(2) <= 10 /\ Tenths(3) <= 10
      BY <1>9, <2>1, <2>4
    <3>2. m <= 999990 * 10 * 10
      BY <1>6, <3>1, ThreeFactors
    <3> QED  BY <3>2
  <2> QED  BY <1>9, <2>1, <2>2, <2>3, <2>4
<1>10. Cardinality(free) # 0 => \E i \in free : TRUE
  BY FS_EmptySet
<1>11. Cardinality(free) \notin {0, 1} => \E i, j \in free : i # j
  <2> SUFFICES ASSUME Cardinality(free) \notin {0, 1} PROVE \E i, j \in free : i # j
    OBVIOUS
  <2>1. PICK i \in free : TRUE
    BY <1>10
  <2>2. Cardinality({i}) = 1
    BY FS_Singleton
  <2>3. free # {i}
    BY <2>2
  <2> QED  BY <2>1, <2>3
<1> HIDE DEF m
<1> DEFINE q == <<Cardinality(free), m>>
<1>12. q[1] = Cardinality(free) /\ q[2] = m
  OBVIOUS
<1> HIDE DEF q
<1>13. m < IF Cardinality(free) = 0 THEN 1000000000000000000
           ELSE IF Cardinality(free) = 1 THEN 10000000000000 ELSE 100000000
  <2>1. CASE Cardinality(free) = 0
    BY <1>7, <2>1
  <2>2. CASE Cardinality(free) = 1
    <3>1. m <= 10 * 999990 * 999990
      BY <1>8, <1>10, <2>2
    <3> QED  BY <1>7, <2>2, <3>1
  <2>3. CASE Cardinality(free) \notin {0, 1}
    <3>1. m <= 10 * 10 * 999990
      BY <1>9, <1>11, <2>3
    <3> QED  BY <1>7, <2>3, <3>1
  <2> QED  BY <2>1, <2>2, <2>3
<1>14. Cardinality(free) \in 0..2
  BY <1>5
<1>15. Cost(p, bound) = q
  BY <1>4 DEF q
<1> QED  BY <1>7, <1>12, <1>13, <1>14, <1>15

\* Division by a positive number of a number below a multiple of it.
LEMMA Divided ==
    ASSUME NEW a \in Nat, NEW b \in Nat, a < b * 100000
    PROVE  a \div 100000 \in Nat /\ a \div 100000 < b
OBVIOUS

LEMMA ScaledDown ==
    ASSUME NEW k \in 0..2, NEW a \in Nat,
           a < IF k = 0 THEN 1000000000000000000 ELSE IF k = 1 THEN 10000000000000 ELSE 100000000
    PROVE  Scaled(a, 3 - k) \in Nat /\ Scaled(a, 3 - k) < 1000
<1>1. a \div 100000 \in Nat
  BY Divided
<1>2. (a \div 100000) \div 100000 \in Nat
  BY <1>1, Divided
<1>3. CASE k = 0
  <2>1. a \div 100000 < 10000000000000
    BY <1>3, Divided
  <2>2. (a \div 100000) \div 100000 < 100000000
    BY <1>1, <2>1, Divided
  <2>3. ((a \div 100000) \div 100000) \div 100000 \in Nat /\ ((a \div 100000) \div 100000) \div 100000 < 1000
    BY <1>2, <2>2, Divided
  <2> QED  BY <1>3, <2>3 DEF Scaled
<1>4. CASE k = 1
  <2>1. a \div 100000 < 100000000
    BY <1>4, Divided
  <2>2. (a \div 100000) \div 100000 < 1000
    BY <1>1, <2>1, Divided
  <2> QED  BY <1>2, <1>4, <2>2 DEF Scaled
<1>5. CASE k = 2
  <2>1. a \div 100000 < 1000
    BY <1>5, Divided
  <2> QED  BY <1>1, <1>5, <2>1 DEF Scaled
<1> QED  BY <1>3, <1>4, <1>5

\* So facts_spec_sort takes it before a negated pattern with a place unbound.
LEMMA NegatedDearer ==
    ASSUME StoreInv, FewUses, NEW bound,
           NEW p, \A n \in Columns : p[n] \in Terms, ~Negated(p), \E i \in Columns : p[i] \notin Var,
           NEW t, Negated(t), \E v \in VarsOf(t) : v \notin bound
    PROVE  Cheaper(Cost(p, bound), Cost(t, bound)) /\ ~Cheaper(Cost(t, bound), Cost(p, bound))
<1>1. PICK x : x = Cost(p, bound)
  OBVIOUS
<1>2. /\ x[1] \in 0..2 /\ x[2] \in Nat /\ x[2] >= 1
      /\ x[2] < IF x[1] = 0 THEN 1000000000000000000 ELSE IF x[1] = 1 THEN 10000000000000 ELSE 100000000
  BY <1>1, PositiveCost
<1>3. Cost(t, bound) = <<3, 1000>>
  <2>1. {n \in Columns : t[n] \in Var \ bound} # {}
    BY DEF VarsOf
  <2> QED  BY <2>1 DEF Cost
<1>4. Scaled(x[2], 3 - x[1]) < 1000 /\ Scaled(x[2] - 1, 3 - x[1]) \in Nat /\ Scaled(x[2] - 1, 3 - x[1]) < 1000
  <2>1. x[2] - 1 \in Nat /\ x[2] - 1 < x[2]
    BY <1>2
  <2>2. x[2] - 1 < IF x[1] = 0 THEN 1000000000000000000 ELSE IF x[1] = 1 THEN 10000000000000 ELSE 100000000
    BY <1>2, <2>1
  <2> QED  BY <1>2, <2>1, <2>2, ScaledDown
<1> DEFINE y == <<3, 1000>>
<1>5. y[1] = 3 /\ y[2] = 1000
  OBVIOUS
<1> HIDE DEF y
<1>6. Cheaper(x, y)
  <2>1. x[1] < y[1] /\ Scaled(x[2], y[1] - x[1]) < y[2]
    BY <1>2, <1>4, <1>5
  <2> QED  BY <2>1 DEF Cheaper
<1>7. ~Cheaper(y, x)
  <2>1. y[1] # x[1] /\ ~(y[1] < x[1]) /\ ~(y[2] <= Scaled(x[2] - 1, y[1] - x[1]))
    BY <1>2, <1>4, <1>5
  <2> QED  BY <2>1 DEF Cheaper
<1> QED  BY <1>1, <1>3, <1>6, <1>7 DEF y

\* What the selection sort has done after n passes.
Selected(acc, n, N, patterns) ==
    /\ acc.spec = [k \in 1..N |-> acc.spec[k]]
    /\ {acc.spec[k] : k \in 1..N} = patterns
    /\ Apart(acc.spec)
    /\ \A k \in 1..N : \A m \in Columns : acc.spec[k][m] \in Terms
    /\ \A k \in 1..N : Negated(acc.spec[k]) \in BOOLEAN /\ (k <= n /\ k < N => ~Negated(acc.spec[k]))
    /\ \A v \in acc.bound : \E k \in 1..n : v \in VarsOf(acc.spec[k])

\* A pass of the selection sort: a negated pattern waits until it is the last,
\* since another still has to bind one of its variables.
LEMMA SelectedStep ==
    ASSUME StoreInv, FewUses, NEW N \in Nat, NEW n \in 1..N, NEW acc, NEW patterns, Selected(acc, n - 1, N, patterns),
           NEW next, next = Select(acc, n)
    PROVE  Selected(next, n, N, patterns)
<1> DEFINE CostAt(m) == Cost(acc.spec[m], acc.bound)
           Run(g, k) == g = [m \in n..k |-> IF m = n THEN n
                                            ELSE IF Cheaper(CostAt(m), CostAt(g[m - 1])) THEN m ELSE g[m - 1]]
           scan == CHOOSE g : Run(g, N)
           best == scan[N]
           chosen == acc.spec[best]
           after == [acc.spec EXCEPT ![n] = chosen, ![best] = acc.spec[n]]
           bound == acc.bound \union (IF Negated(chosen) THEN {} ELSE VarsOf(chosen))
<1>1. /\ acc.spec = [k \in 1..N |-> acc.spec[k]] /\ Apart(acc.spec)
      /\ \A k \in 1..N : Negated(acc.spec[k]) \in BOOLEAN
      /\ \A k \in 1..N : k <= n - 1 /\ k < N => ~Negated(acc.spec[k])
      /\ \A v \in acc.bound : \E k \in 1..(n - 1) : v \in VarsOf(acc.spec[k])
      /\ {acc.spec[k] : k \in 1..N} = patterns
      /\ \A k \in 1..N : \A m \in Columns : acc.spec[k][m] \in Terms
  BY DEF Selected
<1>2. Len(acc.spec) = N /\ DOMAIN acc.spec = 1..N
  BY <1>1, SequenceLength
<1>3. next = [spec |-> after, bound |-> bound]
  BY <1>2 DEF Select
<1> HIDE DEF CostAt
<1>4. ASSUME NEW i \in n..N, NEW j \in n..N, i # j, Negated(acc.spec[i])
      PROVE  ~Negated(acc.spec[j]) /\ Cheaper(CostAt(j), CostAt(i)) /\ ~Cheaper(CostAt(i), CostAt(j))
  <2>1. i \in 1..N /\ j \in 1..N
    OBVIOUS
  <2>2. /\ ~Negated(acc.spec[j]) /\ (\E k \in Columns : acc.spec[j][k] \notin Var)
        /\ \E v \in VarsOf(acc.spec[i]) : \A k \in 1..N \ {j, i} : v \notin VarsOf(acc.spec[k])
    BY <1>1, <1>2, <1>4, <2>1 DEF Apart
  <2>3. PICK v \in VarsOf(acc.spec[i]) : \A k \in 1..N \ {j, i} : v \notin VarsOf(acc.spec[k])
    BY <2>2
  <2>4. v \notin acc.bound
    <3>1. \A k \in 1..(n - 1) : k \in 1..N \ {j, i}
      OBVIOUS
    <3> QED  BY <1>1, <2>3, <3>1
  <2>5. PICK p : p = acc.spec[j]
    OBVIOUS
  <2>6. PICK t : t = acc.spec[i]
    OBVIOUS
  <2>7. PICK B : B = acc.bound
    OBVIOUS
  <2>8. /\ \A m \in Columns : p[m] \in Terms
        /\ ~Negated(p) /\ (\E k \in Columns : p[k] \notin Var) /\ Negated(t) /\ v \in VarsOf(t) /\ v \notin B
    BY <1>1, <1>4, <2>1, <2>2, <2>3, <2>4, <2>5, <2>6, <2>7
  <2>9. Cheaper(Cost(p, B), Cost(t, B)) /\ ~Cheaper(Cost(t, B), Cost(p, B))
    BY <2>8, NegatedDearer
  <2> QED  BY <2>2, <2>5, <2>6, <2>7, <2>9 DEF CostAt
<1>5. scan[n] = n /\ \A m \in (n + 1)..N : scan[m] = IF Cheaper(CostAt(m), CostAt(scan[m - 1])) THEN m ELSE scan[m - 1]
  <2> DEFINE Better(m, x) == IF Cheaper(CostAt(m), CostAt(x)) THEN m ELSE x
             Short(g, k) == g = [m \in n..k |-> IF m = n THEN n ELSE Better(m, g[m - 1])]
  <2>1. \A g, k : Run(g, k) <=> Short(g, k)
    OBVIOUS
  <2> HIDE DEF Better
  <2>2. ASSUME NEW d \in Nat PROVE \E g : Short(g, n + d)
    <3> SUFFICES ASSUME ~ \E g : Short(g, n + d) PROVE FALSE
      OBVIOUS
    <3> DEFINE T == {m \in Nat : ~ \E g : Short(g, n + m)}
    <3>1. PICK m \in T : \A y \in T : m <= y
      BY LeastNatural
    <3>2. Short([k \in n..(n + 0) |-> n], n + 0)
      OBVIOUS
    <3>3. m # 0 /\ m \in Nat
      BY <3>2
    <3>4. m - 1 \in Nat /\ m - 1 \notin T
      <4> HIDE DEF T
      <4> QED  BY <3>1, <3>3
    <3>5. PICK g : Short(g, n + (m - 1))
      BY <3>4
    <3> DEFINE h == [k \in n..(n + m) |-> IF k = n THEN n ELSE Better(k, g[k - 1])]
    <3>6. \A k \in n..(n + (m - 1)) : g[k] = IF k = n THEN n ELSE Better(k, g[k - 1])
      BY <3>5, <3>4
    <3>7. \A k \in n..(n + m) : h[k] = IF k = n THEN n ELSE Better(k, g[k - 1])
      OBVIOUS
    <3>8. \A k \in n..(n + m) : k # n => h[k - 1] = g[k - 1]
      <4> SUFFICES ASSUME NEW k \in n..(n + m), k # n PROVE h[k - 1] = g[k - 1]
        OBVIOUS
      <4>1. k - 1 \in n..(n + (m - 1)) /\ k - 1 \in n..(n + m)
        BY <3>3
      <4> HIDE DEF h
      <4> QED  BY <3>6, <3>7, <4>1
    <3>9. h = [k \in n..(n + m) |-> IF k = n THEN n ELSE Better(k, h[k - 1])]
      BY <3>8
    <3> QED  BY <3>9
  <2>3. \E g : Short(g, N)
    <3>1. N - n \in Nat /\ n + (N - n) = N
      OBVIOUS
    <3> HIDE DEF Short
    <3> QED  BY <2>2, <3>1
  <2>4. Short(scan, N)
    <3> HIDE DEF Run, Short
    <3>1. \E g : Run(g, N)
      BY <2>1, <2>3
    <3>2. Run(scan, N)
      BY <3>1
    <3> QED  BY <2>1, <3>2
  <2> HIDE DEF scan
  <2>5. \A m \in n..N : scan[m] = IF m = n THEN n ELSE Better(m, scan[m - 1])
    BY <2>4
  <2>6. scan[n] = n
    BY <2>5
  <2>7. \A m \in (n + 1)..N : m \in n..N /\ m # n
    OBVIOUS
  <2> QED  BY <2>5, <2>6, <2>7 DEF Better
<1> HIDE DEF scan
<1>6. best \in 1..N /\ best >= n /\ (Negated(acc.spec[best]) /\ n < N => FALSE)
  <2> DEFINE Good(m) == scan[m] \in n..m /\ (m > n => ~Negated(acc.spec[scan[m]]))
             T == {m \in n..N : ~Good(m)}
  <2>1. Good(n)
    BY <1>5
  <2>2. ASSUME NEW m \in (n + 1)..N, Good(m - 1) PROVE Good(m)
    <3>1. PICK x : x = scan[m - 1]
      OBVIOUS
    <3>2. scan[m] = IF Cheaper(CostAt(m), CostAt(x)) THEN m ELSE x
      BY <1>5, <3>1
    <3>3. x \in n..N /\ m \in n..N /\ x # m /\ x <= m
      BY <2>2, <3>1
    <3>4. scan[m] \in n..m
      BY <2>2, <3>1, <3>2
    <3>5. ~Negated(acc.spec[scan[m]])
      <4>1. CASE Negated(acc.spec[m])
        BY <1>4, <3>2, <3>3, <4>1
      <4>2. CASE Negated(acc.spec[x])
        BY <1>4, <3>2, <3>3, <4>2
      <4>3. CASE ~Negated(acc.spec[m]) /\ ~Negated(acc.spec[x])
        BY <3>2, <4>3
      <4> QED  BY <4>1, <4>2, <4>3
    <3> QED  BY <3>4, <3>5
  <2> HIDE DEF Good
  <2>3. ASSUME T # {} PROVE FALSE
    <3>1. T \subseteq Nat
      OBVIOUS
    <3>2. PICK m \in T : \A y \in T : m <= y
      BY <2>3, <3>1, LeastNatural
    <3>3. m # n /\ m \in n..N
      BY <2>1
    <3>4. m \in (n + 1)..N /\ m - 1 \in n..N
      BY <3>3
    <3>5. m - 1 \notin T
      <4> HIDE DEF T
      <4> QED  BY <3>2, <3>4
    <3> QED  BY <2>2, <3>4, <3>5
  <2>4. N \in n..N
    OBVIOUS
  <2>5. Good(N)
    BY <2>3, <2>4
  <2> QED  BY <2>5 DEF Good
<1>7. ASSUME Negated(acc.spec[best]), n < N PROVE FALSE
  BY <1>6, <1>7
<1> HIDE DEF best
<1> HIDE DEF bound, chosen
<1>8. next.spec = after /\ next.bound = bound
  BY <1>3
<1> DEFINE Other(k) == IF k = n THEN best ELSE IF k = best THEN n ELSE k
<1>9. after = [k \in 1..N |-> after[k]] /\ (\A k \in 1..N : after[k] = acc.spec[Other(k)])
  BY <1>1, <1>6 DEF chosen
<1>10. \A k \in 1..N : Other(k) \in 1..N /\ Other(Other(k)) = k
  BY <1>6
<1>11. {after[k] : k \in 1..N} = patterns
  <2>1. ASSUME NEW k \in 1..N PROVE \E j \in 1..N : after[k] = acc.spec[j]
    BY <1>9, <1>10
  <2>2. ASSUME NEW k \in 1..N PROVE \E j \in 1..N : acc.spec[k] = after[j]
    BY <1>9, <1>10
  <2> HIDE DEF after
  <2>3. {after[k] : k \in 1..N} = {acc.spec[k] : k \in 1..N}
    <3>1. ASSUME NEW x \in {after[k] : k \in 1..N} PROVE x \in {acc.spec[k] : k \in 1..N}
      BY <2>1
    <3>2. ASSUME NEW x \in {acc.spec[k] : k \in 1..N} PROVE x \in {after[k] : k \in 1..N}
      BY <2>2
    <3> QED  BY <3>1, <3>2, Zenon
  <2> QED  BY <1>1, <2>3
<1>12. \A k \in 1..(n - 1) : k \in 1..N /\ Other(k) = k
  BY <1>6
<1>13. after[n] = chosen
  BY <1>9 DEF chosen
<1> HIDE DEF after, Other
<1>14. \A k \in 1..N : Negated(after[k]) \in BOOLEAN /\ (k <= n /\ k < N => ~Negated(after[k]))
  <2> SUFFICES ASSUME NEW k \in 1..N PROVE Negated(after[k]) \in BOOLEAN /\ (k <= n /\ k < N => ~Negated(after[k]))
    OBVIOUS
  <2>1. Negated(after[k]) \in BOOLEAN
    BY <1>1, <1>9, <1>10
  <2>2. CASE k = n
    BY <1>7, <1>13, <2>1, <2>2 DEF chosen
  <2>3. CASE k < n
    <3>1. k \in 1..(n - 1) /\ k <= n - 1
      BY <2>3
    <3> QED  BY <1>1, <1>9, <1>12, <2>1, <3>1
  <2>4. CASE k > n
    BY <2>1, <2>4
  <2> QED  BY <2>2, <2>3, <2>4
<1>15. \A k \in 1..N : \A m \in Columns : after[k][m] \in Terms
  BY <1>1, <1>9, <1>10
<1>16. \A v \in bound : \E k \in 1..n : v \in VarsOf(after[k])
  <2> SUFFICES ASSUME NEW v \in bound PROVE \E k \in 1..n : v \in VarsOf(after[k])
    OBVIOUS
  <2>1. CASE v \in acc.bound
    <3>1. PICK k \in 1..(n - 1) : v \in VarsOf(acc.spec[k])
      BY <1>1, <2>1
    <3>2. after[k] = acc.spec[k] /\ k \in 1..n
      BY <1>9, <1>12
    <3> QED  BY <3>1, <3>2
  <2>2. CASE v \in VarsOf(chosen)
    BY <1>13, <2>2
  <2> QED  BY <2>1, <2>2 DEF bound
<1>17. Apart(after)
  <2>1. DOMAIN after = 1..N
    BY <1>9
  <2> SUFFICES ASSUME NEW j \in 1..N, NEW m \in 1..N, j # m, Negated(after[j])
               PROVE  /\ ~Negated(after[m])
                      /\ \E i \in Columns : after[m][i] \notin Var
                      /\ \E v \in VarsOf(after[j]) : \A k \in 1..N \ {m, j} : v \notin VarsOf(after[k])
    BY <2>1 DEF Apart
  <2>2. /\ Other(j) \in 1..N /\ Other(m) \in 1..N /\ Other(j) # Other(m)
        /\ after[j] = acc.spec[Other(j)] /\ after[m] = acc.spec[Other(m)]
    BY <1>9, <1>10
  <2>3. /\ ~Negated(after[m])
        /\ \E i \in Columns : after[m][i] \notin Var
        /\ \E v \in VarsOf(after[j]) : \A k \in 1..N \ {Other(m), Other(j)} : v \notin VarsOf(acc.spec[k])
    <3> DEFINE oj == Other(j)
               om == Other(m)
    <3> HIDE DEF oj, om
    <3>1. /\ oj \in DOMAIN acc.spec /\ om \in DOMAIN acc.spec /\ oj # om
          /\ after[j] = acc.spec[oj] /\ after[m] = acc.spec[om] /\ Negated(acc.spec[oj])
      BY <1>2, <2>2 DEF oj, om
    <3>2. /\ ~Negated(acc.spec[om])
          /\ \E i \in Columns : acc.spec[om][i] \notin Var
          /\ \E v \in VarsOf(acc.spec[oj]) : \A k \in DOMAIN acc.spec \ {om, oj} : v \notin VarsOf(acc.spec[k])
      BY <1>1, <3>1 DEF Apart
    <3> QED  BY <1>2, <3>1, <3>2 DEF oj, om
  <2>4. \A k \in 1..N \ {m, j} : Other(k) \in 1..N \ {Other(m), Other(j)} /\ after[k] = acc.spec[Other(k)]
    BY <1>9, <1>10
  <2> QED  BY <2>3, <2>4
<1> QED  BY <1>8, <1>9, <1>11, <1>14, <1>15, <1>16, <1>17 DEF Selected

\* A list of N patterns, and the list that the sort leaves.
Listed(spec, N) == spec = [k \in 1..N |-> spec[k]]

\* The same patterns in another order, a negated one last.
Rearranged(result, spec, N) ==
    /\ Listed(result, N)
    /\ {result[k] : k \in 1..N} = {spec[k] : k \in 1..N}
    /\ \A k \in 1..(N - 1) : ~Negated(result[k])

\* The sorted patterns are those of the query, a negated one last.
LEMMA SortKeeps ==
    ASSUME StoreInv, FewUses, NEW spec, NEW N \in Nat, Listed(spec, N), Apart(spec),
           \A k \in 1..N : \A m \in Columns : spec[k][m] \in Terms,
           \A k \in 1..N : Negated(spec[k]) \in BOOLEAN, NEW result, result = facts_spec_sort(spec)
    PROVE  Rearranged(result, spec, N)
<1> DEFINE base == [spec |-> spec, bound |-> {}]
           Run(g, n) == g = [k \in 0..n |-> IF k = 0 THEN base ELSE Select(g[k - 1], k)]
           f == CHOOSE g : Run(g, N)
           patterns == {spec[k] : k \in 1..N}
<1>1. Len(spec) = N
  BY SequenceLength DEF Listed
<1>2. ASSUME NEW n \in Nat PROVE \E g : Run(g, n)
  <2> SUFFICES ASSUME ~ \E g : Run(g, n) PROVE FALSE
    OBVIOUS
  <2> DEFINE T == {m \in Nat : ~ \E g : Run(g, m)}
  <2>1. PICK m \in T : \A y \in T : m <= y
    BY LeastNatural
  <2>2. Run([k \in 0..0 |-> base], 0)
    OBVIOUS
  <2>3. m # 0 /\ m \in Nat
    BY <2>2
  <2>4. m - 1 \in Nat /\ m - 1 \notin T
    <3> HIDE DEF T
    <3> QED  BY <2>1, <2>3
  <2>5. PICK g : Run(g, m - 1)
    BY <2>4
  <2> DEFINE h == [k \in 0..m |-> IF k = 0 THEN base ELSE Select(g[k - 1], k)]
  <2>6. \A k \in 0..(m - 1) : g[k] = IF k = 0 THEN base ELSE Select(g[k - 1], k)
    BY <2>5, <2>4
  <2>7. \A k \in 0..m : h[k] = IF k = 0 THEN base ELSE Select(g[k - 1], k)
    OBVIOUS
  <2>8. \A k \in 0..m : k # 0 => h[k - 1] = g[k - 1]
    <3> SUFFICES ASSUME NEW k \in 0..m, k # 0 PROVE h[k - 1] = g[k - 1]
      OBVIOUS
    <3>1. k - 1 \in 0..(m - 1) /\ k - 1 \in 0..m
      BY <2>3
    <3> HIDE DEF h, base
    <3> QED  BY <2>6, <2>7, <3>1
  <2>9. h = [k \in 0..m |-> IF k = 0 THEN base ELSE Select(h[k - 1], k)]
    BY <2>8
  <2> QED  BY <2>9
<1>3. Run(f, N)
  BY <1>2
<1>4. facts_spec_sort(spec) = f[N].spec
  BY <1>1 DEF facts_spec_sort
<1>5. \A k \in 0..N : f[k] = IF k = 0 THEN base ELSE Select(f[k - 1], k)
  BY <1>3
<1> HIDE DEF f
<1> DEFINE Good(n) == Selected(f[n], n, N, patterns)
           T == {n \in 0..N : ~ Good(n)}
<1>6. ASSUME NEW k \in 1..N PROVE f[k] = Select(f[k - 1], k)
  <2>1. k \in 0..N /\ k # 0
    OBVIOUS
  <2> HIDE DEF base
  <2> QED  BY <1>5, <2>1
<1>7. Good(0)
  <2>1. 0 \in 0..N
    OBVIOUS
  <2>2. f[0] = base
    BY <1>5, <2>1
  <2>3. f[0].spec = spec /\ f[0].bound = {}
    BY <2>2
  <2>4. \A k \in 1..N : ~(k <= 0)
    OBVIOUS
  <2> QED  BY <2>3, <2>4 DEF Selected, Listed
<1> HIDE DEF patterns
<1>8. ASSUME NEW m \in 1..N, Good(m - 1) PROVE Good(m)
  BY <1>6, <1>8, SelectedStep
<1> HIDE DEF Good
<1>9. ASSUME T # {} PROVE FALSE
  <2>1. T \subseteq Nat
    OBVIOUS
  <2>2. PICK m \in T : \A y \in T : m <= y
    BY <1>9, <2>1, LeastNatural
  <2>3. m # 0 /\ m \in 0..N
    BY <1>7
  <2>4. m \in 1..N /\ m - 1 \in 0..N
    BY <2>3
  <2>5. m - 1 \notin T
    <3> HIDE DEF T
    <3> QED  BY <2>2, <2>4
  <2>6. Good(m)
    BY <1>8, <2>4, <2>5
  <2> QED  BY <2>6
<1>10. Good(N)
  BY <1>9
<1>11. result = f[N].spec
  BY <1>4
<1>12. \A k \in 1..(N - 1) : k \in 1..N /\ k <= N /\ k < N
  OBVIOUS
<1>13. PICK acc : acc = f[N] /\ acc.spec = result
  BY <1>11
<1>14. Selected(acc, N, N, patterns)
  BY <1>10, <1>13 DEF Good
<1>15. Listed(result, N)
  BY <1>13, <1>14 DEF Selected, Listed
<1>16. {result[k] : k \in 1..N} = patterns
  BY <1>13, <1>14 DEF Selected
<1>17. \A k \in 1..(N - 1) : ~Negated(result[k])
  BY <1>12, <1>13, <1>14 DEF Selected
<1> QED  BY <1>15, <1>16, <1>17 DEF patterns, Rearranged

\* A step of the paging leaves the search where it is.
Unmoved ==
    /\ c'.spec = c.spec /\ c'.l = c.l /\ c'.level = c.level /\ c'.facts_count = c.facts_count
    /\ c'.locked = c.locked /\ c'.sort_var = c.sort_var /\ c'.sort_desc = c.sort_desc
    /\ facts' = facts /\ interned' = interned /\ hexastore' = hexastore /\ asked' = asked /\ starved' = starved

\* What each step of the paging does to the fields it may change.
LEMMA CallFields ==
    ASSUME LevelsOK, CallNext
    PROVE  /\ Unmoved /\ bindings' = bindings /\ answers' = answers /\ pc = "ready"
           /\ c'.result_count = c.result_count /\ c'.sorted_pos = c.sorted_pos
           /\ \/ /\ ~c.is_sorted /\ pc' = "limit" /\ c' = c /\ call' = call /\ ended' = ended
              \/ /\ c.is_sorted /\ ~c.has_matches /\ pc' = "limit" /\ ended' = ended
                 /\ call' = [call EXCEPT !.collecting = TRUE, !.limit = c.limit, !.offset = c.offset]
                 /\ c'.has_matches = TRUE /\ c'.sorted_matches = <<>> /\ c'.limit = -1 /\ c'.offset = 0
                 /\ c'.is_sorted = FALSE /\ c'.error = c.error
              \/ /\ c.is_sorted /\ ~c.has_matches /\ pc' = "ready" /\ ended' = TRUE /\ call' = call
                 /\ c'.has_matches = c.has_matches /\ c'.sorted_matches = c.sorted_matches
                 /\ c'.limit = c.limit /\ c'.offset = c.offset /\ c'.is_sorted = c.is_sorted /\ c'.error = -1
              \/ /\ c.is_sorted /\ c.has_matches /\ pc' = "page" /\ c' = c /\ call' = call /\ ended' = ended
<1>1. c = [f \in Fields |-> c[f]]
  BY DEF LevelsOK
<1>2. /\ pc = "ready" /\ bindings' = bindings /\ answers' = answers
      /\ facts' = facts /\ interned' = interned /\ hexastore' = hexastore /\ asked' = asked /\ starved' = starved
  BY DEF CallNext, return0
<1>3. CASE c' = c /\ call' = call /\ ended' = ended /\ (\/ ~c.is_sorted /\ pc' = "limit"
                                                        \/ c.is_sorted /\ c.has_matches /\ pc' = "page")
  BY <1>2, <1>3 DEF Unmoved
<1>4. CASE /\ c.is_sorted /\ ~c.has_matches /\ pc' = "limit" /\ ended' = ended
           /\ c' = [c EXCEPT !.has_matches = TRUE, !.sorted_matches = <<>>, !.limit = -1, !.offset = 0, !.is_sorted = FALSE]
           /\ call' = [call EXCEPT !.collecting = TRUE, !.limit = c.limit, !.offset = c.offset]
  <2>1. /\ c'.spec = c.spec /\ c'.l = c.l /\ c'.level = c.level /\ c'.facts_count = c.facts_count
        /\ c'.locked = c.locked /\ c'.sort_var = c.sort_var /\ c'.sort_desc = c.sort_desc
        /\ c'.result_count = c.result_count /\ c'.sorted_pos = c.sorted_pos /\ c'.error = c.error
        /\ c'.has_matches = TRUE /\ c'.sorted_matches = <<>> /\ c'.limit = -1 /\ c'.offset = 0 /\ c'.is_sorted = FALSE
    BY <1>1, <1>4 DEF Fields
  <2> QED  BY <1>2, <1>4, <2>1 DEF Unmoved
<1>5. CASE /\ c.is_sorted /\ ~c.has_matches /\ pc' = "ready" /\ ended' = TRUE /\ call' = call
           /\ c' = [c EXCEPT !.error = -1]
  <2>1. /\ c'.spec = c.spec /\ c'.l = c.l /\ c'.level = c.level /\ c'.facts_count = c.facts_count
        /\ c'.locked = c.locked /\ c'.sort_var = c.sort_var /\ c'.sort_desc = c.sort_desc
        /\ c'.result_count = c.result_count /\ c'.sorted_pos = c.sorted_pos /\ c'.error = -1
        /\ c'.has_matches = c.has_matches /\ c'.sorted_matches = c.sorted_matches
        /\ c'.limit = c.limit /\ c'.offset = c.offset /\ c'.is_sorted = c.is_sorted
    BY <1>1, <1>5 DEF Fields
  <2> QED  BY <1>2, <1>5, <2>1 DEF Unmoved
<1> QED  BY <1>3, <1>4, <1>5 DEF CallNext, return0

\* Offset: one match fewer to skip.
LEMMA OffsetFields ==
    ASSUME LevelsOK, Offset
    PROVE  /\ Unmoved /\ bindings' = bindings /\ answers' = answers /\ ended' = ended
           /\ pc = "offset" /\ pc' = "inner"
           /\ call' = [call EXCEPT !.skip = c.offset > 0]
           /\ c'.offset = (IF c.offset > 0 THEN c.offset - 1 ELSE c.offset)
           /\ c'.limit = c.limit /\ c'.result_count = c.result_count /\ c'.error = c.error
           /\ c'.is_sorted = c.is_sorted /\ c'.has_matches = c.has_matches
           /\ c'.sorted_matches = c.sorted_matches /\ c'.sorted_pos = c.sorted_pos
<1>1. c = [f \in Fields |-> c[f]]
  BY DEF LevelsOK
<1> DEFINE o == IF c.offset > 0 THEN c.offset - 1 ELSE c.offset
<1>2. /\ pc = "offset" /\ pc' = "inner" /\ bindings' = bindings /\ answers' = answers /\ ended' = ended
      /\ call' = [call EXCEPT !.skip = c.offset > 0]
      /\ facts' = facts /\ interned' = interned /\ hexastore' = hexastore /\ asked' = asked /\ starved' = starved
  BY DEF Offset
<1>3. c' = [c EXCEPT !.offset = o]
  BY DEF Offset
<1> HIDE DEF o
<1>4. /\ c'.spec = c.spec /\ c'.l = c.l /\ c'.level = c.level /\ c'.facts_count = c.facts_count
      /\ c'.locked = c.locked /\ c'.sort_var = c.sort_var /\ c'.sort_desc = c.sort_desc
      /\ c'.offset = o /\ c'.limit = c.limit /\ c'.result_count = c.result_count /\ c'.error = c.error
      /\ c'.is_sorted = c.is_sorted /\ c'.has_matches = c.has_matches
      /\ c'.sorted_matches = c.sorted_matches /\ c'.sorted_pos = c.sorted_pos
  BY <1>1, <1>3 DEF Fields
<1> QED  BY <1>2, <1>4 DEF Unmoved, o

\* Match: skipped, returned or handed to the collection.
LEMMA MatchFields ==
    ASSUME LevelsOK, Match
    PROVE  /\ Unmoved /\ bindings' = bindings /\ ended' = ended /\ pc = "match" /\ call' = call
           /\ c'.limit = c.limit /\ c'.offset = c.offset /\ c'.error = c.error
           /\ c'.is_sorted = c.is_sorted /\ c'.has_matches = c.has_matches
           /\ c'.sorted_matches = c.sorted_matches /\ c'.sorted_pos = c.sorted_pos
           /\ \/ /\ call.skip /\ pc' = "offset" /\ answers' = answers /\ c'.result_count = c.result_count
              \/ /\ ~call.skip /\ c'.result_count = c.result_count + 1
                 /\ \/ call.collecting /\ pc' = "collect" /\ answers' = answers
                    \/ ~call.collecting /\ pc' = "ready" /\ answers' = Append(answers, bindings)
<1>1. c = [f \in Fields |-> c[f]]
  BY DEF LevelsOK
<1>2. /\ bindings' = bindings /\ ended' = ended /\ pc = "match" /\ call' = call
      /\ facts' = facts /\ interned' = interned /\ hexastore' = hexastore /\ asked' = asked /\ starved' = starved
  BY DEF Match, return1
<1>3. CASE call.skip /\ pc' = "offset" /\ c' = c /\ answers' = answers
  BY <1>2, <1>3 DEF Unmoved
<1>4. CASE /\ ~call.skip /\ c' = [c EXCEPT !.result_count = @ + 1]
           /\ \/ call.collecting /\ pc' = "collect" /\ answers' = answers
              \/ ~call.collecting /\ pc' = "ready" /\ answers' = Append(answers, bindings)
  <2>1. /\ c'.spec = c.spec /\ c'.l = c.l /\ c'.level = c.level /\ c'.facts_count = c.facts_count
        /\ c'.locked = c.locked /\ c'.sort_var = c.sort_var /\ c'.sort_desc = c.sort_desc
        /\ c'.offset = c.offset /\ c'.limit = c.limit /\ c'.result_count = c.result_count + 1 /\ c'.error = c.error
        /\ c'.is_sorted = c.is_sorted /\ c'.has_matches = c.has_matches
        /\ c'.sorted_matches = c.sorted_matches /\ c'.sorted_pos = c.sorted_pos
    BY <1>1, <1>4 DEF Fields
  <2> QED  BY <1>2, <1>4, <2>1 DEF Unmoved
<1> QED  BY <1>3, <1>4 DEF Match, return1

\* Collect: one match more in the array, or an error.
LEMMA CollectFields ==
    ASSUME LevelsOK, Collect
    PROVE  /\ Unmoved /\ bindings' = bindings /\ answers' = answers /\ ended' = ended /\ pc = "collect" /\ call' = call
           /\ c'.limit = c.limit /\ c'.offset = c.offset /\ c'.result_count = c.result_count
           /\ c'.is_sorted = c.is_sorted /\ c'.has_matches = c.has_matches /\ c'.sorted_pos = c.sorted_pos
           /\ \/ pc' = "limit" /\ c'.sorted_matches = Append(c.sorted_matches, bindings) /\ c'.error = c.error
              \/ pc' = "collected" /\ c'.sorted_matches = c.sorted_matches /\ c'.error = -1
<1>1. c = [f \in Fields |-> c[f]]
  BY DEF LevelsOK
<1>2. /\ bindings' = bindings /\ answers' = answers /\ ended' = ended /\ pc = "collect" /\ call' = call
      /\ facts' = facts /\ interned' = interned /\ hexastore' = hexastore /\ asked' = asked /\ starved' = starved
  BY DEF Collect
<1> DEFINE more == Append(c.sorted_matches, bindings)
<1>3. \/ c' = [c EXCEPT !.sorted_matches = more] /\ pc' = "limit"
      \/ c' = [c EXCEPT !.error = -1] /\ pc' = "collected"
  BY DEF Collect
<1> HIDE DEF more
<1>4. /\ c'.spec = c.spec /\ c'.l = c.l /\ c'.level = c.level /\ c'.facts_count = c.facts_count
      /\ c'.locked = c.locked /\ c'.sort_var = c.sort_var /\ c'.sort_desc = c.sort_desc
      /\ c'.offset = c.offset /\ c'.limit = c.limit /\ c'.result_count = c.result_count
      /\ c'.is_sorted = c.is_sorted /\ c'.has_matches = c.has_matches /\ c'.sorted_pos = c.sorted_pos
      /\ \/ pc' = "limit" /\ c'.sorted_matches = more /\ c'.error = c.error
         \/ pc' = "collected" /\ c'.sorted_matches = c.sorted_matches /\ c'.error = -1
  BY <1>1, <1>3 DEF Fields
<1> QED  BY <1>2, <1>4 DEF Unmoved, more

\* Collected: the modifiers come back.
LEMMA CollectedFields ==
    ASSUME LevelsOK, Collected
    PROVE  /\ Unmoved /\ bindings' = bindings /\ answers' = answers /\ pc = "collected" /\ call' = NoCall
           /\ c'.limit = call.limit /\ c'.offset = call.offset /\ c'.result_count = 0
           /\ c'.is_sorted = TRUE /\ c'.has_matches = c.has_matches /\ c'.sorted_pos = c.sorted_pos
           /\ c'.error = c.error
           /\ c'.sorted_matches = IF c.error = 0 /\ c.sort_var \in Var THEN heapsort_matches(c.sorted_matches) ELSE c.sorted_matches
           /\ IF c.error # 0 THEN pc' = "ready" /\ ended' = TRUE ELSE pc' = "page" /\ ended' = ended
<1>1. c = [f \in Fields |-> c[f]]
  BY DEF LevelsOK
<1>2. /\ bindings' = bindings /\ answers' = answers /\ pc = "collected" /\ call' = NoCall
      /\ facts' = facts /\ interned' = interned /\ hexastore' = hexastore /\ asked' = asked /\ starved' = starved
      /\ IF c.error # 0 THEN pc' = "ready" /\ ended' = TRUE ELSE pc' = "page" /\ ended' = ended
  BY DEF Collected, return0
<1> DEFINE matches == IF c.error = 0 /\ c.sort_var \in Var THEN heapsort_matches(c.sorted_matches) ELSE c.sorted_matches
<1>3. c' = [c EXCEPT !.is_sorted = TRUE, !.limit = call.limit, !.offset = call.offset, !.result_count = 0,
                     !.sorted_matches = matches]
  BY DEF Collected
<1> HIDE DEF matches
<1>4. /\ c'.spec = c.spec /\ c'.l = c.l /\ c'.level = c.level /\ c'.facts_count = c.facts_count
      /\ c'.locked = c.locked /\ c'.sort_var = c.sort_var /\ c'.sort_desc = c.sort_desc
      /\ c'.limit = call.limit /\ c'.offset = call.offset /\ c'.result_count = 0
      /\ c'.is_sorted = TRUE /\ c'.has_matches = c.has_matches /\ c'.sorted_pos = c.sorted_pos
      /\ c'.error = c.error /\ c'.sorted_matches = matches
  BY <1>1, <1>3 DEF Fields
<1> QED  BY <1>2, <1>4 DEF Unmoved, matches

\* Page: past the end, at the end or at the limit, or one match more.
LEMMA PageFields ==
    ASSUME LevelsOK, Page
    PROVE  /\ Unmoved /\ pc = "page" /\ pc' = "ready" /\ call' = call
           /\ c'.limit = c.limit /\ c'.is_sorted = c.is_sorted /\ c'.has_matches = c.has_matches
           /\ c'.error = c.error /\ c'.sorted_matches = c.sorted_matches
           /\ LET left == Len(c.sorted_matches) - c.sorted_pos
                  pos == c.sorted_pos + c.offset
              IN  \/ /\ c.offset > left /\ c'.offset = c.offset - left - 1 /\ c'.sorted_pos = c.sorted_pos + left
                     /\ c'.result_count = c.result_count /\ answers' = answers /\ ended' = TRUE
                  \/ /\ c.offset <= left /\ c'.offset = 0 /\ c'.sorted_pos = pos
                     /\ (c.limit >= 0 /\ c.result_count >= c.limit) \/ c.offset = left
                     /\ c'.result_count = c.result_count /\ answers' = answers /\ ended' = TRUE
                  \/ /\ c.offset < left /\ c'.offset = 0 /\ c'.sorted_pos = pos + 1
                     /\ c.limit < 0 \/ c.result_count < c.limit
                     /\ c'.result_count = c.result_count + 1
                     /\ answers' = Append(answers, c.sorted_matches[pos + 1]) /\ ended' = ended
<1>1. c = [f \in Fields |-> c[f]]
  BY DEF LevelsOK
<1> DEFINE left == Len(c.sorted_matches) - c.sorted_pos
           pos == c.sorted_pos + c.offset
<1>2. /\ pc = "page" /\ pc' = "ready" /\ call' = call
      /\ facts' = facts /\ interned' = interned /\ hexastore' = hexastore /\ asked' = asked /\ starved' = starved
  BY DEF Page, return0, return1
<1> DEFINE o == c.offset - left - 1
           p == c.sorted_pos + left
           q == pos + 1
           r == c.result_count + 1
           Same == /\ c'.spec = c.spec /\ c'.l = c.l /\ c'.level = c.level /\ c'.facts_count = c.facts_count
                   /\ c'.locked = c.locked /\ c'.sort_var = c.sort_var /\ c'.sort_desc = c.sort_desc
                   /\ c'.limit = c.limit /\ c'.is_sorted = c.is_sorted /\ c'.has_matches = c.has_matches
                   /\ c'.error = c.error /\ c'.sorted_matches = c.sorted_matches
<1>3. \/ c.offset > left /\ c' = [c EXCEPT !.offset = o, !.sorted_pos = p] /\ return0
      \/ /\ c.offset <= left /\ ((c.limit >= 0 /\ c.result_count >= c.limit) \/ c.offset = left)
         /\ c' = [c EXCEPT !.offset = 0, !.sorted_pos = pos] /\ return0
      \/ /\ c.offset < left /\ (c.limit < 0 \/ c.result_count < c.limit)
         /\ c' = [c EXCEPT !.offset = 0, !.sorted_pos = q, !.result_count = r]
         /\ return1(c.sorted_matches[pos + 1])
  BY DEF Page
<1> HIDE DEF o, p, q, r, pos, left
<1>4. ASSUME NEW x, NEW y, NEW z, c' = [c EXCEPT !.offset = x, !.sorted_pos = y, !.result_count = z]
      PROVE  Same /\ c'.offset = x /\ c'.sorted_pos = y /\ c'.result_count = z
  BY <1>1, <1>4 DEF Fields
<1>5. ASSUME NEW x, NEW y, c' = [c EXCEPT !.offset = x, !.sorted_pos = y]
      PROVE  Same /\ c'.offset = x /\ c'.sorted_pos = y /\ c'.result_count = c.result_count
  BY <1>1, <1>5 DEF Fields
<1> HIDE DEF Same
<1>6. CASE c.offset > left /\ c' = [c EXCEPT !.offset = o, !.sorted_pos = p] /\ return0
  <2>1. Same /\ c'.offset = o /\ c'.sorted_pos = p /\ c'.result_count = c.result_count
    BY <1>5, <1>6
  <2> QED  BY <1>2, <1>6, <2>1 DEF Same, Unmoved, return0, o, p, left
<1>7. CASE /\ c.offset <= left /\ ((c.limit >= 0 /\ c.result_count >= c.limit) \/ c.offset = left)
           /\ c' = [c EXCEPT !.offset = 0, !.sorted_pos = pos] /\ return0
  <2>1. Same /\ c'.offset = 0 /\ c'.sorted_pos = pos /\ c'.result_count = c.result_count
    BY <1>5, <1>7
  <2> QED  BY <1>2, <1>7, <2>1 DEF Same, Unmoved, return0, pos, left
<1>8. CASE /\ c.offset < left /\ (c.limit < 0 \/ c.result_count < c.limit)
           /\ c' = [c EXCEPT !.offset = 0, !.sorted_pos = q, !.result_count = r]
           /\ return1(c.sorted_matches[pos + 1])
  <2>1. Same /\ c'.offset = 0 /\ c'.sorted_pos = q /\ c'.result_count = r
    BY <1>4, <1>8
  <2> QED  BY <1>2, <1>8, <2>1 DEF Same, Unmoved, return1, q, r, pos, left
<1> QED  BY <1>3, <1>6, <1>7, <1>8

\* The levels do not change while the search waits.
LEMMA UnmovedSpec ==
    ASSUME SpecInv, c'.spec = c.spec, c'.facts_count \in {0, c.facts_count}, c'.locked = c.locked, asked' = asked
    PROVE  SpecInv'
<1>1. PICK s, n, locked, a : s = c.spec /\ n = c.facts_count /\ locked = c.locked /\ a = asked
  OBVIOUS
<1>2. s = c'.spec /\ c'.facts_count \in {0, n} /\ locked = c'.locked /\ a = asked'
  BY <1>1
<1>3. /\ s = [k \in 1..Len(s) |-> s[k]] /\ Len(s) \in Nat
      /\ n \in {0, Len(s)}
      /\ locked = 1 => /\ {s[k] : k \in 1..Len(s)} = {Pattern(t) : t \in ToSet(a.triples)}
                       /\ a.triples \in Asked
      /\ n # 0 => locked = 1
      /\ \A k \in 1..(Len(s) - 1) : ~Negated(s[k])
  BY <1>1, Zenon DEF SpecInv
<1>4. c'.facts_count \in {0, Len(s)} /\ (c'.facts_count # 0 => locked = 1)
  BY <1>2, <1>3
<1> QED  BY <1>2, <1>3, <1>4, Zenon DEF SpecInv

\* A step of the paging before or after the search, or at a match that is kept.
LEMMA WaitSearch ==
    ASSUME QueryInv, Unmoved, bindings' = bindings, pc \notin {"level", "match"}, pc' \notin {"match", "collect", "level"},
           Searching' <=> Searching,
           pc' = "nomatch" => c.facts_count = 0,
           pc' \in {"limit", "offset", "inner", "nomatch", "collected"} => ~c'.is_sorted,
           pc' = "page" => c'.is_sorted /\ c'.has_matches
    PROVE  SearchInv' /\ Ahead' = Ahead /\ AllAnswers' = AllAnswers
<1>1. SearchInv /\ LevelsOK
  BY DEF QueryInv, LockInv
<1>2. /\ c'.spec = c.spec /\ c'.l = c.l /\ c'.level = c.level /\ c'.facts_count = c.facts_count
      /\ facts' = facts /\ interned' = interned /\ hexastore' = hexastore /\ asked' = asked
  BY DEF Unmoved
<1>3. (Searching' => GoesOn') /\ (Searching' => Ahead' = Ahead)
  BY <1>1, <1>2, PagingSearch
<1>4. AllAnswers' = AllAnswers
  BY <1>2, SameSearch
<1>5. Ahead' = Ahead
  <2>1. CASE Searching
    BY <1>3, <2>1
  <2>2. CASE ~Searching
    BY <2>2 DEF Ahead
  <2> QED  BY <2>1, <2>2
<1>6. SearchInv'
  <2>1. /\ pc' \in {"level", "match"} => c'.facts_count # 0
        /\ pc' = "nomatch" => c'.facts_count = 0
        /\ pc' \in {"limit", "offset", "inner", "level", "match", "nomatch", "collect", "collected"} => ~c'.is_sorted
        /\ pc' = "page" => c'.is_sorted /\ c'.has_matches
    BY <1>2
  <2> QED  BY <1>3, <2>1 DEF SearchInv, GoesOn
<1> QED  BY <1>4, <1>5, <1>6

\* The call itself does not touch the search.
LEMMA CallSearch ==
    ASSUME QueryInv, CallNext PROVE SearchInv' /\ Ahead' = Ahead /\ AllAnswers' = AllAnswers
<1>1. LevelsOK
  BY DEF QueryInv, LockInv
<1>2. /\ Unmoved /\ bindings' = bindings /\ pc = "ready"
      /\ \/ /\ ~c.is_sorted /\ pc' = "limit" /\ c' = c
         \/ /\ c.is_sorted /\ ~c.has_matches /\ pc' = "limit" /\ c'.is_sorted = FALSE
         \/ /\ c.is_sorted /\ ~c.has_matches /\ pc' = "ready"
            /\ c'.has_matches = c.has_matches /\ c'.is_sorted = c.is_sorted
         \/ /\ c.is_sorted /\ c.has_matches /\ pc' = "page" /\ c' = c
  BY <1>1, CallFields
<1>3. Searching' <=> Searching
  BY <1>2 DEF Searching, Unmoved
<1> QED  BY <1>2, <1>3, WaitSearch

\* Neither do limit, offset, the end of the search and the collection.
LEMMA WaitingSearch ==
    ASSUME QueryInv, Limit \/ Offset \/ NoMatch \/ Collect
    PROVE  SearchInv' /\ Ahead' = Ahead /\ AllAnswers' = AllAnswers
<1>1. LevelsOK /\ SearchInv
  BY DEF QueryInv, LockInv
<1>2. /\ Unmoved /\ bindings' = bindings /\ c'.is_sorted = c.is_sorted /\ c'.has_matches = c.has_matches
      /\ pc \in {"limit", "offset", "nomatch", "collect"} /\ pc' \in {"ready", "offset", "inner", "collected", "limit"}
  <2>1. CASE Limit
    BY <2>1 DEF Limit, return0, Unmoved
  <2>2. CASE Offset
    BY <1>1, <2>2, OffsetFields
  <2>3. CASE NoMatch
    BY <2>3 DEF NoMatch, return0, Unmoved
  <2>4. CASE Collect
    BY <1>1, <2>4, CollectFields
  <2> QED  BY <2>1, <2>2, <2>3, <2>4
<1>3. Searching' <=> Searching
  BY <1>2 DEF Searching, Unmoved
<1>4. ~c'.is_sorted
  BY <1>1, <1>2 DEF SearchInv
<1> QED  BY <1>2, <1>3, <1>4, WaitSearch

\* The matches are there: the search is not needed any more.
LEMMA CollectedSearch ==
    ASSUME QueryInv, Collected, c.has_matches
    PROVE  SearchInv' /\ Ahead' = {} /\ AllAnswers' = AllAnswers
<1>1. LevelsOK
  BY DEF QueryInv, LockInv
<1>2. Unmoved /\ bindings' = bindings /\ c'.is_sorted /\ c'.has_matches /\ pc' \in {"ready", "page"}
  BY <1>1, CollectedFields
<1>3. ~Searching'
  BY <1>2 DEF Searching
<1>4. AllAnswers' = AllAnswers
  BY <1>2, SameSearch DEF Unmoved
<1>5. SearchInv'
  BY <1>2, <1>3 DEF SearchInv
<1> QED  BY <1>3, <1>4, <1>5, OverAhead

\* And the pages of a sorted query have nothing left to search.
LEMMA PageSearch ==
    ASSUME QueryInv, Page
    PROVE  SearchInv' /\ Ahead' = {} /\ Ahead = {} /\ AllAnswers' = AllAnswers
<1>1. LevelsOK /\ SearchInv
  BY DEF QueryInv, LockInv
<1>2. Unmoved /\ pc = "page" /\ c'.is_sorted = c.is_sorted /\ c'.has_matches = c.has_matches /\ pc' = "ready"
  BY <1>1, PageFields
<1>3. ~Searching /\ ~Searching'
  BY <1>1, <1>2 DEF Searching, SearchInv
<1>4. AllAnswers' = AllAnswers
  BY <1>2 DEF AllAnswers, IsAnswer, InPositive, Fits, Unmoved
<1>5. SearchInv'
  BY <1>2, <1>3 DEF SearchInv
<1>6. Ahead = {} /\ Ahead' = {}
  BY <1>3 DEF Ahead
<1> QED  BY <1>4, <1>5, <1>6

\* A match is an answer that was not found before, and is not found again.
LEMMA MatchSearch ==
    ASSUME SearchableQueries, QueryInv, Match
    PROVE  /\ SearchInv' /\ AllAnswers' = AllAnswers /\ bindings \in AllAnswers
           /\ bindings \in Ahead /\ Ahead' = Ahead \ {bindings}
<1>1. LevelsOK /\ SearchInv
  BY DEF QueryInv, LockInv
<1>2. /\ Unmoved /\ bindings' = bindings /\ pc = "match" /\ pc' \in {"offset", "collect", "ready"}
      /\ c'.is_sorted = c.is_sorted /\ c'.has_matches = c.has_matches
  BY <1>1, MatchFields
<1>3. /\ c'.spec = c.spec /\ c'.l = c.l /\ c'.level = c.level /\ c'.facts_count = c.facts_count
      /\ facts' = facts /\ interned' = interned /\ hexastore' = hexastore /\ asked' = asked
  BY <1>2 DEF Unmoved
<1>4. /\ Searching /\ bindings \in Ahead
      /\ \A b : b \in Ahead /\ b # bindings <=> b \in AllAnswers /\ \E k \in 1..c.facts_count : Beyond(b, k)
  BY <1>2, MatchAhead
<1>5. /\ AllAnswers' = AllAnswers
      /\ \A k \in 1..c.facts_count : (LevelFits(k)' <=> LevelFits(k)) /\ (Passed(k)' <=> Passed(k)) /\ (Found(k)' <=> Found(k))
      /\ \A b, k : (Agrees(b, k)' <=> Agrees(b, k)) /\ (Beyond(b, k)' <=> Beyond(b, k))
      /\ BindingsFit' <=> BindingsFit
  BY <1>2, <1>3, SameSearch
<1>6. (\A k \in 1..c.facts_count : LevelFits(k)) /\ (\A k \in 1..c.level : Passed(k)) /\ BindingsFit /\ PlaceFits
  BY <1>1, <1>4 DEF SearchInv
<1>7. c.level = c.facts_count /\ c.facts_count # 0 /\ c.facts_count \in Nat
  BY <1>1, <1>2, <1>6 DEF PlaceFits, SearchInv, LevelsOK
<1>8. Searching'
  BY <1>2, <1>3, <1>4 DEF Searching
<1>9. PlaceFits'
  BY <1>2, <1>3, <1>7 DEF PlaceFits
<1>10. \A k \in 1..c'.facts_count : LevelFits(k)'
  BY <1>3, <1>5, <1>6
<1>11. \A k \in 1..c'.level : Passed(k)'
  BY <1>3, <1>5, <1>6, <1>7
<1>12. SearchInv'
  <2>1. ~c.is_sorted
    BY <1>1, <1>2 DEF SearchInv
  <2> QED  BY <1>2, <1>5, <1>6, <1>9, <1>10, <1>11, <2>1 DEF SearchInv
<1>13. ~Below'
  BY <1>2, <1>3, <1>7 DEF Below
<1>14. PICK m : m = c'.level + 1
  OBVIOUS
<1>15. ASSUME NEW b PROVE b \in Ahead' <=> b \in Ahead /\ b # bindings
  <2>1. b \in Ahead' <=> b \in AllAnswers' /\ ((\E k \in 1..c'.facts_count : Beyond(b, k)') \/ (Below' /\ Agrees(b, m)'))
    BY <1>8, <1>14, AheadParts
  <2>2. b \in Ahead' <=> b \in AllAnswers /\ \E k \in 1..c.facts_count : Beyond(b, k)
    BY <1>3, <1>5, <1>13, <2>1
  <2> QED  BY <1>4, <2>2
<1>16. Ahead' = Ahead \ {bindings}
  BY <1>15
<1>17. bindings \in AllAnswers
  BY <1>4 DEF Ahead
<1> QED  BY <1>4, <1>5, <1>12, <1>16, <1>17

\* The fields of a cursor for a new query.
Opened(spec, N, locked, error, mod, var) ==
    /\ c'.spec = spec /\ c'.facts_count = N /\ Len(spec) = N /\ c'.level = 0 /\ c'.locked = locked
    /\ c'.error = error /\ c'.result_count = 0 /\ c'.sorted_pos = 0
    /\ c'.has_matches = FALSE /\ c'.sorted_matches = <<>>
    /\ c'.is_sorted = (mod.sort_var # NoVar) /\ c'.sort_var = var /\ c'.sort_desc = mod.sort_desc
    /\ c'.limit = (IF mod.ask THEN 1 ELSE mod.limit) /\ c'.offset = (IF mod.ask THEN 0 ELSE mod.offset)
    /\ \A k \in 1..N : c'.l[k].spec_init = 0

\* What facts_with_checked leaves in the cursor,
LEMMA FreshFields ==
    ASSUME NEW spec, NEW N \in Nat, Listed(spec, N), NEW locked, NEW error, NEW mod, NEW var,
           c' = Fresh(spec, locked, error, mod, var)
    PROVE  Opened(spec, N, locked, error, mod, var)
<1>1. Len(spec) = N /\ DOMAIN spec = 1..N
  BY SequenceLength DEF Listed
<1> DEFINE none == [spec |-> <<>>, spec_init |-> 0, cursor |-> NoCursor]
<1>2. none.spec_init = 0
  OBVIOUS
<1> HIDE DEF none
<1>3. c'.l = [k \in 1..N |-> none]
  BY <1>1 DEF Fresh, none
<1>4. \A k \in 1..N : c'.l[k].spec_init = 0
  BY <1>2, <1>3
<1> DEFINE levels == [k \in DOMAIN spec |-> [spec |-> <<>>, spec_init |-> 0, cursor |-> NoCursor]]
           limit == IF mod.ask THEN 1 ELSE mod.limit
           offset == IF mod.ask THEN 0 ELSE mod.offset
           sorted == mod.sort_var # NoVar
<1>5. c' = [spec |-> spec, facts_count |-> Len(spec), level |-> 0, l |-> levels, limit |-> limit, offset |-> offset,
            result_count |-> 0, is_sorted |-> sorted, sort_var |-> var, sort_desc |-> mod.sort_desc,
            has_matches |-> FALSE, sorted_matches |-> <<>>, sorted_pos |-> 0, error |-> error, locked |-> locked]
  BY DEF Fresh
<1> HIDE DEF levels, limit, offset, sorted
<1>6. /\ c'.spec = spec /\ c'.facts_count = Len(spec) /\ c'.level = 0 /\ c'.locked = locked
      /\ c'.error = error /\ c'.result_count = 0 /\ c'.sorted_pos = 0
      /\ c'.has_matches = FALSE /\ c'.sorted_matches = <<>> /\ c'.is_sorted = sorted
      /\ c'.sort_var = var /\ c'.sort_desc = mod.sort_desc /\ c'.limit = limit /\ c'.offset = offset
  BY <1>5
<1> QED  BY <1>1, <1>4, <1>6 DEF limit, offset, sorted, Opened

\* and what a failure or the end of a query leaves.
LEMMA EmptyFields ==
    ASSUME NEW locked, NEW error, NEW mod, NEW var, c' = Fresh(<<>>, locked, error, mod, var)
    PROVE  Opened(<<>>, 0, locked, error, mod, var)
<1>1. <<>> = [k \in 1..0 |-> <<>>[k]]
  OBVIOUS
<1>2. 0 \in Nat
  OBVIOUS
<1> QED  BY <1>1, <1>2, FreshFields DEF Listed

\* A query without patterns finds nothing.
LEMMA EmptySearch ==
    ASSUME c'.spec = <<>>, c'.facts_count = 0, c'.locked = 0, pc' \in {"ready", "closed"}
    PROVE  SpecInv' /\ SearchInv' /\ Ahead' = {}
<1>1. ~Searching'
  BY DEF Searching
<1>2. SearchInv'
  BY <1>1 DEF SearchInv
<1>3. SpecInv'
  <2>1. <<>> = [k \in 1..0 |-> <<>>[k]] /\ Len(<<>>) = 0
    OBVIOUS
  <2>2. \A k \in 1..(0 - 1) : FALSE
    OBVIOUS
  <2> QED  BY <2>1, <2>2 DEF SpecInv
<1> QED  BY <1>1, <1>2, <1>3, OverAhead

\* All answers are ahead of a query that is opened.
LEMMA OpenSearch ==
    ASSUME SearchableQueries, QueryInv, NEW triples \in Asked, NEW mod, Open(triples, mod), FewUses,
           NEW var, c' = Fresh(facts_spec_sort(Expanded(triples)), 1, 0, mod, var)
    PROVE  /\ SpecInv' /\ SearchInv' /\ Ahead' = (IF triples = <<>> THEN {} ELSE AllAnswers')
           /\ Len(triples) \in Nat /\ (Len(triples) = 0 <=> triples = <<>>)
           /\ Opened(c'.spec, Len(triples), 1, 0, mod, var)
<1> DEFINE N == Len(triples)
           given == Expanded(triples)
<1>0. PICK spec : spec = facts_spec_sort(given)
  OBVIOUS
<1>1. /\ pc' = "ready" /\ bindings' = Unbound /\ asked'.triples = triples /\ StoreInv
      /\ facts' = facts /\ interned' = interned /\ hexastore' = hexastore
  BY DEF Open, QueryInv
<1>2. N \in Nat /\ given = [k \in 1..N |-> given[k]] /\ Apart(given)
      /\ {given[k] : k \in 1..N} = {Pattern(t) : t \in ToSet(triples)}
  BY ExpandedKeeps
<1>3. \A k \in 1..N : Negated(given[k]) \in BOOLEAN /\ \A m \in Columns : given[k][m] \in Terms
  <2> SUFFICES ASSUME NEW k \in 1..N PROVE Negated(given[k]) \in BOOLEAN /\ \A m \in Columns : given[k][m] \in Terms
    OBVIOUS
  <2> HIDE DEF given, N
  <2>1. PICK t \in ToSet(triples) : given[k] = Pattern(t)
    BY <1>2
  <2>2. Negated(given[k]) = t.negated /\ t.negated \in BOOLEAN /\ \A m \in Columns : given[k][m] \in Terms
    BY <2>1, PatternFacts
  <2> QED  BY <2>2
<1> HIDE DEF given, N
<1>4. /\ Listed(spec, N) /\ spec = [k \in 1..N |-> spec[k]] /\ {spec[k] : k \in 1..N} = {given[k] : k \in 1..N}
      /\ \A k \in 1..(N - 1) : ~Negated(spec[k])
  <2>1. Listed(given, N)
    BY <1>2 DEF Listed
  <2>2. Rearranged(spec, given, N)
    BY <1>0, <1>1, <1>2, <1>3, <2>1, SortKeeps
  <2> QED  BY <2>2 DEF Rearranged, Listed
<1>5. c' = Fresh(spec, 1, 0, mod, var)
  BY <1>0 DEF given
<1>6. /\ Opened(spec, N, 1, 0, mod, var)
      /\ c'.spec = spec /\ c'.facts_count = N /\ Len(spec) = N /\ c'.level = 0 /\ c'.locked = 1 /\ c'.has_matches = FALSE
      /\ \A k \in 1..N : c'.l[k].spec_init = 0
  <2>1. Listed(spec, N) /\ N \in Nat
    BY <1>2, <1>4, Zenon
  <2>2. Opened(spec, N, 1, 0, mod, var)
    BY <1>5, <2>1, FreshFields
  <2> QED  BY <2>2 DEF Opened
<1>7. SpecInv'
  BY <1>1, <1>2, <1>4, <1>6 DEF SpecInv
<1>8. \A k \in 1..N : LevelFits(k)' /\ ~Found(k)'
  BY <1>6 DEF LevelFits, Found
<1>9. BindingsFit'
  BY <1>1, <1>6, <1>8 DEF BindingsFit, Unbound
<1>10. PlaceFits'
  BY <1>1, <1>6 DEF PlaceFits
<1>11. \A k \in 1..c'.level : Passed(k)'
  BY <1>6
<1>12. SearchInv'
  BY <1>1, <1>6, <1>8, <1>9, <1>10, <1>11 DEF SearchInv
<1>13. Searching' <=> N # 0
  BY <1>6 DEF Searching
<1>14. N = 0 <=> triples = <<>>
  <2>1. \E T : triples \in Seq(T)
    BY QueryAssumption
  <2> QED  BY <2>1 DEF N
<1>15. ASSUME N # 0 PROVE Ahead' = AllAnswers'
  <2>1. 0 + 1 = 1 /\ 1 \in 1..N /\ 0 < N
    BY <1>2, <1>15
  <2>2. Below'
    BY <1>6, <1>8, <2>1 DEF Below
  <2>3. BoundBefore(1)' = {}
    BY DEF BoundBefore
  <2>4. ASSUME NEW b PROVE Agrees(b, 1)'
    BY <2>3 DEF Agrees
  <2>5. PICK m : m = c'.level + 1
    OBVIOUS
  <2>6. m = 1
    BY <1>6, <2>1, <2>5
  <2>7. ASSUME NEW b PROVE b \in Ahead' <=> b \in AllAnswers'
    <3>1. b \in Ahead' <=> b \in AllAnswers' /\ ((\E k \in 1..c'.facts_count : Beyond(b, k)') \/ (Below' /\ Agrees(b, m)'))
      BY <1>13, <1>15, <2>5, AheadParts
    <3>2. Agrees(b, m)'
      BY <2>4, <2>6
    <3> QED  BY <2>2, <3>1, <3>2
  <2> QED  BY <2>7
<1>16. ASSUME N = 0 PROVE Ahead' = {}
  BY <1>13, <1>16, OverAhead
<1>17. Opened(c'.spec, N, 1, 0, mod, var)
  BY <1>6
<1>18. N \in Nat /\ Ahead' = (IF triples = <<>> THEN {} ELSE AllAnswers')
  BY <1>2, <1>14, <1>15, <1>16
<1> QED  BY <1>7, <1>12, <1>14, <1>17, <1>18 DEF N

-----------------------------------------------------------------------------
(* Counting answers *)

\* The answers, and those found, can be counted.
LEMMA AnswersFinite ==
    /\ IsFiniteSet(AllAnswers) /\ Cardinality(AllAnswers) \in Nat /\ AllAnswers \subseteq [Var -> Values]
    /\ Past \subseteq AllAnswers /\ IsFiniteSet(Past) /\ Cardinality(Past) \in Nat
    /\ Cardinality(Past) <= Cardinality(AllAnswers)
<1>1. IsFiniteSet(Values)
  BY QueryAssumption, FS_AddElement DEF Values
<1>2. IsFiniteSet([Var -> Values])
  BY <1>1, QueryAssumption, FunctionsFinite
<1>3. AllAnswers \in SUBSET [Var -> Values] /\ Past \in SUBSET AllAnswers
  BY DEF AllAnswers, Past, Values
<1>4. IsFiniteSet(AllAnswers)
  BY <1>2, <1>3, FS_Subset
<1>5. IsFiniteSet(Past) /\ Cardinality(Past) <= Cardinality(AllAnswers)
  BY <1>3, <1>4, FS_Subset
<1> QED  BY <1>3, <1>4, <1>5, FS_CardinalityType

\* A match that was not there before.
LEMMA AppendFacts ==
    ASSUME NEW S, NEW s \in Seq(S), NEW x \in S
    PROVE  /\ Append(s, x) \in Seq(S) /\ Len(Append(s, x)) = Len(s) + 1 /\ Len(s) \in Nat
           /\ ToSet(Append(s, x)) = ToSet(s) \union {x}
           /\ Distinct(s) /\ x \notin ToSet(s) => Distinct(Append(s, x))
           /\ \A n \in 1..Len(s) : Append(s, x)[n] = s[n]
           /\ Append(s, x)[Len(s) + 1] = x
<1> DEFINE r == Append(s, x)
<1>1. /\ r \in Seq(S) /\ Len(r) = Len(s) + 1 /\ Len(s) \in Nat
      /\ (\A n \in 1..Len(s) : r[n] = s[n]) /\ r[Len(s) + 1] = x
      /\ DOMAIN s = 1..Len(s) /\ DOMAIN r = 1..(Len(s) + 1)
  OBVIOUS
<1> HIDE DEF r
<1>2. \A n \in 1..(Len(s) + 1) : n = Len(s) + 1 \/ n \in 1..Len(s)
  BY <1>1
<1>3. ToSet(r) = ToSet(s) \union {x}
  <2>1. ASSUME NEW y \in ToSet(r) PROVE y \in ToSet(s) \union {x}
    BY <1>1, <1>2 DEF ToSet
  <2>2. ASSUME NEW y \in ToSet(s) \union {x} PROVE y \in ToSet(r)
    BY <1>1 DEF ToSet
  <2> QED  BY <2>1, <2>2
<1>4. ASSUME Distinct(s), x \notin ToSet(s) PROVE Distinct(r)
  <2> SUFFICES ASSUME NEW n \in DOMAIN r, NEW m \in DOMAIN r, r[n] = r[m] PROVE n = m
    BY DEF Distinct
  <2>1. \A k \in 1..Len(s) : r[k] # x
    BY <1>1, <1>4 DEF ToSet
  <2>2. (n = Len(s) + 1 \/ n \in 1..Len(s)) /\ (m = Len(s) + 1 \/ m \in 1..Len(s))
    BY <1>1, <1>2
  <2> QED  BY <1>1, <1>4, <2>1, <2>2 DEF Distinct
<1> QED  BY <1>1, <1>3, <1>4 DEF r

\* A list without repetition is as long as its set is large.
LEMMA DistinctLength ==
    ASSUME NEW S, NEW s \in Seq(S), Distinct(s)
    PROVE  Cardinality(ToSet(s)) = Len(s)
<1>1. Len(s) \in Nat /\ DOMAIN s = 1..Len(s) /\ s = [k \in 1..Len(s) |-> s[k]]
  OBVIOUS
<1>2. IsFiniteSet(1..Len(s)) /\ Cardinality(1..Len(s)) = Len(s)
  <2>1. 1 \in Int /\ Len(s) \in Int
    BY <1>1
  <2>2. IsFiniteSet(1..Len(s)) /\ Cardinality(1..Len(s)) = IF 1 > Len(s) THEN 0 ELSE Len(s) - 1 + 1
    BY <2>1, FS_Interval
  <2> QED  BY <1>1, <2>2
<1>3. s \in [1..Len(s) -> ToSet(s)] /\ \A x \in ToSet(s) : \E k \in 1..Len(s) : s[k] = x
  BY <1>1 DEF ToSet
<1>4. s \in Surjection(1..Len(s), ToSet(s))
  BY <1>3 DEF Surjection
<1>5. s \in Injection(1..Len(s), ToSet(s))
  BY <1>1, <1>3 DEF Injection, IsInjective, Distinct
<1> QED  BY <1>2, <1>4, <1>5, FS_Surjection

\* Nothing changes for the paging.
LEMMA SamePast ==
    ASSUME Ahead' = Ahead, AllAnswers' = AllAnswers PROVE Past' = Past
BY DEF Past

\* A match is one answer more that is found.
LEMMA MatchPast ==
    ASSUME AllAnswers' = AllAnswers, bindings \in AllAnswers, bindings \in Ahead, Ahead' = Ahead \ {bindings}
    PROVE  /\ Past' = Past \union {bindings} /\ bindings \notin Past
           /\ Cardinality(Past') = Cardinality(Past) + 1 /\ Cardinality(Past) \in Nat
<1>1. Past' = Past \union {bindings} /\ bindings \notin Past
  BY DEF Past, Ahead
<1>2. IsFiniteSet(Past) /\ Cardinality(Past) \in Nat
  BY AnswersFinite
<1>3. Cardinality(Past \union {bindings}) = Cardinality(Past) + 1
  BY <1>1, <1>2, FS_AddElement
<1> QED  BY <1>1, <1>2, <1>3

-----------------------------------------------------------------------------
(* The heap sort keeps the matches *)

\* Two arrangements of the same N things, one without repetition when the other is.
SameThings(r, a, N) ==
    /\ Listed(r, N)
    /\ \A k \in 1..N : (\E j \in 1..N : r[k] = a[j]) /\ (\E j \in 1..N : a[k] = r[j])
    /\ (\A i, j \in 1..N : a[i] = a[j] => i = j) => \A i, j \in 1..N : r[i] = r[j] => i = j

\* Two rearrangements, one after the other.
LEMMA SameThingsTwice ==
    ASSUME NEW N, NEW p, NEW q, NEW r, SameThings(p, q, N), SameThings(q, r, N) PROVE SameThings(p, r, N)
<1>1. \A k \in 1..N : (\E j \in 1..N : p[k] = r[j]) /\ (\E j \in 1..N : r[k] = p[j])
  <2> SUFFICES ASSUME NEW k \in 1..N PROVE (\E j \in 1..N : p[k] = r[j]) /\ (\E j \in 1..N : r[k] = p[j])
    OBVIOUS
  <2>1. PICK i \in 1..N : p[k] = q[i]
    BY DEF SameThings
  <2>2. PICK j \in 1..N : q[i] = r[j]
    BY DEF SameThings
  <2>3. PICK m \in 1..N : r[k] = q[m]
    BY DEF SameThings
  <2>4. PICK n \in 1..N : q[m] = p[n]
    BY DEF SameThings
  <2> QED  BY <2>1, <2>2, <2>3, <2>4
<1> QED  BY <1>1 DEF SameThings

\* Two places are exchanged.
LEMMA SwapKeeps ==
    ASSUME NEW N \in Nat, NEW a, Listed(a, N), NEW m \in 1..N, NEW n \in 1..N, NEW r,
           r = Swapped(a, m, n)
    PROVE  /\ SameThings(r, a, N) /\ r[m] = a[n] /\ r[n] = a[m]
           /\ \A k \in 1..N : k # m /\ k # n => r[k] = a[k]
<1> DEFINE Other(k) == IF k = n THEN m ELSE IF k = m THEN n ELSE k
<1>1. Listed(r, N) /\ \A k \in 1..N : r[k] = a[Other(k)]
  BY DEF Listed, Swapped
<1>2. \A k \in 1..N : Other(k) \in 1..N /\ Other(Other(k)) = k
  OBVIOUS
<1>3. r[m] = a[n] /\ r[n] = a[m] /\ \A k \in 1..N : k # m /\ k # n => r[k] = a[k]
  BY <1>1
<1> HIDE DEF Other
<1>4. \A k \in 1..N : (\E j \in 1..N : r[k] = a[j]) /\ (\E j \in 1..N : a[k] = r[j])
  BY <1>1, <1>2
<1>5. ASSUME \A i, j \in 1..N : a[i] = a[j] => i = j, NEW i \in 1..N, NEW j \in 1..N, r[i] = r[j] PROVE i = j
  <2>1. Other(i) = Other(j)
    BY <1>1, <1>2, <1>5
  <2> QED  BY <1>2, <2>1
<1> QED  BY <1>1, <1>3, <1>4, <1>5 DEF SameThings

-----------------------------------------------------------------------------
(* The heap sort *)

\* What the array holds.
Rows == [Var -> Values]

\* Matches are ordered by rank, texts and the unset variable before them.
LEMMA BeforeOrder ==
    ASSUME c.sort_var \in Var
    PROVE  /\ \A x, y \in Rows : Before(x, y) => ~Before(y, x)
           /\ \A x, y, z \in Rows : ~Before(x, y) /\ ~Before(y, z) => ~Before(x, z)
           /\ \A x \in Rows : ~Before(x, x)
<1> DEFINE Rank(m) == IF m[c.sort_var] = NULL THEN 0 ELSE Names[m[c.sort_var]]
<1>1. ASSUME NEW m \in Rows PROVE Rank(m) \in Nat
  <2>1. m[c.sort_var] \in Values
    BY DEF Rows
  <2>2. m[c.sort_var] # NULL => Names[m[c.sort_var]] \in Nat
    BY <2>1, QueryAssumption DEF Values
  <2> QED  BY <2>2
<1>2. \A x, y : Before(x, y) <=> IF c.sort_desc THEN Rank(y) < Rank(x) ELSE Rank(x) < Rank(y)
  BY Zenon DEF Before
<1> HIDE DEF Rank
<1>3. \A x, y \in Rows : Before(x, y) => ~Before(y, x)
  BY <1>1, <1>2
<1>4. ASSUME NEW x \in Rows, NEW y \in Rows, NEW z \in Rows, ~Before(x, y), ~Before(y, z) PROVE ~Before(x, z)
  <2>1. Rank(x) \in Nat /\ Rank(y) \in Nat /\ Rank(z) \in Nat
    BY <1>1
  <2> QED  BY <1>2, <1>4, <2>1
<1> QED  BY <1>3, <1>4

\* No child of place i comes after it; places are counted from 0.
HeapAt(a, i, count) == \A j \in {2 * i + 1, 2 * i + 2} : j < count => ~Before(a[i + 1], a[j + 1])

\* The heap is in order from place lo on.
HeapFrom(a, lo, count) == \A i \in Nat : i >= lo => HeapAt(a, i, count)

\* The places of the heap are exchanged among themselves.
Within(r, a, count, N) ==
    /\ SameThings(r, a, N)
    /\ \A k \in 1..N : k > count => r[k] = a[k]
    /\ \A k \in 1..N : k <= count => \E j \in 1..N : j <= count /\ r[k] = a[j]

\* Two exchanges within the heap, one after the other.
LEMMA WithinTwice ==
    ASSUME NEW N \in Nat, NEW count, NEW p, NEW q, NEW r, Within(p, q, count, N), Within(q, r, count, N)
    PROVE  Within(p, r, count, N)
<1>1. SameThings(p, r, N)
  BY SameThingsTwice DEF Within
<1>2. \A k \in 1..N : k > count => p[k] = r[k]
  BY DEF Within
<1>3. \A k \in 1..N : k <= count => \E j \in 1..N : j <= count /\ p[k] = r[j]
  <2> SUFFICES ASSUME NEW k \in 1..N, k <= count PROVE \E j \in 1..N : j <= count /\ p[k] = r[j]
    OBVIOUS
  <2>1. PICK i \in 1..N : i <= count /\ p[k] = q[i]
    BY DEF Within
  <2>2. PICK j \in 1..N : j <= count /\ q[i] = r[j]
    BY <2>1 DEF Within
  <2> QED  BY <2>1, <2>2
<1> QED  BY <1>1, <1>2, <1>3 DEF Within

\* Nothing is exchanged.
LEMMA SameWithin ==
    ASSUME NEW N, NEW count, NEW a, Listed(a, N) PROVE Within(a, a, count, N)
BY DEF Within, SameThings

\* The loop of sift_down_matches after n passes: the heap is in order but for the
\* root, which has moved on or is in order too.
SiftInv(at, a, start, count, N, n) ==
    /\ Within(at.arr, a, count, N)
    /\ at.root \in Nat /\ at.root >= start /\ at.root < count
    /\ \A i \in Nat : i >= start /\ i # at.root => HeapAt(at.arr, i, count)
    /\ \A i \in Nat : i >= start /\ at.root \in {2 * i + 1, 2 * i + 2} =>
          \A j \in {2 * at.root + 1, 2 * at.root + 2} : j < count => ~Before(at.arr[i + 1], at.arr[j + 1])
    /\ HeapAt(at.arr, at.root, count) \/ at.root >= start + n

\* One pass of the loop keeps that, and moves the root on or leaves all in order.
LEMMA SiftStep ==
    ASSUME c.sort_var \in Var, NEW N \in Nat, NEW count \in Nat, count <= N, NEW start \in Nat, NEW n \in Nat \ {0},
           NEW a, Listed(a, N), \A k \in 1..N : a[k] \in Rows,
           NEW at, SiftInv(at, a, start, count, N, n - 1), NEW next, next = Sift(at, count)
    PROVE  SiftInv(next, a, start, count, N, n)
<1>1. PICK x : x = at.arr
  OBVIOUS
<1>2. PICK root : root = at.root
  OBVIOUS
<1> DEFINE left == root * 2 + 1
           child == IF left + 1 < count /\ Before(x[left + 1], x[left + 2]) THEN left + 1 ELSE left
           stop == root > (count - 2) \div 2 \/ ~Before(x[root + 1], x[child + 1])
           y == [x EXCEPT ![root + 1] = x[child + 1], ![child + 1] = x[root + 1]]
<1>3. next = IF stop THEN at ELSE [arr |-> y, root |-> child]
  BY <1>1, <1>2 DEF Sift
<1>4. /\ Within(x, a, count, N)
      /\ root \in Nat /\ root >= start /\ root < count
      /\ \A i \in Nat : i >= start /\ i # root => HeapAt(x, i, count)
      /\ \A i \in Nat : i >= start /\ root \in {2 * i + 1, 2 * i + 2} =>
            \A j \in {2 * root + 1, 2 * root + 2} : j < count => ~Before(x[i + 1], x[j + 1])
      /\ HeapAt(x, root, count) \/ root >= start + (n - 1)
  BY <1>1, <1>2, Zenon DEF SiftInv
<1>5. Listed(x, N) /\ \A k \in 1..N : x[k] \in Rows
  <2>1. Listed(x, N) /\ \A k \in 1..N : \E j \in 1..N : x[k] = a[j]
    BY <1>4 DEF Within, SameThings
  <2> QED  BY <2>1
<1>6. \A i \in Nat : i < count => x[i + 1] \in Rows /\ i + 1 \in 1..N
  BY <1>5
<1>7. child \in Nat /\ child \in {left, left + 1} /\ child > root
  BY <1>4
<1>8. CASE stop
  <2>1. HeapAt(x, root, count)
    <3> SUFFICES ASSUME NEW j \in {2 * root + 1, 2 * root + 2}, j < count PROVE ~Before(x[root + 1], x[j + 1])
      BY DEF HeapAt
    <3>1. left < count /\ left \in Nat /\ root <= (count - 2) \div 2
      BY <1>4
    <3>2. ~Before(x[root + 1], x[child + 1])
      <4> HIDE DEF child
      <4> QED  BY <1>4, <1>8, <3>1
    <3>3. j = left \/ j = left + 1
      BY <1>4
    <3>4. x[root + 1] \in Rows /\ x[left + 1] \in Rows /\ x[j + 1] \in Rows
      BY <1>4, <1>6, <3>1, <3>3
    <3>5. CASE left + 1 < count /\ Before(x[left + 1], x[left + 2])
      <4>1. child = left + 1 /\ (left + 1) + 1 = left + 2
        BY <1>4, <3>5
      <4>2. x[left + 2] \in Rows
        <5>1. left + 1 \in Nat /\ left + 1 < count
          BY <3>1, <3>5
        <5> QED  BY <1>6, <4>1, <5>1
      <4>3. ~Before(x[root + 1], x[left + 2]) /\ ~Before(x[left + 2], x[left + 1])
        BY <3>2, <3>4, <3>5, <4>1, <4>2, BeforeOrder
      <4>4. ~Before(x[root + 1], x[left + 1])
        BY <3>4, <4>2, <4>3, BeforeOrder
      <4> QED  BY <3>3, <4>1, <4>3, <4>4
    <3>6. CASE ~(left + 1 < count /\ Before(x[left + 1], x[left + 2]))
      <4>1. child = left
        BY <3>6
      <4>2. ~Before(x[root + 1], x[left + 1])
        BY <3>2, <4>1
      <4>3. CASE j = left
        BY <4>2, <4>3
      <4>4. CASE j = left + 1
        <5>1. ~Before(x[left + 1], x[j + 1])
          <6>1. (left + 1) + 1 = left + 2
            BY <1>4
          <6> QED  BY <3>6, <4>4, <6>1
        <5> QED  BY <3>4, <4>2, <5>1, BeforeOrder
      <4> QED  BY <3>3, <4>3, <4>4
    <3> QED  BY <3>5, <3>6
  <2>2. next = at
    BY <1>3, <1>8
  <2> QED  BY <1>1, <1>2, <1>4, <2>1, <2>2 DEF SiftInv
<1>9. CASE ~stop
  <2>1. root <= (count - 2) \div 2 /\ Before(x[root + 1], x[child + 1])
    BY <1>4, <1>9
  <2>2. left \in Nat /\ left < count /\ child < count
    BY <1>4, <2>1
  <2>3. root + 1 \in 1..N /\ child + 1 \in 1..N /\ x[root + 1] \in Rows /\ x[child + 1] \in Rows
    BY <1>4, <1>6, <1>7, <2>2
  <2>4. next.arr = y /\ next.root = child
    BY <1>3, <1>9
  <2>5. \A j \in {left, left + 1} : j < count => ~Before(x[child + 1], x[j + 1])
    <3> SUFFICES ASSUME NEW j \in {left, left + 1}, j < count PROVE ~Before(x[child + 1], x[j + 1])
      OBVIOUS
    <3>1. x[j + 1] \in Rows /\ (left + 1) + 1 = left + 2
      BY <1>6, <2>2
    <3>2. CASE child = j
      BY <2>3, <3>2, BeforeOrder
    <3>3. CASE child # j /\ j = left
      BY <2>3, <3>1, <3>3, BeforeOrder
    <3>4. CASE child # j /\ j = left + 1
      BY <3>1, <3>4
    <3> QED  BY <3>2, <3>3, <3>4
  <2> HIDE DEF child, stop
  <2>6. PICK m \in 1..N : m = root + 1
    BY <2>3
  <2>7. PICK k \in 1..N : k = child + 1
    BY <2>3
  <2>8. y = Swapped(x, m, k)
    BY <2>6, <2>7 DEF Swapped
  <2> HIDE DEF y
  <2>9. /\ SameThings(y, x, N) /\ y[m] = x[k] /\ y[k] = x[m]
        /\ \A i \in 1..N : i # m /\ i # k => y[i] = x[i]
    <3>1. Listed(x, N)
      BY <1>5
    <3> QED  BY <2>8, <3>1, SwapKeeps
  <2>10. Within(y, x, count, N)
    <3>1. m <= count /\ k <= count
      BY <1>4, <2>2, <2>6, <2>7, <1>7
    <3>2. \A i \in 1..N : i > count => y[i] = x[i]
      BY <2>9, <3>1, <1>4
    <3>3. \A i \in 1..N : i <= count => \E j \in 1..N : j <= count /\ y[i] = x[j]
      <4> SUFFICES ASSUME NEW i \in 1..N, i <= count PROVE \E j \in 1..N : j <= count /\ y[i] = x[j]
        OBVIOUS
      <4>1. CASE i = m
        BY <2>9, <3>1, <4>1
      <4>2. CASE i = k
        BY <2>9, <3>1, <4>2
      <4>3. CASE i # m /\ i # k
        BY <2>9, <4>3
      <4> QED  BY <4>1, <4>2, <4>3
    <3> QED  BY <2>9, <3>2, <3>3 DEF Within
  <2>11. Within(y, a, count, N)
    BY <1>4, <2>10, WithinTwice
  <2>12. \A i \in Nat : i < count /\ i # root /\ i # child => y[i + 1] = x[i + 1]
    <3> SUFFICES ASSUME NEW i \in Nat, i < count, i # root, i # child PROVE y[i + 1] = x[i + 1]
      OBVIOUS
    <3>1. i + 1 \in 1..N /\ i + 1 # m /\ i + 1 # k
      BY <1>4, <1>7, <2>6, <2>7
    <3> QED  BY <2>9, <3>1
  <2>13. y[root + 1] = x[child + 1] /\ y[child + 1] = x[root + 1]
    BY <2>6, <2>7, <2>9
  <2>14. ASSUME NEW i \in Nat, i >= start, i # child PROVE HeapAt(y, i, count)
    <3> SUFFICES ASSUME NEW j \in {2 * i + 1, 2 * i + 2}, j < count PROVE ~Before(y[i + 1], y[j + 1])
      BY DEF HeapAt
    <3>1. j \in Nat /\ i < j /\ i < count
      OBVIOUS
    <3>2. CASE i = root
      <4>1. j \in {left, left + 1}
        BY <3>2
      <4>2. CASE j = child
        <5>1. ~Before(x[child + 1], x[root + 1])
          BY <2>1, <2>3, BeforeOrder
        <5> QED  BY <2>13, <3>2, <4>2, <5>1
      <4>3. CASE j # child
        <5>1. j # root
          BY <3>1, <3>2
        <5>2. y[j + 1] = x[j + 1]
          BY <2>12, <3>1, <4>3, <5>1
        <5> QED  BY <2>5, <2>13, <3>2, <4>1, <5>2
      <4> QED  BY <4>2, <4>3
    <3>3. CASE i # root
      <4>1. y[i + 1] = x[i + 1]
        BY <2>12, <2>14, <3>1, <3>3
      <4>2. ~Before(x[i + 1], x[j + 1])
        BY <1>4, <2>14, <3>3 DEF HeapAt
      <4>3. CASE j = root
        <5>1. root \in {2 * i + 1, 2 * i + 2}
          BY <4>3
        <5>2. child \in {2 * root + 1, 2 * root + 2}
          BY <1>4, <1>7
        <5>3. ~Before(x[i + 1], x[child + 1])
          BY <1>4, <2>2, <2>14, <5>1, <5>2
        <5> QED  BY <2>13, <4>1, <4>3, <5>3
      <4>4. j # child
        BY <1>4, <1>7, <3>3
      <4>5. CASE j # root
        BY <2>12, <3>1, <4>1, <4>2, <4>4, <4>5
      <4> QED  BY <4>3, <4>5
    <3> QED  BY <3>2, <3>3
  <2>15. ASSUME NEW i \in Nat, i >= start, child \in {2 * i + 1, 2 * i + 2},
                NEW j \in {2 * child + 1, 2 * child + 2}, j < count
         PROVE  ~Before(y[i + 1], y[j + 1])
    <3>1. i = root
      BY <1>4, <1>7, <2>15
    <3>2. j \in Nat /\ j # root /\ j # child
      BY <1>4, <1>7, <2>15
    <3>3. child \in Nat /\ child >= start /\ child # root
      BY <1>4, <1>7
    <3>4. ~Before(x[child + 1], x[j + 1])
      BY <1>4, <2>15, <3>3 DEF HeapAt
    <3>5. y[j + 1] = x[j + 1]
      BY <2>12, <2>15, <3>2
    <3> QED  BY <2>13, <3>1, <3>4, <3>5
  <2>16. child >= start + n
    <3>1. ~HeapAt(x, root, count)
      <4>1. child \in {2 * root + 1, 2 * root + 2}
        BY <1>4, <1>7
      <4> QED  BY <2>1, <2>2, <4>1 DEF HeapAt
    <3> QED  BY <1>4, <1>7, <3>1
  <2>17. child \in Nat /\ child >= start
    BY <1>4, <1>7
  <2>18. SiftInv([arr |-> y, root |-> child], a, start, count, N, n)
    BY <2>2, <2>11, <2>14, <2>15, <2>16, <2>17 DEF SiftInv
  <2> QED  BY <1>3, <1>9, <2>18
<1> QED  BY <1>8, <1>9

\* A heap of one element, or of none.
LEMMA SmallHeap ==
    ASSUME NEW a, NEW lo \in Nat, NEW count \in Nat, count < 2 PROVE HeapFrom(a, lo, count)
BY DEF HeapFrom, HeapAt

\* A pass from a state is the state after it.
LEMMA SiftedIsSift == ASSUME NEW at, NEW count PROVE Sifted(at, count) = Sift(at, count)
<1>1. {Sift(before, count) : before \in {at}} = {Sift(at, count)}
  OBVIOUS
<1> QED  BY <1>1, Zenon DEF Sifted

\* sift_down_matches puts the root in its place: the loop ends in time.
LEMMA SiftDown ==
    ASSUME c.sort_var \in Var, NEW N \in Nat, NEW count \in Nat, count <= N, NEW start \in Nat, start < count \/ count < 2,
           NEW a, Listed(a, N), \A k \in 1..N : a[k] \in Rows, HeapFrom(a, start + 1, count),
           NEW result, result = sift_down_matches(a, start, count)
    PROVE  Within(result, a, count, N) /\ HeapFrom(result, start, count)
<1> DEFINE base == [arr |-> a, root |-> start]
           Run(g, n) == g = [k \in 0..n |-> IF k = 0 THEN base ELSE Sifted(g[k - 1], count)]
           f == CHOOSE g : Run(g, count)
<1>1. ASSUME NEW n \in Nat PROVE \E g : Run(g, n)
  <2> SUFFICES ASSUME ~ \E g : Run(g, n) PROVE FALSE
    OBVIOUS
  <2> DEFINE T == {m \in Nat : ~ \E g : Run(g, m)}
  <2>1. PICK m \in T : \A y \in T : m <= y
    BY LeastNatural
  <2>2. Run([k \in 0..0 |-> base], 0)
    OBVIOUS
  <2>3. m # 0 /\ m \in Nat
    BY <2>2
  <2>4. m - 1 \in Nat /\ m - 1 \notin T
    <3> HIDE DEF T
    <3> QED  BY <2>1, <2>3
  <2>5. PICK g : Run(g, m - 1)
    BY <2>4
  <2> DEFINE h == [k \in 0..m |-> IF k = 0 THEN base ELSE Sifted(g[k - 1], count)]
  <2>6. \A k \in 0..(m - 1) : g[k] = IF k = 0 THEN base ELSE Sifted(g[k - 1], count)
    BY <2>5, <2>4
  <2>7. \A k \in 0..m : h[k] = IF k = 0 THEN base ELSE Sifted(g[k - 1], count)
    OBVIOUS
  <2>8. \A k \in 0..m : k # 0 => h[k - 1] = g[k - 1]
    <3> SUFFICES ASSUME NEW k \in 0..m, k # 0 PROVE h[k - 1] = g[k - 1]
      OBVIOUS
    <3>1. k - 1 \in 0..(m - 1) /\ k - 1 \in 0..m
      BY <2>3
    <3> HIDE DEF h, base
    <3> QED  BY <2>6, <2>7, <3>1
  <2>9. h = [k \in 0..m |-> IF k = 0 THEN base ELSE Sifted(h[k - 1], count)]
    BY <2>8
  <2> QED  BY <2>9
<1>2. Run(f, count)
  BY <1>1
<1>3. result = IF count < 2 THEN a ELSE f[count].arr
  BY DEF sift_down_matches
<1>4. \A k \in 0..count : f[k] = IF k = 0 THEN base ELSE Sifted(f[k - 1], count)
  BY <1>2
<1> HIDE DEF f
<1>5. CASE count < 2
  BY <1>3, <1>5, SmallHeap, SameWithin
<1>6. CASE count >= 2
  <2> DEFINE Good(n) == SiftInv(f[n], a, start, count, N, n)
             T == {n \in 0..count : ~ Good(n)}
  <2>1. ASSUME NEW k \in 1..count PROVE f[k] = Sift(f[k - 1], count)
    <3>1. k \in 0..count /\ k # 0
      OBVIOUS
    <3> HIDE DEF base
    <3>2. f[k] = Sifted(f[k - 1], count)
      BY <1>4, <3>1
    <3>3. PICK at : at = f[k - 1]
      OBVIOUS
    <3> QED  BY <3>2, <3>3, SiftedIsSift
  <2>2. Good(0)
    <3>1. 0 \in 0..count
      OBVIOUS
    <3>2. f[0] = base
      BY <1>4, <3>1
    <3>3. f[0].arr = a /\ f[0].root = start
      BY <3>2
    <3>4. \A i \in Nat : i >= start /\ i # start => HeapAt(a, i, count)
      BY DEF HeapFrom
    <3>5. \A i \in Nat : i >= start => start \notin {2 * i + 1, 2 * i + 2}
      OBVIOUS
    <3>6. Within(a, a, count, N)
      BY SameWithin
    <3>7. start < count
      BY <1>6
    <3> QED  BY <3>3, <3>4, <3>5, <3>6, <3>7 DEF SiftInv
  <2>3. ASSUME NEW m \in 1..count, Good(m - 1) PROVE Good(m)
    <3>1. m \in Nat \ {0}
      OBVIOUS
    <3> QED  BY <2>1, <2>3, <3>1, SiftStep
  <2> HIDE DEF Good
  <2>4. ASSUME T # {} PROVE FALSE
    <3>1. T \subseteq Nat
      OBVIOUS
    <3>2. PICK m \in T : \A y \in T : m <= y
      BY <2>4, <3>1, LeastNatural
    <3>3. m # 0 /\ m \in 0..count
      BY <2>2
    <3>4. m \in 1..count /\ m - 1 \in 0..count
      BY <3>3
    <3>5. m - 1 \notin T
      <4> HIDE DEF T
      <4> QED  BY <3>2, <3>4
    <3>6. Good(m)
      BY <2>3, <3>4, <3>5
    <3> QED  BY <3>6
  <2>5. Good(count)
    BY <2>4
  <2>6. result = f[count].arr
    BY <1>3, <1>6
  <2>7. PICK at : at = f[count]
    OBVIOUS
  <2>8. SiftInv(at, a, start, count, N, count)
    BY <2>5, <2>7 DEF Good
  <2>9. \A i \in Nat : i >= start => HeapAt(at.arr, i, count)
    BY <2>8 DEF SiftInv
  <2>10. Within(at.arr, a, count, N)
    BY <2>8 DEF SiftInv
  <2> QED  BY <2>6, <2>7, <2>9, <2>10 DEF HeapFrom
<1> QED  BY <1>5, <1>6

\* The root of a heap comes last.
LEMMA RootLast ==
    ASSUME c.sort_var \in Var, NEW N \in Nat, NEW count \in 1..N, NEW a, \A k \in 1..N : a[k] \in Rows,
           HeapFrom(a, 0, count)
    PROVE  \A k \in 1..count : ~Before(a[1], a[k])
<1> DEFINE T == {k \in 1..count : Before(a[1], a[k])}
<1>1. ASSUME T # {} PROVE FALSE
  <2>1. T \subseteq Nat
    OBVIOUS
  <2>2. PICK m \in T : \A y \in T : m <= y
    BY <1>1, <2>1, LeastNatural
  <2>3. m \in 1..count /\ Before(a[1], a[m]) /\ a[1] \in Rows /\ a[m] \in Rows
    OBVIOUS
  <2>4. m # 1
    BY <2>3, BeforeOrder
  <2> DEFINE i == (m - 2) \div 2
             j == m - 1
  <2>5. i \in Nat /\ i + 1 \in 1..count /\ i + 1 < m /\ j \in {2 * i + 1, 2 * i + 2} /\ j < count /\ j + 1 = m /\ i >= 0
    BY <2>3, <2>4
  <2> HIDE DEF i, j
  <2>6. HeapAt(a, i, count)
    BY <2>5 DEF HeapFrom
  <2>7. ~Before(a[i + 1], a[m])
    BY <2>5, <2>6 DEF HeapAt
  <2>8. ~Before(a[1], a[i + 1])
    <3>1. i + 1 \notin T
      <4> HIDE DEF T
      <4> QED  BY <2>1, <2>2, <2>5
    <3> QED  BY <2>5, <3>1
  <2>9. a[i + 1] \in Rows
    BY <2>5
  <2> QED  BY <2>3, <2>7, <2>8, <2>9, BeforeOrder
<1> QED  BY <1>1

\* The elements stay what they are.
LEMMA RowsKept ==
    ASSUME NEW N, NEW a, NEW r, SameThings(r, a, N), \A k \in 1..N : a[k] \in Rows
    PROVE  Listed(r, N) /\ \A k \in 1..N : r[k] \in Rows
<1>1. ASSUME NEW k \in 1..N PROVE r[k] \in Rows
  <2>1. PICK j \in 1..N : r[k] = a[j]
    BY DEF SameThings
  <2> QED  BY <2>1
<1> QED  BY <1>1 DEF SameThings

\* The passes of the first loop of heapsort_matches.
BuiltBy(f, a, half, N) ==
    \A k \in 0..half : f[k] = IF k = 0 THEN a ELSE sift_down_matches(f[k - 1], half - k, N)

\* And those of the second.
TakenBy(f, a, N) ==
    \A k \in 0..(N - 1) :
        f[k] = IF k = 0 THEN a ELSE sift_down_matches(Swapped(f[k - 1], 1, N - k + 1), 0, N - k)

\* The first loop of heapsort_matches makes a heap of the array.
LEMMA HeapBuilt ==
    ASSUME c.sort_var \in Var, NEW N \in Nat, NEW half \in Nat, half = N \div 2, NEW a, Listed(a, N),
           \A k \in 1..N : a[k] \in Rows, NEW f, BuiltBy(f, a, half, N)
    PROVE  SameThings(f[half], a, N) /\ HeapFrom(f[half], 0, N)
<1> DEFINE Good(n) == SameThings(f[n], a, N) /\ HeapFrom(f[n], half - n, N)
           T == {n \in 0..half : ~ Good(n)}
<1>1. Good(0)
  <2>1. f[0] = a
    BY DEF BuiltBy
  <2>2. \A i \in Nat : i >= half => 2 * i + 1 >= N /\ 2 * i + 2 >= N
    OBVIOUS
  <2>3. HeapFrom(a, half, N)
    BY <2>2 DEF HeapFrom, HeapAt
  <2>4. SameThings(a, a, N) /\ half - 0 = half
    BY DEF SameThings
  <2> QED  BY <2>1, <2>3, <2>4
<1>2. ASSUME NEW m \in 1..half, Good(m - 1) PROVE Good(m)
  <2>1. PICK x : x = f[m - 1]
    OBVIOUS
  <2>2. PICK y : y = f[m]
    OBVIOUS
  <2>3. PICK start \in Nat : start = half - m
    OBVIOUS
  <2>4. y = sift_down_matches(x, start, N)
    BY <2>1, <2>2, <2>3 DEF BuiltBy
  <2>5. SameThings(x, a, N) /\ HeapFrom(x, start + 1, N)
    <3>1. half - (m - 1) = start + 1
      BY <2>3
    <3> QED  BY <1>2, <2>1, <3>1
  <2>6. Listed(x, N) /\ \A k \in 1..N : x[k] \in Rows
    BY <2>5, RowsKept
  <2>7. start < N
    BY <2>3
  <2>8. Within(y, x, N, N) /\ HeapFrom(y, start, N)
    BY <2>4, <2>5, <2>6, <2>7, SiftDown
  <2>9. SameThings(y, a, N)
    BY <2>5, <2>8, SameThingsTwice DEF Within
  <2> QED  BY <2>2, <2>3, <2>8, <2>9
<1> HIDE DEF Good
<1>3. ASSUME T # {} PROVE FALSE
  <2>1. T \subseteq Nat
    OBVIOUS
  <2>2. PICK m \in T : \A y \in T : m <= y
    BY <1>3, <2>1, LeastNatural
  <2>3. m # 0 /\ m \in 0..half
    BY <1>1
  <2>4. m \in 1..half /\ m - 1 \in 0..half
    BY <2>3
  <2>5. m - 1 \notin T
    <3> HIDE DEF T
    <3> QED  BY <2>2, <2>4
  <2>6. Good(m)
    BY <1>2, <2>4, <2>5
  <2> QED  BY <2>6
<1>4. Good(half)
  BY <1>3
<1>5. half - half = 0
  OBVIOUS
<1> QED  BY <1>4, <1>5 DEF Good

\* The places from m on are in order, and nothing before them comes after them.
TailInOrder(a, m, N) == \A i, j \in 1..N : i < j /\ j > m => ~Before(a[j], a[i])

\* The second loop takes the root of the heap to the end, again and again.
LEMMA HeapTaken ==
    ASSUME c.sort_var \in Var, NEW N \in Nat, N >= 1, NEW a, Listed(a, N), \A k \in 1..N : a[k] \in Rows,
           HeapFrom(a, 0, N), NEW f, TakenBy(f, a, N)
    PROVE  SameThings(f[N - 1], a, N) /\ TailInOrder(f[N - 1], 1, N)
<1> DEFINE Good(n) == SameThings(f[n], a, N) /\ HeapFrom(f[n], 0, N - n) /\ TailInOrder(f[n], N - n, N)
           T == {n \in 0..(N - 1) : ~ Good(n)}
<1>1. Good(0)
  <2>1. f[0] = a /\ N - 0 = N
    BY DEF TakenBy
  <2>2. TailInOrder(a, N, N)
    BY DEF TailInOrder
  <2>3. SameThings(a, a, N)
    BY DEF SameThings
  <2> QED  BY <2>1, <2>2, <2>3
<1>2. ASSUME NEW m \in 1..(N - 1), Good(m - 1) PROVE Good(m)
  <2>1. PICK x : x = f[m - 1]
    OBVIOUS
  <2>2. PICK z : z = f[m]
    OBVIOUS
  <2>3. PICK last \in 1..N : last = N - m + 1
    OBVIOUS
  <2>4. PICK count \in Nat : count = N - m
    OBVIOUS
  <2>5. last = count + 1 /\ count >= 1 /\ N - (m - 1) = last /\ count <= N
    BY <2>3, <2>4
  <2>6. PICK y : y = Swapped(x, 1, last)
    OBVIOUS
  <2>7. z = sift_down_matches(y, 0, count)
    BY <2>1, <2>2, <2>3, <2>4, <2>6 DEF TakenBy
  <2>8. SameThings(x, a, N) /\ HeapFrom(x, 0, last) /\ TailInOrder(x, last, N)
    BY <1>2, <2>1, <2>5
  <2>9. Listed(x, N) /\ \A k \in 1..N : x[k] \in Rows
    BY <2>8, RowsKept
  <2>10. 1 \in 1..N
    OBVIOUS
  <2>11. /\ SameThings(y, x, N) /\ y[1] = x[last] /\ y[last] = x[1]
         /\ \A k \in 1..N : k # 1 /\ k # last => y[k] = x[k]
    BY <2>6, <2>9, <2>10, SwapKeeps
  <2>12. Listed(y, N) /\ \A k \in 1..N : y[k] \in Rows
    BY <2>9, <2>11, RowsKept
  <2>13. HeapFrom(y, 1, count)
    <3> SUFFICES ASSUME NEW i \in Nat, i >= 1, NEW j \in {2 * i + 1, 2 * i + 2}, j < count PROVE ~Before(y[i + 1], y[j + 1])
      BY DEF HeapFrom, HeapAt
    <3>1. i + 1 \in 1..N /\ i + 1 # 1 /\ i + 1 # last /\ j + 1 \in 1..N /\ j + 1 # 1 /\ j + 1 # last /\ j < last /\ i >= 0
      BY <2>5
    <3>2. ~Before(x[i + 1], x[j + 1])
      BY <2>8, <3>1 DEF HeapFrom, HeapAt
    <3> QED  BY <2>11, <3>1, <3>2
  <2>14. Within(z, y, count, N) /\ HeapFrom(z, 0, count)
    <3>1. 0 < count /\ 0 \in Nat /\ 0 + 1 = 1
      BY <2>5
    <3>2. HeapFrom(y, 0 + 1, count)
      BY <2>13, <3>1
    <3> QED  BY <2>5, <2>7, <2>12, <3>1, <3>2, SiftDown
  <2>15. SameThings(z, a, N)
    BY <2>8, <2>11, <2>14, SameThingsTwice DEF Within
  <2>16. \A k \in 1..last : ~Before(x[1], x[k])
    BY <2>8, <2>9, RootLast
  <2>17. \A k \in 1..N : k <= count => \E j \in 1..last : z[k] = x[j]
    <3> SUFFICES ASSUME NEW k \in 1..N, k <= count PROVE \E j \in 1..last : z[k] = x[j]
      OBVIOUS
    <3>1. PICK i \in 1..N : i <= count /\ z[k] = y[i]
      BY <2>14 DEF Within
    <3>2. CASE i = 1
      BY <2>5, <2>11, <3>1, <3>2
    <3>3. CASE i # 1
      <4>1. i # last /\ i \in 1..last
        BY <2>5, <3>1
      <4> QED  BY <2>11, <3>1, <3>3, <4>1
    <3> QED  BY <3>2, <3>3
  <2>18. z[last] = x[1] /\ \A k \in 1..N : k > last => z[k] = x[k]
    <3>1. last > count /\ z[last] = y[last]
      BY <2>5, <2>14 DEF Within
    <3>2. ASSUME NEW k \in 1..N, k > last PROVE z[k] = x[k]
      <4>1. k > count /\ k # 1 /\ k # last
        BY <2>5, <3>2
      <4>2. z[k] = y[k]
        BY <2>14, <4>1 DEF Within
      <4> QED  BY <2>11, <4>1, <4>2
    <3> QED  BY <2>11, <3>1, <3>2
  <2>19. TailInOrder(z, count, N)
    <3> SUFFICES ASSUME NEW i \in 1..N, NEW j \in 1..N, i < j, j > count PROVE ~Before(z[j], z[i])
      BY DEF TailInOrder
    <3>1. PICK p \in 1..N : z[i] = x[p] /\ (i > last => p = i) /\ (i <= last => p <= last)
      <4>1. CASE i <= count
        <5>1. PICK p \in 1..last : z[i] = x[p]
          BY <2>17, <4>1
        <5>2. p \in 1..N /\ p <= last /\ i <= last
          BY <2>5, <4>1
        <5> QED  BY <5>1, <5>2
      <4>2. CASE i = last
        BY <2>10, <2>18, <4>2
      <4>3. CASE i > last
        BY <2>18, <4>3
      <4> QED  BY <2>5, <4>1, <4>2, <4>3
    <3>2. CASE j = last
      <4>1. p \in 1..last
        BY <3>1, <3>2
      <4> QED  BY <2>16, <2>18, <3>1, <3>2, <4>1
    <3>3. CASE j > last
      <4>1. p < j
        BY <3>1, <3>3
      <4>2. ~Before(x[j], x[p])
        BY <2>8, <3>3, <4>1 DEF TailInOrder
      <4> QED  BY <2>18, <3>1, <3>3, <4>2
    <3> QED  BY <2>5, <3>2, <3>3
  <2> QED  BY <2>2, <2>4, <2>14, <2>15, <2>19
<1> HIDE DEF Good
<1>3. ASSUME T # {} PROVE FALSE
  <2>1. T \subseteq Nat
    OBVIOUS
  <2>2. PICK m \in T : \A y \in T : m <= y
    BY <1>3, <2>1, LeastNatural
  <2>3. m # 0 /\ m \in 0..(N - 1)
    BY <1>1
  <2>4. m \in 1..(N - 1) /\ m - 1 \in 0..(N - 1)
    BY <2>3
  <2>5. m - 1 \notin T
    <3> HIDE DEF T
    <3> QED  BY <2>2, <2>4
  <2>6. Good(m)
    BY <1>2, <2>4, <2>5
  <2> QED  BY <2>6
<1>4. Good(N - 1)
  <2>1. N - 1 \in 0..(N - 1)
    OBVIOUS
  <2> QED  BY <1>3, <2>1
<1>5. N - (N - 1) = 1
  OBVIOUS
<1> QED  BY <1>4, <1>5 DEF Good

\* heapsort_matches puts the matches in order and keeps them all.
LEMMA HeapSorted ==
    ASSUME c.sort_var \in Var, NEW a \in Seq(Rows), NEW result, result = heapsort_matches(a)
    PROVE  SameThings(result, a, Len(a)) /\ TailInOrder(result, 1, Len(a))
<1> DEFINE N == Len(a)
           half == Len(a) \div 2
           Run(g, n) == g = [k \in 0..n |-> IF k = 0 THEN a ELSE sift_down_matches(g[k - 1], half - k, N)]
           heap == CHOOSE g : Run(g, half)
<1> DEFINE Take(first, g, n) == g = [k \in 0..n |-> IF k = 0 THEN first ELSE sift_down_matches(Swapped(g[k - 1], 1, N - k + 1), 0, N - k)]
           out == CHOOSE g : Take(heap[half], g, N - 1)
<1>7. result = IF N < 2 THEN a ELSE out[N - 1]
  BY DEF heapsort_matches
<1>1. N = Len(a) /\ N \in Nat
  OBVIOUS
<1>2. half \in Nat /\ half = N \div 2
  OBVIOUS
<1> HIDE DEF N, half
<1>3. Listed(a, N) /\ \A k \in 1..N : a[k] \in Rows
  BY <1>1 DEF Listed
<1>4. ASSUME NEW n \in Nat PROVE \E g : Run(g, n)
  <2> SUFFICES ASSUME ~ \E g : Run(g, n) PROVE FALSE
    OBVIOUS
  <2> DEFINE T == {m \in Nat : ~ \E g : Run(g, m)}
  <2>1. PICK m \in T : \A y \in T : m <= y
    BY LeastNatural
  <2>2. Run([k \in 0..0 |-> a], 0)
    OBVIOUS
  <2>3. m # 0 /\ m \in Nat
    BY <2>2
  <2>4. m - 1 \in Nat /\ m - 1 \notin T
    <3> HIDE DEF T
    <3> QED  BY <2>1, <2>3
  <2>5. PICK g : Run(g, m - 1)
    BY <2>4
  <2> DEFINE h == [k \in 0..m |-> IF k = 0 THEN a ELSE sift_down_matches(g[k - 1], half - k, N)]
  <2>6. \A k \in 0..(m - 1) : g[k] = IF k = 0 THEN a ELSE sift_down_matches(g[k - 1], half - k, N)
    BY <2>5, <2>4
  <2>7. \A k \in 0..m : h[k] = IF k = 0 THEN a ELSE sift_down_matches(g[k - 1], half - k, N)
    OBVIOUS
  <2>8. \A k \in 0..m : k # 0 => h[k - 1] = g[k - 1]
    <3> SUFFICES ASSUME NEW k \in 0..m, k # 0 PROVE h[k - 1] = g[k - 1]
      OBVIOUS
    <3>1. k - 1 \in 0..(m - 1) /\ k - 1 \in 0..m
      BY <2>3
    <3> HIDE DEF h
    <3> QED  BY <2>6, <2>7, <3>1
  <2>9. h = [k \in 0..m |-> IF k = 0 THEN a ELSE sift_down_matches(h[k - 1], half - k, N)]
    BY <2>8
  <2> QED  BY <2>9
<1>5. Run(heap, half)
  BY <1>2, <1>4
<1>6. BuiltBy(heap, a, half, N)
  BY <1>5 DEF BuiltBy
<1> HIDE DEF heap
<1>8. PICK first : first = heap[half]
  OBVIOUS
<1>9. SameThings(first, a, N) /\ HeapFrom(first, 0, N)
  BY <1>1, <1>2, <1>3, <1>6, <1>8, HeapBuilt
<1>10. Listed(first, N) /\ \A k \in 1..N : first[k] \in Rows
  BY <1>3, <1>9, RowsKept
<1>11. CASE N < 2
  <2>1. SameThings(a, a, N) /\ TailInOrder(a, 1, N)
    BY <1>1, <1>3, <1>11 DEF SameThings, TailInOrder
  <2> QED  BY <1>1, <1>7, <1>11, <2>1
<1>12. CASE N >= 2
  <2>1. ASSUME NEW n \in Nat PROVE \E g : Take(first, g, n)
    <3> SUFFICES ASSUME ~ \E g : Take(first, g, n) PROVE FALSE
      OBVIOUS
    <3> DEFINE T == {m \in Nat : ~ \E g : Take(first, g, m)}
    <3>1. PICK m \in T : \A y \in T : m <= y
      BY LeastNatural
    <3>2. Take(first, [k \in 0..0 |-> first], 0)
      OBVIOUS
    <3>3. m # 0 /\ m \in Nat
      BY <3>2
    <3>4. m - 1 \in Nat /\ m - 1 \notin T
      <4> HIDE DEF T
      <4> QED  BY <3>1, <3>3
    <3>5. PICK g : Take(first, g, m - 1)
      BY <3>4
    <3> DEFINE h == [k \in 0..m |-> IF k = 0 THEN first ELSE sift_down_matches(Swapped(g[k - 1], 1, N - k + 1), 0, N - k)]
    <3>6. \A k \in 0..(m - 1) : g[k] = IF k = 0 THEN first ELSE sift_down_matches(Swapped(g[k - 1], 1, N - k + 1), 0, N - k)
      BY <3>5, <3>4
    <3>7. \A k \in 0..m : h[k] = IF k = 0 THEN first ELSE sift_down_matches(Swapped(g[k - 1], 1, N - k + 1), 0, N - k)
      OBVIOUS
    <3>8. \A k \in 0..m : k # 0 => h[k - 1] = g[k - 1]
      <4> SUFFICES ASSUME NEW k \in 0..m, k # 0 PROVE h[k - 1] = g[k - 1]
        OBVIOUS
      <4>1. k - 1 \in 0..(m - 1) /\ k - 1 \in 0..m
        BY <3>3
      <4> HIDE DEF h
      <4> QED  BY <3>6, <3>7, <4>1
    <3>9. h = [k \in 0..m |-> IF k = 0 THEN first ELSE sift_down_matches(Swapped(h[k - 1], 1, N - k + 1), 0, N - k)]
      BY <3>8
    <3> QED  BY <3>9
  <2>2. \E g : Take(first, g, N - 1)
    <3>1. N - 1 \in Nat
      BY <1>1, <1>12
    <3> QED  BY <2>1, <3>1
  <2>3. Take(first, out, N - 1)
    BY <1>8, <2>2
  <2>4. TakenBy(out, first, N)
    BY <2>3 DEF TakenBy
  <2> HIDE DEF out
  <2>5. PICK f : f = out
    OBVIOUS
  <2>6. TakenBy(f, first, N)
    BY <2>4, <2>5
  <2>7. SameThings(f[N - 1], first, N) /\ TailInOrder(f[N - 1], 1, N)
    BY <1>1, <1>9, <1>10, <1>12, <2>6, HeapTaken
  <2>8. result = f[N - 1]
    <3>1. ~(N < 2)
      BY <1>1, <1>12
    <3>2. result = out[N - 1]
      BY <1>7, <3>1
    <3> QED  BY <2>5, <3>2
  <2>9. SameThings(f[N - 1], a, N)
    BY <1>1, <1>9, <2>7, SameThingsTwice
  <2>10. SameThings(result, a, N) /\ TailInOrder(result, 1, N)
    BY <2>7, <2>8, <2>9
  <2> QED  BY <2>10 DEF N
<1> QED  BY <1>1, <1>11, <1>12 DEF N

-----------------------------------------------------------------------------
(* The pages *)

\* The inductive invariant: the search, and what is made of its matches.
FullInv == QueryInv /\ PageInv

\* The answers of a query do not change while the store does not.
LEMMA SameAnswers ==
    ASSUME facts' = facts, interned' = interned, asked' = asked
    PROVE  AllAnswers' = AllAnswers /\ Skipped' = Skipped /\ Allowed' = Allowed
BY Zenon DEF AllAnswers, IsAnswer, InPositive, VarsOf, Fits, Value, Skipped, Allowed

\* What the modifiers of a query are.
LEMMA ModifierFacts ==
    ASSUME AnswersFit, pc # "closed"
    PROVE  Skipped \in Nat /\ Allowed \in Int
<1>1. asked.mod \in Modifiers
  BY DEF AnswersFit
<1>2. asked.mod.limit \in Int /\ asked.mod.offset \in Nat
  BY <1>1, QueryAssumption
<1>3. Skipped = (IF asked.mod.ask THEN 0 ELSE asked.mod.offset) /\ Allowed = (IF asked.mod.ask THEN 1 ELSE asked.mod.limit)
  BY Zenon DEF Skipped, Allowed
<1> QED  BY <1>2, <1>3

\* A step that returns and collects nothing.
LEMMA AnswersStay ==
    ASSUME AnswersFit, pc # "closed", pc' # "closed", Past \subseteq Past', answers' = answers,
           c'.sorted_matches = c.sorted_matches, c'.locked = c.locked, c'.facts_count \in {0, c.facts_count},
           c'.error = c.error \/ c'.error # 0, c'.sort_var = c.sort_var, c'.sort_desc = c.sort_desc,
           call' = call, asked' = asked
    PROVE  AnswersFit'
<1>1. FoundOnce(answers)' /\ FoundOnce(c.sorted_matches)'
  BY DEF AnswersFit, FoundOnce
<1> QED  BY <1>1 DEF AnswersFit

\* When nothing is ahead, what was counted is what limit and offset leave.
LEMMA AllCounted ==
    ASSUME NEW total \in Nat, NEW skipped \in Nat, NEW returned \in Nat, NEW offset \in 0..skipped, NEW p \in {0, 1},
           total = returned + skipped - offset - p, offset > 0 \/ p = 1 => returned = 0
    PROVE  returned = IF total <= skipped THEN 0 ELSE total - skipped
OBVIOUS

\* A step of the search that does not end it for want of memory.
LEMMA SearchPages ==
    ASSUME SearchableQueries, FullInv, SearchStep, facts' = facts, interned' = interned, asked' = asked, call' = call, answers' = answers,
           ended' = ended, starved' = starved,
           pc \in {"inner", "level", "match", "nomatch"}, pc' \in {"inner", "level", "match", "nomatch"}
    PROVE  PageInv'
<1>1. AllAnswers' = AllAnswers /\ Skipped' = Skipped /\ Allowed' = Allowed
  BY SameAnswers
<1>2. Past' = Past
  BY <1>1, SamePast DEF SearchStep
<1>3. Kept /\ c'.facts_count \in {0, c.facts_count}
  BY DEF SearchStep
<1>4. AnswersFit /\ pc # "closed" /\ pc' # "closed"
  BY DEF FullInv, PageInv
<1>5. AnswersFit'
  BY <1>2, <1>3, <1>4, AnswersStay DEF Kept
<1>6. c.facts_count # 0 /\ c'.facts_count = 0 => Past = AllAnswers
  <2> SUFFICES ASSUME c.facts_count # 0, c'.facts_count = 0 PROVE Past = AllAnswers
    OBVIOUS
  <2>1. Ahead' = {}
    BY OverAhead DEF Searching
  <2>2. Ahead = {}
    BY <2>1 DEF SearchStep
  <2> QED  BY <2>2 DEF Past
<1>7. Passing' <=> Passing
  BY DEF Passing
<1>8. ASSUME asked.mod.sort_var = NoVar PROVE CountsFit'
  <2>1. CountsFit
    BY <1>4, <1>8 DEF FullInv, PageInv
  <2>2. c'.limit = c.limit /\ c'.offset = c.offset /\ c'.result_count = c.result_count /\ c'.locked = c.locked
        /\ c'.is_sorted = c.is_sorted /\ c'.has_matches = c.has_matches
    BY <1>3 DEF Kept
  <2>3. pc' \in InCall \ {"limit"} /\ pc \in InCall \ {"limit"}
    BY DEF InCall
  <2>4. ASSUME c'.facts_count = 0, c'.locked = 1, ~starved'
        PROVE  Len(answers) = IF Cardinality(AllAnswers) <= Skipped THEN 0 ELSE Cardinality(AllAnswers) - Skipped
    <3>1. CASE c.facts_count = 0
      BY <2>1, <2>2, <2>4, <3>1 DEF CountsFit
    <3>2. CASE c.facts_count # 0
      <4> DEFINE p == IF Passing THEN 1 ELSE 0
      <4>1. Past = AllAnswers
        BY <1>6, <2>4, <3>2
      <4>2. Cardinality(AllAnswers) = Len(answers) + Skipped - c.offset - p
        BY <2>1, <3>2, <4>1 DEF CountsFit
      <4>3. c.offset > 0 \/ p = 1 => answers = <<>>
        BY <2>1 DEF CountsFit
      <4>4. Cardinality(AllAnswers) \in Nat
        BY AnswersFinite
      <4>5. Skipped \in Nat /\ c.offset \in 0..Skipped /\ Len(answers) \in Nat
        BY <1>4, <2>1, ModifierFacts DEF CountsFit, AnswersFit, FoundOnce
      <4>6. c.offset > 0 \/ p = 1 => Len(answers) = 0
        BY <4>3
      <4> QED  BY <4>2, <4>4, <4>5, <4>6, AllCounted
    <3> QED  BY <3>1, <3>2
  <2>5. c'.facts_count # 0 => Cardinality(Past) = Len(answers) + Skipped - c.offset - (IF Passing THEN 1 ELSE 0)
    BY <1>3, <2>1 DEF CountsFit
  <2>6. /\ ~c.is_sorted /\ ~c.has_matches /\ ~call.collecting
        /\ c.limit = Allowed /\ c.result_count = Len(answers) /\ c.offset \in 0..Skipped
        /\ c.offset > 0 \/ Passing => answers = <<>>
        /\ ~call.skip => c.offset = 0
        /\ c.limit >= 0 => Len(answers) <= c.limit
        /\ c.limit < 0 \/ Len(answers) < c.limit
        /\ ended /\ c.locked = 1 => c.facts_count = 0 \/ c.limit = Len(answers)
    BY <2>1, <2>3 DEF CountsFit
  <2>7. c.facts_count = 0 => c'.facts_count = 0
    BY <1>3
  <2> QED  BY <1>1, <1>2, <1>7, <2>2, <2>3, <2>4, <2>5, <2>6, <2>7 DEF CountsFit
<1>9. ASSUME asked.mod.sort_var # NoVar PROVE CollectionFits' /\ ~(c.has_matches /\ ~call.collecting)'
  <2>1. CollectionFits
    BY <1>4, <1>9 DEF FullInv, PageInv
  <2>2. c.has_matches
    BY <2>1 DEF CollectionFits
  <2>3. call.collecting
    BY <1>4, <1>9, <2>2 DEF FullInv, PageInv, PageFits
  <2>4. pc' # "collect" /\ pc # "collect" /\ pc # "collected" /\ pc' # "collected" /\ pc' \in InCall \union {"collect", "collected"}
    BY DEF InCall
  <2>5. /\ c.error = 0 /\ ~starved /\ c.locked = 1 => Past = ToSet(c.sorted_matches)
        /\ ~c.is_sorted /\ c.limit = -1 /\ c.offset = 0 /\ call.limit = Allowed /\ call.offset = Skipped
        /\ ~Passing /\ answers = <<>> /\ c.sorted_pos = 0 /\ (c.error = 0 => ~ended)
    BY <2>1, <2>3, <2>4 DEF CollectionFits
  <2> QED  BY <1>1, <1>2, <1>3, <1>7, <2>2, <2>3, <2>4, <2>5 DEF CollectionFits, Kept
<1>10. c'.sort_var = c.sort_var
  BY <1>3 DEF Kept
<1> QED  BY <1>5, <1>8, <1>9, <1>10 DEF PageInv

\* A level that is begun: a step of the search like the others.
LEMMA BeginLevelSearch ==
    ASSUME SearchableQueries, QueryInv, BeginLevel PROVE SearchStep
<1>1. Kept /\ c'.facts_count = c.facts_count /\ Searching' /\ GoesOn' /\ Ahead' = Ahead
  BY BeginSearch
<1>2. pc = "level" /\ pc' = "level" /\ c.facts_count # 0 /\ ~c.is_sorted
  BY DEF BeginLevel, QueryInv, SearchInv
<1>3. SearchInv'
  BY <1>1, <1>2 DEF SearchInv, GoesOn, Kept
<1> QED  BY <1>1, <1>3 DEF SearchStep

\* What a step of the search needs of the rest of the state.
LEMMA SearchFrame ==
    ASSUME QueryInv, Resume \/ Enter \/ BeginLevel \/ Positive \/ NegatedLevel \/ Reached
    PROVE  /\ facts' = facts /\ interned' = interned /\ hexastore' = hexastore /\ asked' = asked /\ call' = call /\ answers' = answers
           /\ ended' = ended /\ starved' = starved
           /\ pc \in {"inner", "level"} /\ pc' \in {"level", "match", "nomatch"}
<1>1. CASE Resume
  BY <1>1 DEF Resume
<1>2. CASE Enter
  BY <1>2 DEF Enter
<1>3. CASE BeginLevel
  BY <1>3 DEF BeginLevel
<1>4. CASE Positive
  BY <1>4 DEF Positive, Deeper, Back
<1>5. CASE NegatedLevel
  BY <1>5 DEF NegatedLevel, Deeper, Back
<1>6. CASE Reached
  BY <1>6 DEF Reached
<1> QED  BY <1>1, <1>2, <1>3, <1>4, <1>5, <1>6

\* The steps of the search keep the pages as they are.
LEMMA SearchSteps ==
    ASSUME SearchableQueries, FullInv, Resume \/ Enter \/ BeginLevel \/ Positive \/ NegatedLevel \/ Reached
    PROVE  SpecInv' /\ SearchInv' /\ PageInv'
<1>1. QueryInv
  BY DEF FullInv
<1>2. SearchStep
  BY <1>1, ResumeSearch, EnterSearch, BeginLevelSearch, PositiveSearch, NegatedSearch, ReachedSearch
<1>3. /\ facts' = facts /\ interned' = interned /\ hexastore' = hexastore /\ asked' = asked /\ call' = call /\ answers' = answers
      /\ ended' = ended /\ starved' = starved
      /\ pc \in {"inner", "level"} /\ pc' \in {"level", "match", "nomatch"}
  BY <1>1, SearchFrame
<1>4. PageInv'
  BY <1>2, <1>3, SearchPages
<1>5. SpecInv'
  BY <1>1, <1>2, <1>3, UnmovedSpec DEF SearchStep, Kept, QueryInv
<1> QED  BY <1>2, <1>4, <1>5 DEF SearchStep

\* When a negated level finds no memory nothing more is promised but that what was
\* returned is right.
LEMMA StarvedPages ==
    ASSUME SearchableQueries, FullInv, NegatedStarved
    PROVE  SpecInv' /\ SearchInv' /\ PageInv'
<1>1. QueryInv
  BY DEF FullInv
<1>2. /\ facts' = facts /\ interned' = interned /\ hexastore' = hexastore /\ asked' = asked /\ call' = call /\ answers' = answers
      /\ ended' = ended /\ pc = "level" /\ pc' = "nomatch"
  BY DEF NegatedStarved
<1>3. Kept /\ c'.facts_count = 0 /\ SearchInv' /\ Ahead' = {} /\ starved'
  BY <1>1, StarvedSearch
<1>4. SpecInv'
  BY <1>1, <1>2, <1>3, UnmovedSpec DEF Kept, QueryInv
<1>5. AllAnswers' = AllAnswers /\ Skipped' = Skipped /\ Allowed' = Allowed
  BY <1>2, SameAnswers
<1>6. Past \subseteq Past'
  BY <1>3, <1>5 DEF Past
<1>7. AnswersFit /\ pc # "closed" /\ pc' # "closed"
  BY <1>2 DEF FullInv, PageInv
<1>8. AnswersFit'
  BY <1>2, <1>3, <1>6, <1>7, AnswersStay DEF Kept
<1>9. Passing' <=> Passing
  BY <1>2 DEF Passing
<1>10. ASSUME asked.mod.sort_var = NoVar PROVE CountsFit'
  <2>1. CountsFit
    BY <1>7, <1>10 DEF FullInv, PageInv
  <2>2. pc' \in InCall \ {"limit"} /\ pc \in InCall \ {"limit"}
    BY <1>2 DEF InCall
  <2>3. /\ ~c.is_sorted /\ ~c.has_matches /\ ~call.collecting
        /\ c.limit = Allowed /\ c.result_count = Len(answers) /\ c.offset \in 0..Skipped
        /\ c.offset > 0 \/ Passing => answers = <<>>
        /\ ~call.skip => c.offset = 0
        /\ c.limit >= 0 => Len(answers) <= c.limit
        /\ c.limit < 0 \/ Len(answers) < c.limit
    BY <1>2, <2>1, <2>2 DEF CountsFit
  <2> QED  BY <1>2, <1>3, <1>5, <1>9, <2>2, <2>3 DEF CountsFit, Kept
<1>11. ASSUME asked.mod.sort_var # NoVar PROVE CollectionFits' /\ ~(c.has_matches /\ ~call.collecting)'
  <2>1. CollectionFits
    BY <1>7, <1>11 DEF FullInv, PageInv
  <2>2. c.has_matches
    BY <1>2, <2>1 DEF CollectionFits
  <2>3. call.collecting
    BY <1>2, <1>7, <1>11, <2>2 DEF FullInv, PageInv, PageFits
  <2>4. pc' # "collect" /\ pc # "collect" /\ pc # "collected" /\ pc' # "collected" /\ pc' \in InCall \union {"collect", "collected"}
    BY <1>2 DEF InCall
  <2>5. /\ ~c.is_sorted /\ c.limit = -1 /\ c.offset = 0 /\ call.limit = Allowed /\ call.offset = Skipped
        /\ ~Passing /\ answers = <<>> /\ c.sorted_pos = 0 /\ (c.error = 0 => ~ended)
    BY <2>1, <2>3, <2>4 DEF CollectionFits
  <2> QED  BY <1>2, <1>3, <1>5, <1>9, <2>2, <2>3, <2>4, <2>5 DEF CollectionFits, Kept
<1>12. c'.sort_var = c.sort_var
  BY <1>3 DEF Kept
<1> QED  BY <1>2, <1>3, <1>4, <1>8, <1>10, <1>11, <1>12 DEF PageInv

\* The fields of a call.
LEMMA CallRecord ==
    ASSUME AnswersFit
    PROVE  /\ call = [f \in {"skip", "collecting", "limit", "offset"} |-> call[f]]
           /\ call.collecting \in BOOLEAN /\ call.skip \in BOOLEAN
<1>1. DOMAIN NoCall = {"skip", "collecting", "limit", "offset"}
  BY DEF NoCall
<1> QED  BY <1>1 DEF AnswersFit

\* Where a sorted query is between calls, and when it returns its matches.
LEMMA SortedPlace ==
    ASSUME PageInv, pc # "closed", asked.mod.sort_var # NoVar
    PROVE  /\ CollectionFits
           /\ pc \in {"ready", "page"} => ~call.collecting /\ c.is_sorted
           /\ pc \in InCall \union {"collect", "collected"} => call.collecting /\ c.has_matches /\ ~c.is_sorted
           /\ c.has_matches /\ ~call.collecting => PageFits
           /\ pc = "page" => c.has_matches
<1>1. CollectionFits /\ (c.has_matches /\ ~call.collecting => PageFits)
  BY DEF PageInv
<1>2. pc \in {"ready", "page"} => ~call.collecting
  BY <1>1 DEF CollectionFits, InCall
<1>3. pc \in {"ready", "page"} => c.is_sorted
  BY <1>1, <1>2 DEF CollectionFits, PageFits
<1>4. pc \in InCall \union {"collect", "collected"} => pc \notin {"ready", "page"}
  BY DEF InCall
<1>5. pc \in InCall \union {"collect", "collected"} => call.collecting /\ c.has_matches
  <2> SUFFICES ASSUME pc \in InCall \union {"collect", "collected"} PROVE call.collecting /\ c.has_matches
    OBVIOUS
  <2>1. c.has_matches
    BY <1>1, <1>4 DEF CollectionFits
  <2>2. call.collecting
    BY <1>1, <1>4, <2>1 DEF PageFits
  <2> QED  BY <2>1, <2>2
<1>6. pc \in InCall \union {"collect", "collected"} => ~c.is_sorted
  BY <1>1, <1>5 DEF CollectionFits
<1>7. pc = "page" => c.has_matches
  BY <1>1 DEF CollectionFits
<1> QED  BY <1>1, <1>2, <1>3, <1>5, <1>6, <1>7

\* What a step of the paging leaves as it is for the pages.
LEMMA Standing ==
    ASSUME FullInv, Unmoved, Ahead' = Ahead
    PROVE  /\ SpecInv' /\ AllAnswers' = AllAnswers /\ Skipped' = Skipped /\ Allowed' = Allowed /\ Past' = Past
           /\ LevelsOK /\ QueryInv /\ AnswersFit
<1>1. SpecInv'
  BY UnmovedSpec DEF FullInv, QueryInv, Unmoved
<1>2. AllAnswers' = AllAnswers /\ Skipped' = Skipped /\ Allowed' = Allowed
  BY SameAnswers DEF Unmoved
<1>3. Past' = Past
  BY <1>2, SamePast
<1> QED  BY <1>1, <1>2, <1>3 DEF FullInv, QueryInv, LockInv, PageInv

\* A call is made.
LEMMA CallPages ==
    ASSUME FullInv, CallNext PROVE SpecInv' /\ SearchInv' /\ PageInv'
<1>1. QueryInv /\ LevelsOK
  BY DEF FullInv, QueryInv, LockInv
<1>2. SearchInv' /\ Ahead' = Ahead
  BY <1>1, CallSearch
<1>3. /\ Unmoved /\ bindings' = bindings /\ answers' = answers /\ pc = "ready"
      /\ c'.result_count = c.result_count /\ c'.sorted_pos = c.sorted_pos
  BY <1>1, CallFields
<1>4. /\ SpecInv' /\ AllAnswers' = AllAnswers /\ Skipped' = Skipped /\ Allowed' = Allowed /\ Past' = Past
      /\ AnswersFit
  BY <1>2, <1>3, Standing
<1>5. /\ c'.facts_count = c.facts_count /\ c'.locked = c.locked /\ c'.sort_var = c.sort_var
      /\ c'.sort_desc = c.sort_desc /\ asked' = asked /\ starved' = starved
  BY <1>3 DEF Unmoved
<1>6. PageInv /\ pc # "closed"
  BY <1>3 DEF FullInv
<1>7. ~Passing
  BY <1>3 DEF Passing
<1>8. CASE ~c.is_sorted /\ pc' = "limit" /\ c' = c /\ call' = call /\ ended' = ended
  <2>1. AnswersFit'
    BY <1>3, <1>4, <1>5, <1>6, <1>8, AnswersStay
  <2>2. asked.mod.sort_var = NoVar
    BY <1>3, <1>6, <1>8, SortedPlace
  <2>3. CountsFit
    BY <1>6, <2>2 DEF PageInv
  <2>4. ~Passing' /\ pc' \in InCall
    BY <1>8 DEF Passing, InCall
  <2>5. CountsFit'
    BY <1>3, <1>4, <1>5, <1>7, <1>8, <2>3, <2>4 DEF CountsFit
  <2> QED  BY <1>2, <1>4, <1>5, <2>1, <2>2, <2>5 DEF PageInv
<1>9. CASE /\ c.is_sorted /\ ~c.has_matches /\ pc' = "limit" /\ ended' = ended
           /\ call' = [call EXCEPT !.collecting = TRUE, !.limit = c.limit, !.offset = c.offset]
           /\ c'.has_matches = TRUE /\ c'.sorted_matches = <<>> /\ c'.limit = -1 /\ c'.offset = 0
           /\ c'.is_sorted = FALSE /\ c'.error = c.error
  <2>1. asked.mod.sort_var # NoVar
    BY <1>6, <1>9 DEF PageInv, CountsFit
  <2>2. CollectionFits
    BY <1>6, <2>1 DEF PageInv
  <2>3. c.sorted_matches = <<>> /\ c.limit = Allowed /\ c.offset = Skipped /\ answers = <<>> /\ c.sorted_pos = 0 /\ (c.error = 0 => ~ended)
    BY <1>9, <2>2 DEF CollectionFits
  <2>4. /\ call' = [f \in {"skip", "collecting", "limit", "offset"} |-> call'[f]]
        /\ call'.collecting = TRUE /\ call'.skip = call.skip /\ call'.limit = c.limit /\ call'.offset = c.offset
    BY <1>4, <1>9, CallRecord
  <2>5. FoundOnce(answers)' /\ FoundOnce(c.sorted_matches)'
    BY <1>3, <1>4, <1>9, <2>3 DEF AnswersFit, FoundOnce
  <2>6. DOMAIN NoCall = {"skip", "collecting", "limit", "offset"}
    BY DEF NoCall
  <2>7. call'.skip \in BOOLEAN /\ pc' # "closed"
    BY <1>4, <1>9, <2>4, CallRecord
  <2>8. AnswersFit'
    BY <1>3, <1>4, <1>5, <1>6, <1>9, <2>3, <2>4, <2>5, <2>6, <2>7 DEF AnswersFit
  <2>9. ~Passing' /\ pc' \in InCall
    BY <1>9 DEF Passing, InCall
  <2>10. c.error = 0 /\ ~starved /\ c.locked = 1 => Past = ToSet(c.sorted_matches)
    BY <1>3, <2>2 DEF CollectionFits
  <2>11. CollectionFits'
    BY <1>3, <1>4, <1>5, <1>9, <2>3, <2>4, <2>9, <2>10 DEF CollectionFits
  <2> QED  BY <1>2, <1>4, <1>5, <2>1, <2>4, <2>8, <2>11 DEF PageInv
<1>10. CASE /\ c.is_sorted /\ ~c.has_matches /\ pc' = "ready" /\ ended' = TRUE /\ call' = call
            /\ c'.has_matches = c.has_matches /\ c'.sorted_matches = c.sorted_matches
            /\ c'.limit = c.limit /\ c'.offset = c.offset /\ c'.is_sorted = c.is_sorted /\ c'.error = -1
  <2>1. asked.mod.sort_var # NoVar
    BY <1>6, <1>10 DEF PageInv, CountsFit
  <2>2. CollectionFits
    BY <1>6, <2>1 DEF PageInv
  <2>3. /\ c.sorted_matches = <<>> /\ c.limit = Allowed /\ c.offset = Skipped /\ answers = <<>>
        /\ c.sorted_pos = 0 /\ ~call.collecting
    BY <1>10, <2>2 DEF CollectionFits
  <2>4. c'.error # 0
    BY <1>10
  <2>5. AnswersFit'
    BY <1>3, <1>4, <1>5, <1>6, <1>10, <2>4, AnswersStay
  <2>6. CollectionFits'
    BY <1>3, <1>4, <1>5, <1>10, <2>3, <2>4 DEF CollectionFits
  <2> QED  BY <1>2, <1>4, <1>5, <1>10, <2>1, <2>5, <2>6 DEF PageInv
<1>11. CASE c.is_sorted /\ c.has_matches /\ pc' = "page" /\ c' = c /\ call' = call /\ ended' = ended
  <2>1. asked.mod.sort_var # NoVar
    BY <1>6, <1>11 DEF PageInv, CountsFit
  <2>2. CollectionFits /\ ~call.collecting /\ PageFits
    BY <1>3, <1>6, <1>11, <2>1, SortedPlace
  <2>3. AnswersFit'
    BY <1>3, <1>4, <1>5, <1>6, <1>11, AnswersStay
  <2>4. CollectionFits'
    BY <1>3, <1>4, <1>5, <1>11, <2>2 DEF CollectionFits
  <2>5. PageFits'
    <3>1. InOrder(c.sorted_matches)' <=> InOrder(c.sorted_matches)
      BY <1>11 DEF InOrder, Before
    <3> QED  BY <1>3, <1>4, <1>11, <2>2, <3>1 DEF PageFits
  <2> QED  BY <1>2, <1>4, <1>5, <2>1, <2>3, <2>4, <2>5 DEF PageInv
<1> QED  BY <1>1, <1>8, <1>9, <1>10, <1>11, CallFields

\* A step that changes only the place of the call is no step of the search.
LEMMA PlaceUnmoved ==
    ASSUME c' = c, facts' = facts, interned' = interned, hexastore' = hexastore, asked' = asked, starved' = starved
    PROVE  Unmoved
BY DEF Unmoved

\* The limit is looked at.
LEMMA LimitPages ==
    ASSUME FullInv, Limit PROVE SpecInv' /\ SearchInv' /\ PageInv'
<1>1. QueryInv /\ PageInv
  BY DEF FullInv
<1>2. SearchInv' /\ Ahead' = Ahead
  BY <1>1, WaitingSearch
<1>3. /\ pc = "limit" /\ c' = c /\ call' = call /\ answers' = answers /\ asked' = asked /\ starved' = starved
      /\ facts' = facts /\ interned' = interned /\ hexastore' = hexastore /\ bindings' = bindings
      /\ IF c.limit >= 0 /\ c.result_count >= c.limit THEN pc' = "ready" /\ ended' = TRUE ELSE pc' = "offset" /\ ended' = ended
  BY DEF Limit, return0
<1>4. Unmoved
  BY <1>3, PlaceUnmoved
<1>5. /\ SpecInv' /\ AllAnswers' = AllAnswers /\ Skipped' = Skipped /\ Allowed' = Allowed /\ Past' = Past
      /\ AnswersFit
  BY <1>2, <1>4, Standing
<1>6. pc # "closed" /\ pc' # "closed" /\ pc' # "collect" /\ pc' # "collected"
  BY <1>3
<1>7. AnswersFit'
  BY <1>3, <1>5, <1>6, AnswersStay
<1>8. ~Passing /\ ~Passing' /\ pc \in InCall
  BY <1>3 DEF Passing, InCall
<1>9. ASSUME asked.mod.sort_var = NoVar PROVE CountsFit'
  <2>1. CountsFit
    BY <1>1, <1>6, <1>9 DEF PageInv
  <2>2. c.limit \in Int /\ c.limit = Allowed /\ c.result_count = Len(answers) /\ Len(answers) \in Nat
        /\ (c.limit >= 0 => Len(answers) <= c.limit)
    BY <1>5, <1>6, <2>1, ModifierFacts DEF CountsFit, AnswersFit, FoundOnce
  <2>3. pc' = "ready" => c.limit = Len(answers)
    BY <1>3, <2>2
  <2>4. pc' # "ready" => pc' = "offset" /\ (c.limit < 0 \/ Len(answers) < c.limit) /\ ended' = ended
    BY <1>3, <2>2
  <2>5. pc' \in InCall \union {"ready"}
    BY <1>3 DEF InCall
  <2>6. "ready" \notin InCall
    BY DEF InCall
  <2> QED  BY <1>3, <1>5, <1>8, <2>1, <2>3, <2>4, <2>5, <2>6 DEF CountsFit
<1>10. ASSUME asked.mod.sort_var # NoVar PROVE CollectionFits' /\ call'.collecting
  <2>1. CollectionFits /\ call.collecting /\ c.has_matches /\ ~c.is_sorted
    BY <1>1, <1>6, <1>8, <1>10, SortedPlace
  <2>2. c.limit = -1
    BY <2>1 DEF CollectionFits
  <2>3. pc' = "offset" /\ ended' = ended
    BY <1>3, <2>2
  <2>4. pc' \in InCall \union {"collect", "collected"}
    BY <2>3 DEF InCall
  <2> QED  BY <1>3, <1>5, <1>8, <2>1, <2>3, <2>4 DEF CollectionFits
<1> QED  BY <1>2, <1>3, <1>5, <1>7, <1>9, <1>10 DEF PageInv

\* One more match to skip, or none.
LEMMA OffsetPages ==
    ASSUME FullInv, Offset PROVE SpecInv' /\ SearchInv' /\ PageInv'
<1>1. QueryInv /\ PageInv /\ LevelsOK
  BY DEF FullInv, QueryInv, LockInv
<1>2. SearchInv' /\ Ahead' = Ahead
  BY <1>1, WaitingSearch
<1>3. /\ Unmoved /\ bindings' = bindings /\ answers' = answers /\ ended' = ended
      /\ pc = "offset" /\ pc' = "inner"
      /\ call' = [call EXCEPT !.skip = c.offset > 0]
      /\ c'.offset = (IF c.offset > 0 THEN c.offset - 1 ELSE c.offset)
      /\ c'.limit = c.limit /\ c'.result_count = c.result_count /\ c'.error = c.error
      /\ c'.is_sorted = c.is_sorted /\ c'.has_matches = c.has_matches
      /\ c'.sorted_matches = c.sorted_matches /\ c'.sorted_pos = c.sorted_pos
  BY <1>1, OffsetFields
<1>4. /\ SpecInv' /\ AllAnswers' = AllAnswers /\ Skipped' = Skipped /\ Allowed' = Allowed /\ Past' = Past
      /\ AnswersFit
  BY <1>2, <1>3, Standing
<1>5. /\ c'.facts_count = c.facts_count /\ c'.locked = c.locked /\ c'.sort_var = c.sort_var
      /\ c'.sort_desc = c.sort_desc /\ asked' = asked /\ starved' = starved
  BY <1>3 DEF Unmoved
<1>6. /\ call' = [f \in {"skip", "collecting", "limit", "offset"} |-> call'[f]]
      /\ call'.collecting = call.collecting /\ (call'.skip <=> c.offset > 0) /\ call'.skip \in BOOLEAN
      /\ call'.limit = call.limit /\ call'.offset = call.offset
  <2> DEFINE skip == c.offset > 0
  <2>1. call' = [call EXCEPT !.skip = skip] /\ skip \in BOOLEAN
    BY <1>3
  <2>2. skip <=> c.offset > 0
    OBVIOUS
  <2> HIDE DEF skip
  <2>3. /\ call' = [f \in {"skip", "collecting", "limit", "offset"} |-> call'[f]]
        /\ call'.collecting = call.collecting /\ call'.limit = call.limit /\ call'.offset = call.offset
    BY <1>4, <2>1, CallRecord
  <2>4. call'.skip = skip
    BY <1>4, <2>1, CallRecord
  <2> QED  BY <2>1, <2>2, <2>3, <2>4
<1>7. AnswersFit'
  <2>1. DOMAIN NoCall = {"skip", "collecting", "limit", "offset"}
    BY DEF NoCall
  <2>2. FoundOnce(answers)' /\ FoundOnce(c.sorted_matches)'
    BY <1>3, <1>4 DEF AnswersFit, FoundOnce
  <2> QED  BY <1>3, <1>4, <1>5, <1>6, <2>1, <2>2 DEF AnswersFit
<1>8. ~Passing /\ (Passing' <=> c.offset > 0) /\ pc \in InCall \ {"limit"} /\ pc' \in InCall \ {"limit"}
  BY <1>3, <1>6 DEF Passing, InCall
<1>9. ASSUME asked.mod.sort_var = NoVar PROVE CountsFit'
  <2>1. CountsFit
    BY <1>1, <1>3, <1>9 DEF PageInv
  <2>2. c.offset \in 0..Skipped /\ Skipped \in Nat /\ Len(answers) \in Nat
    BY <1>3, <1>4, <2>1, ModifierFacts DEF CountsFit, AnswersFit, FoundOnce
  <2>3. c'.offset \in 0..Skipped /\ (c'.offset > 0 => c.offset > 0) /\ (~(c.offset > 0) => c'.offset = 0)
    BY <1>3, <2>2
  <2>4. c.facts_count # 0 => Cardinality(Past) = Len(answers) + Skipped - c.offset
    <3> SUFFICES ASSUME c.facts_count # 0 PROVE Cardinality(Past) = Len(answers) + Skipped - c.offset
      OBVIOUS
    <3>1. Cardinality(Past) = Len(answers) + Skipped - c.offset - (IF Passing THEN 1 ELSE 0)
      BY <2>1 DEF CountsFit
    <3>2. Cardinality(Past) = Len(answers) + Skipped - c.offset - 0
      BY <1>8, <3>1
    <3> QED  BY <2>2, <3>2
  <2>5. c.facts_count # 0 => Cardinality(Past) = Len(answers) + Skipped - c'.offset - (IF Passing' THEN 1 ELSE 0)
    BY <1>3, <1>8, <2>2, <2>4
  <2>6. /\ ~c.is_sorted /\ ~c.has_matches /\ ~call.collecting
        /\ c.limit = Allowed /\ c.result_count = Len(answers)
        /\ c.offset > 0 => answers = <<>>
        /\ c.limit >= 0 => Len(answers) <= c.limit
        /\ c.limit < 0 \/ Len(answers) < c.limit
        /\ ended /\ c.locked = 1 => c.facts_count = 0 \/ c.limit = Len(answers)
        /\ c.facts_count = 0 /\ c.locked = 1 /\ ~starved =>
              Len(answers) = IF Cardinality(AllAnswers) <= Skipped THEN 0 ELSE Cardinality(AllAnswers) - Skipped
    BY <1>8, <2>1 DEF CountsFit
  <2> QED  BY <1>3, <1>4, <1>5, <1>6, <1>8, <2>3, <2>5, <2>6 DEF CountsFit
<1>10. ASSUME asked.mod.sort_var # NoVar PROVE CollectionFits' /\ call'.collecting
  <2>1. CollectionFits /\ call.collecting /\ c.has_matches /\ ~c.is_sorted
    BY <1>1, <1>3, <1>8, <1>10, SortedPlace
  <2>2. c.offset = 0
    BY <2>1 DEF CollectionFits
  <2>3. c'.offset = 0 /\ ~Passing'
    BY <1>3, <1>8, <2>2
  <2>4. pc' # "collect" /\ pc' # "collected" /\ pc # "collect" /\ pc' # "ready"
    BY <1>3
  <2> QED  BY <1>3, <1>4, <1>5, <1>6, <1>8, <2>1, <2>3, <2>4 DEF CollectionFits
<1> QED  BY <1>2, <1>4, <1>5, <1>7, <1>9, <1>10 DEF PageInv

\* The search finds no match any more.
LEMMA NoMatchPages ==
    ASSUME FullInv, NoMatch PROVE SpecInv' /\ SearchInv' /\ PageInv'
<1>1. QueryInv /\ PageInv
  BY DEF FullInv
<1>2. SearchInv' /\ Ahead' = Ahead
  BY <1>1, WaitingSearch
<1>3. /\ pc = "nomatch" /\ c' = c /\ call' = call /\ answers' = answers /\ asked' = asked /\ starved' = starved
      /\ facts' = facts /\ interned' = interned /\ hexastore' = hexastore /\ bindings' = bindings
      /\ IF call.collecting THEN pc' = "collected" /\ ended' = ended ELSE pc' = "ready" /\ ended' = TRUE
  BY DEF NoMatch, return0
<1>4. Unmoved
  BY <1>3, PlaceUnmoved
<1>5. /\ SpecInv' /\ AllAnswers' = AllAnswers /\ Skipped' = Skipped /\ Allowed' = Allowed /\ Past' = Past
      /\ AnswersFit
  BY <1>2, <1>4, Standing
<1>6. pc # "closed" /\ pc' # "closed" /\ pc' # "collect"
  BY <1>3
<1>7. AnswersFit'
  BY <1>3, <1>5, <1>6, AnswersStay
<1>8. ~Passing' /\ pc \in InCall \ {"limit"} /\ pc' \notin InCall
  BY <1>3 DEF Passing, InCall
<1>9. c.facts_count = 0
  BY <1>1, <1>3 DEF QueryInv, SearchInv
<1>10. ASSUME asked.mod.sort_var = NoVar PROVE CountsFit'
  <2>1. CountsFit
    BY <1>1, <1>6, <1>10 DEF PageInv
  <2>2. pc' = "ready"
    BY <1>3, <2>1 DEF CountsFit
  <2> QED  BY <1>3, <1>5, <1>8, <1>9, <2>1, <2>2 DEF CountsFit
<1>11. ASSUME asked.mod.sort_var # NoVar PROVE CollectionFits' /\ call'.collecting
  <2>1. CollectionFits /\ call.collecting /\ c.has_matches /\ ~c.is_sorted
    BY <1>1, <1>6, <1>8, <1>11, SortedPlace
  <2>2. pc' = "collected" /\ ended' = ended
    BY <1>3, <2>1
  <2> QED  BY <1>3, <1>5, <1>8, <1>9, <2>1, <2>2 DEF CollectionFits
<1> QED  BY <1>2, <1>3, <1>5, <1>7, <1>10, <1>11 DEF PageInv

\* A match is skipped, returned or kept for the order.
LEMMA MatchPages ==
    ASSUME SearchableQueries, FullInv, Match PROVE SpecInv' /\ SearchInv' /\ PageInv'
<1>1. QueryInv /\ PageInv /\ LevelsOK /\ AnswersFit
  BY DEF FullInv, QueryInv, LockInv, PageInv
<1>2. /\ SearchInv' /\ AllAnswers' = AllAnswers /\ bindings \in AllAnswers
      /\ bindings \in Ahead /\ Ahead' = Ahead \ {bindings}
  BY <1>1, MatchSearch
<1>3. /\ Unmoved /\ bindings' = bindings /\ ended' = ended /\ pc = "match" /\ call' = call
      /\ c'.limit = c.limit /\ c'.offset = c.offset /\ c'.error = c.error
      /\ c'.is_sorted = c.is_sorted /\ c'.has_matches = c.has_matches
      /\ c'.sorted_matches = c.sorted_matches /\ c'.sorted_pos = c.sorted_pos
      /\ \/ /\ call.skip /\ pc' = "offset" /\ answers' = answers /\ c'.result_count = c.result_count
         \/ /\ ~call.skip /\ c'.result_count = c.result_count + 1
            /\ \/ call.collecting /\ pc' = "collect" /\ answers' = answers
               \/ ~call.collecting /\ pc' = "ready" /\ answers' = Append(answers, bindings)
  BY <1>1, MatchFields
<1>4. /\ c'.facts_count = c.facts_count /\ c'.locked = c.locked /\ c'.sort_var = c.sort_var
      /\ c'.sort_desc = c.sort_desc /\ asked' = asked /\ starved' = starved
  BY <1>3 DEF Unmoved
<1>5. Skipped' = Skipped /\ Allowed' = Allowed
  BY <1>3, SameAnswers DEF Unmoved
<1>6. SpecInv'
  BY <1>1, <1>3, UnmovedSpec DEF QueryInv, Unmoved
<1>7. /\ Past' = Past \union {bindings} /\ bindings \notin Past
      /\ Cardinality(Past') = Cardinality(Past) + 1 /\ Cardinality(Past) \in Nat
  BY <1>2, MatchPast
<1>8. c.facts_count # 0 /\ c.locked = 1
  BY <1>1, <1>3 DEF QueryInv, SearchInv, SpecInv
<1>9. pc # "closed" /\ pc' # "closed" /\ (Passing <=> call.skip) /\ ~Passing' /\ pc \in InCall \ {"limit"}
  BY <1>3 DEF Passing, InCall
<1>10. FoundOnce(answers) /\ FoundOnce(c.sorted_matches) /\ Past \subseteq Past'
  BY <1>1, <1>7 DEF AnswersFit
<1>11. ASSUME asked.mod.sort_var = NoVar PROVE AnswersFit' /\ CountsFit'
  <2>1. CountsFit
    BY <1>1, <1>9, <1>11 DEF PageInv
  <2>2. /\ c.limit = Allowed /\ c.result_count = Len(answers) /\ c.offset \in 0..Skipped
        /\ ~c.is_sorted /\ ~c.has_matches /\ ~call.collecting
        /\ c.limit >= 0 => Len(answers) <= c.limit
        /\ c.limit < 0 \/ Len(answers) < c.limit
        /\ ~call.skip => c.offset = 0
        /\ ended => c.limit = Len(answers)
    BY <1>3, <1>8, <1>9, <2>1 DEF CountsFit
  <2>3. Cardinality(Past) = Len(answers) + Skipped - c.offset - (IF Passing THEN 1 ELSE 0)
    BY <1>8, <2>1 DEF CountsFit
  <2>4. Skipped \in Nat /\ Allowed \in Int /\ Len(answers) \in Nat
    BY <1>1, <1>9, <1>10, ModifierFacts DEF FoundOnce
  <2>5. ~ended
    BY <2>2, <2>4
  <2>6. CASE call.skip
    <3>1. pc' = "offset" /\ answers' = answers /\ c'.result_count = c.result_count
      BY <1>3, <2>6
    <3>2. AnswersFit'
      BY <1>1, <1>3, <1>4, <1>9, <1>10, <3>1, AnswersStay
    <3>3. Cardinality(Past) = Len(answers) + Skipped - c.offset - 1
      BY <1>9, <2>3, <2>6
    <3>4. Cardinality(Past') = Len(answers) + Skipped - c.offset - 0
      BY <1>7, <2>2, <2>4, <3>3
    <3>5. pc' \in InCall \ {"limit"}
      BY <3>1 DEF InCall
    <3>6. answers = <<>>
      BY <1>9, <2>1, <2>6 DEF CountsFit
    <3>7. Cardinality(Past') = Len(answers') + Skipped' - c'.offset - (IF Passing' THEN 1 ELSE 0)
      BY <1>3, <1>5, <1>9, <3>1, <3>4
    <3> QED  BY <1>3, <1>4, <1>5, <1>8, <1>9, <2>2, <2>5, <3>1, <3>2, <3>5, <3>6, <3>7 DEF CountsFit
  <2>7. CASE ~call.skip
    <3>1. pc' = "ready" /\ answers' = Append(answers, bindings) /\ c'.result_count = c.result_count + 1
      BY <1>3, <2>2, <2>7
    <3>2. /\ Len(answers') = Len(answers) + 1
          /\ answers' \in Seq([Var -> Symbols \union {NULL}]) /\ ToSet(answers') = ToSet(answers) \union {bindings}
          /\ Distinct(answers')
      <4>1. bindings \in [Var -> Symbols \union {NULL}]
        BY <1>2 DEF AllAnswers
      <4>2. answers \in Seq([Var -> Symbols \union {NULL}]) /\ Distinct(answers) /\ bindings \notin ToSet(answers)
        BY <1>7, <1>10 DEF FoundOnce
      <4> QED  BY <3>1, <4>1, <4>2, AppendFacts
    <3>3. FoundOnce(answers)' /\ FoundOnce(c.sorted_matches)'
      BY <1>3, <1>7, <1>10, <3>2 DEF FoundOnce, Distinct
    <3>4. AnswersFit'
      BY <1>1, <1>3, <1>4, <1>8, <1>9, <3>3 DEF AnswersFit
    <3>5. Cardinality(Past) = Len(answers) + Skipped - c.offset - 0
      BY <1>9, <2>3, <2>7
    <3>6. Cardinality(Past') = Len(answers) + 1 + Skipped - c.offset - 0
      BY <1>7, <2>2, <2>4, <3>5
    <3>7. Cardinality(Past') = Len(answers') + Skipped' - c'.offset - (IF Passing' THEN 1 ELSE 0)
      BY <1>3, <1>5, <1>9, <3>2, <3>6
    <3>8. c'.offset = 0 /\ c'.result_count = Len(answers') /\ (c'.limit >= 0 => Len(answers') <= c'.limit)
      BY <1>3, <2>2, <2>4, <2>7, <3>1, <3>2
    <3>9. pc' \notin InCall /\ pc' \in InCall \union {"ready"}
      BY <3>1 DEF InCall
    <3>10. c'.offset \in 0..Skipped /\ ~(c'.offset > 0)
      BY <1>3, <2>2, <3>8
    <3> QED  BY <1>3, <1>4, <1>5, <1>8, <1>9, <2>2, <2>5, <3>1, <3>4, <3>7, <3>8, <3>9, <3>10 DEF CountsFit
  <2> QED  BY <2>6, <2>7
<1>12. ASSUME asked.mod.sort_var # NoVar PROVE AnswersFit' /\ CollectionFits' /\ call'.collecting
  <2>1. CollectionFits /\ call.collecting /\ c.has_matches /\ ~c.is_sorted
    BY <1>1, <1>9, <1>12, SortedPlace
  <2>2. ~call.skip
    BY <1>9, <2>1 DEF CollectionFits
  <2>3. pc' = "collect" /\ answers' = answers
    BY <1>3, <2>1, <2>2
  <2>4. AnswersFit'
    BY <1>1, <1>3, <1>4, <1>9, <1>10, <2>3, AnswersStay
  <2>5. bindings \notin ToSet(c.sorted_matches)
    BY <1>7, <1>10 DEF FoundOnce
  <2>6. pc' \in InCall \union {"collect", "collected"}
    BY <2>3
  <2>7. c.error = 0 /\ ~starved /\ c.locked = 1 => Past = ToSet(c.sorted_matches)
    BY <1>3, <2>1 DEF CollectionFits
  <2> QED  BY <1>3, <1>4, <1>5, <1>7, <1>8, <1>9, <2>1, <2>3, <2>4, <2>5, <2>6, <2>7 DEF CollectionFits
<1> QED  BY <1>2, <1>4, <1>6, <1>11, <1>12 DEF PageInv

\* A match is kept, or there is no memory for it.
LEMMA CollectPages ==
    ASSUME FullInv, Collect PROVE SpecInv' /\ SearchInv' /\ PageInv'
<1>1. QueryInv /\ PageInv /\ LevelsOK
  BY DEF FullInv, QueryInv, LockInv
<1>2. SearchInv' /\ Ahead' = Ahead
  BY <1>1, WaitingSearch
<1>3. /\ Unmoved /\ bindings' = bindings /\ answers' = answers /\ ended' = ended /\ pc = "collect" /\ call' = call
      /\ c'.limit = c.limit /\ c'.offset = c.offset /\ c'.result_count = c.result_count
      /\ c'.is_sorted = c.is_sorted /\ c'.has_matches = c.has_matches /\ c'.sorted_pos = c.sorted_pos
      /\ \/ pc' = "limit" /\ c'.sorted_matches = Append(c.sorted_matches, bindings) /\ c'.error = c.error
         \/ pc' = "collected" /\ c'.sorted_matches = c.sorted_matches /\ c'.error = -1
  BY <1>1, CollectFields
<1>4. /\ SpecInv' /\ AllAnswers' = AllAnswers /\ Skipped' = Skipped /\ Allowed' = Allowed /\ Past' = Past
      /\ AnswersFit
  BY <1>2, <1>3, Standing
<1>5. /\ c'.facts_count = c.facts_count /\ c'.locked = c.locked /\ c'.sort_var = c.sort_var
      /\ c'.sort_desc = c.sort_desc /\ asked' = asked /\ starved' = starved
  BY <1>3 DEF Unmoved
<1>6. pc # "closed" /\ pc' # "closed" /\ pc' # "collect" /\ pc' # "ready" /\ ~Passing'
  BY <1>3 DEF Passing
<1>7. asked.mod.sort_var # NoVar
  BY <1>1, <1>3, <1>6 DEF PageInv, CountsFit, InCall
<1>8. CollectionFits /\ call.collecting /\ c.has_matches /\ ~c.is_sorted
  BY <1>1, <1>3, <1>6, <1>7, SortedPlace
<1>9. /\ c.facts_count # 0 /\ bindings \in Past /\ bindings \notin ToSet(c.sorted_matches)
      /\ (c.error = 0 /\ ~starved /\ c.locked = 1 => Past = ToSet(c.sorted_matches) \union {bindings})
      /\ c.limit = -1 /\ c.offset = 0 /\ call.limit = Allowed /\ call.offset = Skipped
      /\ answers = <<>> /\ c.sorted_pos = 0 /\ (c.error = 0 => ~ended)
  BY <1>3, <1>8 DEF CollectionFits
<1>10. c.locked = 1
  BY <1>1, <1>9 DEF QueryInv, SpecInv
<1>11. pc' \in InCall \union {"collect", "collected"}
  BY <1>3 DEF InCall
<1>12. CASE pc' = "limit" /\ c'.sorted_matches = Append(c.sorted_matches, bindings) /\ c'.error = c.error
  <2>1. /\ c'.sorted_matches \in Seq([Var -> Symbols \union {NULL}])
        /\ ToSet(c'.sorted_matches) = ToSet(c.sorted_matches) \union {bindings}
        /\ Distinct(c'.sorted_matches)
    <3>1. bindings \in [Var -> Symbols \union {NULL}]
      BY <1>9 DEF Past, AllAnswers
    <3>2. c.sorted_matches \in Seq([Var -> Symbols \union {NULL}]) /\ Distinct(c.sorted_matches)
      BY <1>4 DEF AnswersFit, FoundOnce
    <3> QED  BY <1>9, <1>12, <3>1, <3>2, AppendFacts
  <2>2. FoundOnce(answers)' /\ FoundOnce(c.sorted_matches)'
    BY <1>3, <1>4, <1>9, <2>1 DEF AnswersFit, FoundOnce, Distinct
  <2>3. AnswersFit'
    BY <1>3, <1>4, <1>5, <1>6, <1>10, <2>2 DEF AnswersFit
  <2>4. CollectionFits'
    BY <1>3, <1>4, <1>5, <1>6, <1>8, <1>9, <1>11, <1>12, <2>1 DEF CollectionFits
  <2> QED  BY <1>2, <1>3, <1>4, <1>5, <1>7, <1>8, <2>3, <2>4 DEF PageInv
<1>13. CASE pc' = "collected" /\ c'.sorted_matches = c.sorted_matches /\ c'.error = -1
  <2>1. c'.error # 0
    BY <1>13
  <2>2. AnswersFit'
    BY <1>3, <1>4, <1>5, <1>6, <1>13, <2>1, AnswersStay
  <2>3. CollectionFits'
    BY <1>3, <1>4, <1>5, <1>6, <1>8, <1>9, <1>11, <2>1 DEF CollectionFits
  <2> QED  BY <1>2, <1>3, <1>4, <1>5, <1>7, <1>8, <2>2, <2>3 DEF PageInv
<1> QED  BY <1>3, <1>12, <1>13

\* A list that is sorted has the same matches.
LEMMA SortedFacts ==
    ASSUME NEW a \in Seq(Rows), NEW r, SameThings(r, a, Len(a))
    PROVE  /\ r \in Seq(Rows) /\ Len(r) = Len(a) /\ ToSet(r) = ToSet(a)
           /\ Distinct(a) => Distinct(r)
           /\ TailInOrder(r, 1, Len(a)) => InOrder(r)
<1> DEFINE N == Len(a)
<1>1. N \in Nat /\ DOMAIN a = 1..N /\ \A k \in 1..N : a[k] \in Rows
  OBVIOUS
<1>2. SameThings(r, a, N)
  OBVIOUS
<1> HIDE DEF N
<1>3. Listed(r, N) /\ \A k \in 1..N : r[k] \in Rows
  BY <1>1, <1>2, RowsKept
<1>4. r \in Seq(Rows) /\ Len(r) = N /\ DOMAIN r = 1..N
  BY <1>1, <1>3, SequenceLength DEF Listed
<1>5. ToSet(r) = ToSet(a)
  <2>1. ToSet(r) = {r[k] : k \in 1..N} /\ ToSet(a) = {a[k] : k \in 1..N}
    BY <1>1, <1>4 DEF ToSet
  <2>2. \A k \in 1..N : (\E j \in 1..N : r[k] = a[j]) /\ (\E j \in 1..N : a[k] = r[j])
    BY <1>2 DEF SameThings
  <2>3. {r[k] : k \in 1..N} = {a[k] : k \in 1..N}
    <3> SUFFICES ASSUME NEW x PROVE (\E k \in 1..N : x = r[k]) <=> (\E k \in 1..N : x = a[k])
      OBVIOUS
    <3>1. ASSUME NEW k \in 1..N, x = r[k] PROVE \E j \in 1..N : x = a[j]
      BY <2>2, <3>1
    <3>2. ASSUME NEW k \in 1..N, x = a[k] PROVE \E j \in 1..N : x = r[j]
      BY <2>2, <3>2
    <3> QED  BY <3>1, <3>2
  <2> QED  BY <2>1, <2>3
<1>6. Distinct(a) => Distinct(r)
  BY <1>1, <1>2, <1>4 DEF SameThings, Distinct
<1>7. TailInOrder(r, 1, N) => InOrder(r)
  <2> SUFFICES ASSUME TailInOrder(r, 1, N), NEW m \in 1..N, NEW n \in 1..N, m < n PROVE ~Before(r[n], r[m])
    BY <1>4 DEF InOrder
  <2>1. n > 1
    BY <1>1
  <2> QED  BY <2>1 DEF TailInOrder
<1> QED  BY <1>4, <1>5, <1>6, <1>7 DEF N

\* heapsort_matches returns the matches it was given, every one as often, in the
\* order of compare_matches: for every number of matches, whichever have equal texts
\* or a variable that is unset.
THEOREM HeapSortHolds ==
    ASSUME c.sort_var \in Var, NEW a \in Seq(Rows), NEW result, result = heapsort_matches(a)
    PROVE  /\ result \in Seq(Rows) /\ Len(result) = Len(a) /\ ToSet(result) = ToSet(a)
           /\ Distinct(a) => Distinct(result)
           /\ InOrder(result)
<1>1. SameThings(result, a, Len(a)) /\ TailInOrder(result, 1, Len(a))
  BY HeapSorted
<1> QED  BY <1>1, SortedFacts

\* The collection is complete: the matches are sorted and paging begins.
LEMMA CollectedPages ==
    ASSUME FullInv, Collected PROVE SpecInv' /\ SearchInv' /\ PageInv'
<1>1. QueryInv /\ PageInv /\ LevelsOK /\ AnswersFit
  BY DEF FullInv, QueryInv, LockInv, PageInv
<1>2. /\ Unmoved /\ bindings' = bindings /\ answers' = answers /\ pc = "collected" /\ call' = NoCall
      /\ c'.limit = call.limit /\ c'.offset = call.offset /\ c'.result_count = 0
      /\ c'.is_sorted = TRUE /\ c'.has_matches = c.has_matches /\ c'.sorted_pos = c.sorted_pos
      /\ c'.error = c.error
      /\ c'.sorted_matches = IF c.error = 0 /\ c.sort_var \in Var THEN heapsort_matches(c.sorted_matches) ELSE c.sorted_matches
      /\ IF c.error # 0 THEN pc' = "ready" /\ ended' = TRUE ELSE pc' = "page" /\ ended' = ended
  BY <1>1, CollectedFields
<1>3. asked.mod.sort_var # NoVar
  BY <1>1, <1>2 DEF PageInv, CountsFit, InCall
<1>4. CollectionFits /\ call.collecting /\ c.has_matches /\ ~c.is_sorted
  BY <1>1, <1>2, <1>3, SortedPlace
<1>5. SearchInv' /\ Ahead' = {} /\ AllAnswers' = AllAnswers
  BY <1>1, <1>4, CollectedSearch
<1>6. /\ c'.facts_count = c.facts_count /\ c'.locked = c.locked /\ c'.sort_var = c.sort_var
      /\ c'.sort_desc = c.sort_desc /\ asked' = asked /\ starved' = starved
  BY <1>2 DEF Unmoved
<1>7. SpecInv'
  BY <1>1, <1>2, UnmovedSpec DEF QueryInv, Unmoved
<1>8. Skipped' = Skipped /\ Allowed' = Allowed
  BY <1>2, SameAnswers DEF Unmoved
<1>9. Past' = AllAnswers /\ Past \subseteq Past'
  BY <1>5 DEF Past
<1>10. pc' \in {"ready", "page"}
  BY <1>2
<1>11. /\ call.limit = Allowed /\ call.offset = Skipped /\ answers = <<>> /\ c.sorted_pos = 0
       /\ (c.error = 0 => ~ended) /\ (c.error = 0 => c.facts_count = 0)
       /\ c.error = 0 /\ ~starved /\ c.locked = 1 => Past = ToSet(c.sorted_matches)
  BY <1>2, <1>4 DEF CollectionFits
<1>12. c.error = 0 => Past' = Past
  <2> SUFFICES ASSUME c.error = 0 PROVE Past' = Past
    OBVIOUS
  <2>1. ~c.is_sorted /\ c.facts_count = 0
    BY <1>4, <1>11
  <2>2. Ahead = {}
    BY <2>1 DEF Ahead, Searching
  <2> QED  BY <1>9, <2>2 DEF Past
<1>13. c.sorted_matches \in Seq(Rows) /\ Distinct(c.sorted_matches) /\ ToSet(c.sorted_matches) \subseteq Past
  BY <1>1 DEF AnswersFit, FoundOnce, Rows, Values
<1>14. /\ c'.sorted_matches \in Seq(Rows) /\ Distinct(c'.sorted_matches)
       /\ ToSet(c'.sorted_matches) = ToSet(c.sorted_matches)
       /\ c.error = 0 /\ c.sort_var \in Var => InOrder(c'.sorted_matches)
  <2>1. CASE c.error = 0 /\ c.sort_var \in Var
    <3>1. c'.sorted_matches = heapsort_matches(c.sorted_matches)
      BY <1>2, <2>1
    <3>2. PICK a \in Seq(Rows) : a = c.sorted_matches
      BY <1>13
    <3>3. PICK r : r = c'.sorted_matches
      OBVIOUS
    <3>4. r = heapsort_matches(a)
      BY <3>1, <3>2, <3>3
    <3>5. r \in Seq(Rows) /\ ToSet(r) = ToSet(a) /\ (Distinct(a) => Distinct(r)) /\ InOrder(r)
      BY <2>1, <3>4, HeapSortHolds
    <3> QED  BY <1>13, <3>2, <3>3, <3>5
  <2>2. CASE ~(c.error = 0 /\ c.sort_var \in Var)
    <3>1. c'.sorted_matches = c.sorted_matches
      BY <1>2, <2>2
    <3> QED  BY <1>13, <2>2, <3>1
  <2> QED  BY <2>1, <2>2
<1>15. FoundOnce(answers)' /\ FoundOnce(c.sorted_matches)'
  <2>1. FoundOnce(answers)
    BY <1>1 DEF AnswersFit
  <2> QED  BY <1>2, <1>9, <1>13, <1>14, <2>1 DEF FoundOnce, Rows, Values, Distinct
<1>16. AnswersFit'
  <2>1. /\ call' = [f \in DOMAIN NoCall |-> call'[f]] /\ call'.collecting = FALSE /\ call'.skip = FALSE
    BY <1>2 DEF NoCall
  <2>2. c.locked = 0 => c.error # 0
    BY <1>1, <1>2 DEF AnswersFit
  <2>3. c.locked = 0 => c'.sorted_matches = c.sorted_matches
    BY <1>2, <2>2
  <2> QED  BY <1>1, <1>2, <1>6, <1>10, <1>15, <2>1, <2>2, <2>3 DEF AnswersFit
<1>17. ~call'.collecting
  BY <1>2 DEF NoCall
<1>18. CollectionFits'
  BY <1>2, <1>4, <1>6, <1>8, <1>10, <1>11, <1>12, <1>14, <1>17 DEF CollectionFits
<1>19. PageFits'
  <2>1. Skipped \in Nat /\ Allowed \in Int
    BY <1>1, <1>2, ModifierFacts
  <2>2. c'.error = 0 /\ c'.sort_var \in Var => InOrder(c.sorted_matches)'
    BY <1>2, <1>6, <1>14 DEF InOrder, Before
  <2>3. Len(answers) = 0 /\ answers' = answers
    BY <1>2, <1>11
  <2>4. \A n \in 1..0 : FALSE
    OBVIOUS
  <2>5. ended' => c'.error # 0
    BY <1>2, <1>11
  <2>6. c'.limit = Allowed' /\ c'.result_count = 0 /\ c'.offset = Skipped' /\ c'.offset \in Nat /\ c'.sorted_pos = 0 /\ c'.is_sorted
        /\ (c'.limit >= 0 => 0 <= c'.limit)
    BY <1>2, <1>8, <1>11, <2>1
  <2> QED  BY <1>10, <2>2, <2>3, <2>4, <2>5, <2>6 DEF PageFits
<1> QED  BY <1>3, <1>5, <1>6, <1>7, <1>16, <1>18, <1>19 DEF PageInv

\* Where a page is after a call, counted: a is what sorted_pos leaves, and the three
\* places are those of PageFits.
LEMMA PageCount ==
    ASSUME NEW count \in Nat, NEW sk \in Nat, NEW ret \in Nat, NEW pos \in Nat, NEW off \in Nat, pos <= count,
           \/ pos = 0 /\ off = sk /\ ret = 0
           \/ off = 0 /\ pos = sk + ret
           \/ pos = count /\ count <= sk /\ ret = 0
    PROVE  /\ count - pos \in Nat /\ pos + off \in Nat
           /\ off > count - pos => /\ off - (count - pos) - 1 \in Nat /\ pos + (count - pos) = count
                                   /\ count <= sk /\ ret = 0
           /\ off <= count - pos => /\ pos + off <= count
                                    /\ pos + off = sk + ret \/ (pos + off = count /\ count <= sk /\ ret = 0)
                                    /\ (off = count - pos => pos + off = count)
           /\ off < count - pos => pos + off + 1 = sk + ret + 1 /\ sk + ret + 1 <= count /\ pos # count
<1>1. CASE pos = 0 /\ off = sk /\ ret = 0
  BY <1>1
<1>2. CASE off = 0 /\ pos = sk + ret
  BY <1>2
<1>3. CASE pos = count /\ count <= sk /\ ret = 0
  BY <1>3
<1> QED  BY <1>1, <1>2, <1>3

\* The next match of the page is returned, or there is none.
LEMMA PagePages ==
    ASSUME FullInv, Page PROVE SpecInv' /\ SearchInv' /\ PageInv'
<1>1. QueryInv /\ PageInv /\ LevelsOK /\ AnswersFit
  BY DEF FullInv, QueryInv, LockInv, PageInv
<1>2. SearchInv' /\ Ahead' = {} /\ Ahead = {} /\ AllAnswers' = AllAnswers
  BY <1>1, PageSearch
<1> DEFINE count == Len(c.sorted_matches)
           left == count - c.sorted_pos
           pos == c.sorted_pos + c.offset
<1>3. /\ Unmoved /\ pc = "page" /\ pc' = "ready" /\ call' = call
      /\ c'.limit = c.limit /\ c'.is_sorted = c.is_sorted /\ c'.has_matches = c.has_matches
      /\ c'.error = c.error /\ c'.sorted_matches = c.sorted_matches
      /\ \/ /\ c.offset > left /\ c'.offset = c.offset - left - 1 /\ c'.sorted_pos = c.sorted_pos + left
            /\ c'.result_count = c.result_count /\ answers' = answers /\ ended' = TRUE
         \/ /\ c.offset <= left /\ c'.offset = 0 /\ c'.sorted_pos = pos
            /\ (c.limit >= 0 /\ c.result_count >= c.limit) \/ c.offset = left
            /\ c'.result_count = c.result_count /\ answers' = answers /\ ended' = TRUE
         \/ /\ c.offset < left /\ c'.offset = 0 /\ c'.sorted_pos = pos + 1
            /\ c.limit < 0 \/ c.result_count < c.limit
            /\ c'.result_count = c.result_count + 1
            /\ answers' = Append(answers, c.sorted_matches[pos + 1]) /\ ended' = ended
  BY <1>1, PageFields
<1>4. /\ SpecInv' /\ Skipped' = Skipped /\ Allowed' = Allowed /\ Past' = Past
  BY <1>2, <1>3, Standing
<1>5. /\ c'.facts_count = c.facts_count /\ c'.locked = c.locked /\ c'.sort_var = c.sort_var
      /\ c'.sort_desc = c.sort_desc /\ asked' = asked /\ starved' = starved
  BY <1>3 DEF Unmoved
<1>6. asked.mod.sort_var # NoVar
  BY <1>1, <1>3 DEF PageInv, CountsFit, InCall
<1>7. CollectionFits /\ ~call.collecting /\ c.is_sorted /\ c.has_matches /\ PageFits
  BY <1>1, <1>3, <1>6, SortedPlace
<1> DEFINE ret == Len(answers)
           sk == Skipped
<1>8. /\ c.sorted_matches \in Seq([Var -> Symbols \union {NULL}]) /\ Distinct(c.sorted_matches)
      /\ ToSet(c.sorted_matches) \subseteq Past
      /\ answers \in Seq([Var -> Symbols \union {NULL}]) /\ Distinct(answers) /\ ToSet(answers) \subseteq Past
  BY <1>1 DEF AnswersFit, FoundOnce
<1>9. sk \in Nat /\ Allowed \in Int /\ count \in Nat /\ ret \in Nat /\ DOMAIN c.sorted_matches = 1..count /\ DOMAIN answers = 1..ret
  BY <1>1, <1>3, <1>8, ModifierFacts
<1>10. /\ c.limit = Allowed /\ c.result_count = ret /\ c.offset \in Nat
       /\ c.limit >= 0 => ret <= c.limit
       /\ \A n \in 1..ret : sk + n <= count /\ answers[n] = c.sorted_matches[sk + n]
       /\ c.error = 0 /\ c.sort_var \in Var => InOrder(c.sorted_matches)
       /\ \/ c.sorted_pos = 0 /\ c.offset = sk /\ ret = 0 /\ (ended => c.error # 0)
          \/ /\ c.offset = 0 /\ c.sorted_pos = sk + ret /\ c.sorted_pos <= count
             /\ (ended => c.error # 0 \/ c.limit = ret \/ c.sorted_pos = count)
          \/ c.sorted_pos = count /\ count <= sk /\ ret = 0
  BY <1>7 DEF PageFits
<1> HIDE DEF count, ret, sk
<1>11. c.sorted_pos \in Nat /\ c.sorted_pos <= count
  BY <1>9, <1>10
<1>12. /\ left \in Nat /\ pos \in Nat
       /\ c.offset > left => /\ c.offset - left - 1 \in Nat /\ c.sorted_pos + left = count
                             /\ count <= sk /\ ret = 0
       /\ c.offset <= left => /\ pos <= count
                              /\ pos = sk + ret \/ (pos = count /\ count <= sk /\ ret = 0)
                              /\ (c.offset = left => pos = count)
       /\ c.offset < left => pos + 1 = sk + ret + 1 /\ sk + ret + 1 <= count /\ c.sorted_pos # count
  <2>1. PICK p \in Nat : p = c.sorted_pos
    BY <1>11
  <2>2. PICK off \in Nat : off = c.offset
    BY <1>10
  <2>3. \/ p = 0 /\ off = sk /\ ret = 0
        \/ off = 0 /\ p = sk + ret
        \/ p = count /\ count <= sk /\ ret = 0
    BY <1>10, <2>1, <2>2
  <2>4. p <= count
    BY <1>11, <2>1
  <2>5. /\ count - p \in Nat /\ p + off \in Nat
        /\ off > count - p => /\ off - (count - p) - 1 \in Nat /\ p + (count - p) = count
                              /\ count <= sk /\ ret = 0
        /\ off <= count - p => /\ p + off <= count
                               /\ p + off = sk + ret \/ (p + off = count /\ count <= sk /\ ret = 0)
                               /\ (off = count - p => p + off = count)
        /\ off < count - p => p + off + 1 = sk + ret + 1 /\ sk + ret + 1 <= count /\ p # count
    BY <1>9, <2>3, <2>4, PageCount
  <2> QED  BY <2>1, <2>2, <2>5
<1> HIDE DEF left, pos
<1>13. InOrder(c.sorted_matches)' <=> InOrder(c.sorted_matches)
  BY <1>3, <1>5 DEF InOrder, Before
<1>14. /\ c'.is_sorted /\ pc' \in {"ready", "page"} /\ c'.limit = Allowed'
       /\ c'.error = 0 /\ c'.sort_var \in Var => InOrder(c.sorted_matches)'
  BY <1>3, <1>4, <1>5, <1>7, <1>10, <1>13
<1>15. pc # "closed" /\ pc' # "closed" /\ pc' # "collect" /\ pc # "collect"
  BY <1>3
<1>16. CollectionFits'
  BY <1>3, <1>4, <1>5, <1>7, <1>15 DEF CollectionFits
<1>17. CASE answers' = answers /\ c'.result_count = c.result_count /\ ended' = TRUE
  <2>1. AnswersFit'
    BY <1>1, <1>3, <1>4, <1>5, <1>15, <1>17, AnswersStay
  <2>2. CASE /\ c.offset > left /\ c'.offset = c.offset - left - 1 /\ c'.sorted_pos = c.sorted_pos + left
    <3>1. c'.sorted_pos = count /\ count <= sk /\ ret = 0 /\ c'.offset \in Nat
      BY <1>12, <2>2
    <3>2. PageFits'
      BY <1>3, <1>4, <1>10, <1>14, <1>17, <3>1 DEF PageFits, count, ret, sk
    <3> QED  BY <1>2, <1>3, <1>4, <1>5, <1>6, <1>16, <2>1, <3>2 DEF PageInv
  <2>3. CASE /\ c.offset <= left /\ c'.offset = 0 /\ c'.sorted_pos = pos
             /\ (c.limit >= 0 /\ c.result_count >= c.limit) \/ c.offset = left
    <3>1. c'.sorted_pos <= count /\ (c.limit = ret \/ c'.sorted_pos = count)
      <4>1. c.limit >= 0 /\ c.result_count >= c.limit => c.limit = ret
        BY <1>9, <1>10
      <4>2. c'.sorted_pos = pos /\ pos <= count /\ (c.offset = left => pos = count)
        BY <1>12, <2>3
      <4> QED  BY <2>3, <4>1, <4>2
    <3>2. c'.sorted_pos = sk + ret \/ (c'.sorted_pos = count /\ count <= sk /\ ret = 0)
      BY <1>12, <2>3
    <3>3. c'.offset = 0 /\ c'.offset \in Nat
      BY <2>3
    <3>4. PageFits'
      BY <1>3, <1>4, <1>10, <1>14, <1>17, <3>1, <3>2, <3>3 DEF PageFits, count, ret, sk
    <3> QED  BY <1>2, <1>3, <1>4, <1>5, <1>6, <1>16, <2>1, <3>4 DEF PageInv
  <2>4. ~(c.offset < left /\ c'.result_count = c.result_count + 1)
    BY <1>9, <1>10, <1>17
  <2> QED  BY <1>3, <2>2, <2>3, <2>4
<1>18. CASE /\ c.offset < left /\ c'.offset = 0 /\ c'.sorted_pos = pos + 1
            /\ c.limit < 0 \/ c.result_count < c.limit
            /\ c'.result_count = c.result_count + 1
            /\ answers' = Append(answers, c.sorted_matches[pos + 1]) /\ ended' = ended
  <2>1. PICK q : q = pos + 1
    OBVIOUS
  <2>2. q \in 1..count /\ q = sk + ret + 1 /\ c.sorted_pos # count
    BY <1>9, <1>12, <1>18, <2>1
  <2>3. PICK b : b = c.sorted_matches[q]
    OBVIOUS
  <2>4. b \in [Var -> Symbols \union {NULL}] /\ b \in Past
    BY <1>8, <1>9, <2>2, <2>3 DEF ToSet
  <2>5. b \notin ToSet(answers)
    <3> SUFFICES ASSUME NEW n \in 1..ret, answers[n] = b PROVE FALSE
      BY <1>9 DEF ToSet
    <3>1. sk + n <= count /\ c.sorted_matches[sk + n] = c.sorted_matches[q]
      BY <1>10, <2>3
    <3>2. sk + n \in 1..count /\ sk + n # q
      BY <1>9, <2>2, <3>1
    <3> QED  BY <1>8, <1>9, <2>2, <3>1, <3>2 DEF Distinct
  <2>6. answers' = Append(answers, b)
    BY <1>18, <2>1, <2>3
  <2>7. /\ answers' \in Seq([Var -> Symbols \union {NULL}]) /\ Len(answers') = ret + 1
        /\ ToSet(answers') = ToSet(answers) \union {b} /\ Distinct(answers')
        /\ \A n \in 1..ret : answers'[n] = answers[n]
        /\ answers'[ret + 1] = b
    BY <1>8, <2>4, <2>5, <2>6, AppendFacts DEF ret
  <2>8. FoundOnce(answers)' /\ FoundOnce(c.sorted_matches)'
    BY <1>3, <1>4, <1>8, <2>4, <2>7 DEF FoundOnce, Distinct
  <2>9. c.locked # 0
    <3> SUFFICES ASSUME c.locked = 0 PROVE FALSE
      OBVIOUS
    <3>1. c.sorted_matches = <<>>
      BY <1>1 DEF AnswersFit
    <3>2. count = 0
      BY <3>1 DEF count
    <3> QED  BY <2>2, <3>2
  <2>10. AnswersFit'
    BY <1>1, <1>3, <1>5, <1>15, <2>8, <2>9 DEF AnswersFit
  <2>11. \A n \in 1..(ret + 1) : sk + n <= count /\ answers'[n] = c.sorted_matches[sk + n]
    <3> SUFFICES ASSUME NEW n \in 1..(ret + 1) PROVE sk + n <= count /\ answers'[n] = c.sorted_matches[sk + n]
      OBVIOUS
    <3>1. CASE n = ret + 1
      <4>1. sk + n = q
        BY <1>9, <2>2, <3>1
      <4> QED  BY <1>9, <2>2, <2>3, <2>7, <3>1, <4>1
    <3>2. CASE n \in 1..ret
      BY <1>10, <2>7, <3>2
    <3> QED  BY <1>9, <3>1, <3>2
  <2>12. c'.result_count = ret + 1 /\ (c.limit >= 0 => ret + 1 <= c.limit) /\ c.limit # ret
    BY <1>9, <1>10, <1>18
  <2>13. ended' => c'.error # 0
    BY <1>3, <1>10, <1>9, <1>12, <1>18, <2>2, <2>12
  <2>14. c'.sorted_pos = sk + (ret + 1) /\ c'.sorted_pos <= count /\ c'.offset = 0 /\ c'.offset \in Nat
    BY <1>9, <1>18, <2>1, <2>2
  <2>15. PageFits'
    BY <1>3, <1>4, <1>10, <1>14, <2>7, <2>11, <2>12, <2>13, <2>14 DEF PageFits, count, sk
  <2> QED  BY <1>2, <1>3, <1>4, <1>5, <1>6, <1>16, <2>10, <2>15 DEF PageInv
<1> QED  BY <1>3, <1>17, <1>18

\* An empty list is a list of answers found.
LEMMA NothingFound == ASSUME NEW s, s = <<>> PROVE s \in Seq([Var -> Symbols \union {NULL}]) /\ Len(s) = 0 /\ ToSet(s) = {} /\ Distinct(s)
BY DEF ToSet, Distinct

\* A query is opened, or there is no memory for it.
LEMMA OpenPages ==
    ASSUME SearchableQueries, FullInv, FewUses, NEW triples \in Asked, NEW mod \in Modifiers, Open(triples, mod)
    PROVE  SpecInv' /\ SearchInv' /\ PageInv'
<1>1. QueryInv /\ PageInv /\ LevelsOK /\ AnswersFit /\ c.locked = 0
  BY DEF FullInv, QueryInv, LockInv, PageInv, Open
<1>2. /\ pc = "closed" /\ pc' = "ready" /\ asked'.triples = triples /\ asked'.mod = mod
      /\ facts' = facts /\ interned' = interned /\ hexastore' = hexastore /\ call' = call /\ answers' = answers /\ ended' = ended
      /\ starved' = starved /\ ~starved
  BY DEF Open
<1>3. answers = <<>> /\ ~ended /\ ~call.collecting
  BY <1>1, <1>2 DEF AnswersFit
<1>4. /\ Skipped' = (IF mod.ask THEN 0 ELSE mod.offset) /\ Allowed' = (IF mod.ask THEN 1 ELSE mod.limit)
      /\ Skipped' \in Nat /\ Allowed' \in Int
  BY <1>2, QueryAssumption DEF Skipped, Allowed
<1>5. ~Passing' /\ pc' \notin InCall /\ pc' # "collect" /\ pc' # "collected" /\ pc' \in InCall \union {"ready"}
  BY <1>2 DEF Passing, InCall
<1>6. ASSUME NEW spec, NEW N, NEW locked \in {0, 1}, NEW error, NEW var \in SortVar(mod), Opened(spec, N, locked, error, mod, var),
             locked = 0 => N = 0 /\ error # 0,
             locked = 1 => Past' = {} /\ (N = 0 => AllAnswers' = {})
      PROVE  PageInv'
  <2>1. /\ c'.facts_count = N /\ c'.locked = locked /\ c'.error = error /\ c'.result_count = 0 /\ c'.sorted_pos = 0
        /\ c'.has_matches = FALSE /\ c'.sorted_matches = <<>>
        /\ c'.is_sorted = (mod.sort_var # NoVar) /\ c'.sort_var = var /\ c'.sort_desc = mod.sort_desc
        /\ c'.limit = Allowed' /\ c'.offset = Skipped'
    BY <1>4, <1>6 DEF Opened
  <2>2. FoundOnce(answers)' /\ FoundOnce(c.sorted_matches)'
    BY <1>2, <1>3, <2>1, NothingFound DEF FoundOnce, Distinct
  <2>3. AnswersFit'
    <3>1. c'.sort_var \in {mod.sort_var, NoVar}
      BY <1>6, <2>1 DEF SortVar
    <3> QED  BY <1>1, <1>2, <1>3, <1>6, <2>1, <2>2, <3>1 DEF AnswersFit
  <2>4. ASSUME mod.sort_var = NoVar PROVE CountsFit'
    <3>1. Len(answers') = 0 /\ c'.offset \in 0..Skipped' /\ (c'.limit >= 0 => 0 <= c'.limit)
      BY <1>2, <1>3, <1>4, <2>1
    <3>2. c'.facts_count # 0 => Cardinality(Past') = 0 + Skipped' - c'.offset - 0
      <4>1. c'.facts_count # 0 => Past' = {}
        BY <1>6, <2>1
      <4>2. Cardinality({}) = 0
        BY FS_EmptySet
      <4>3. c'.facts_count # 0 => Cardinality(Past') = 0
        BY <4>1, <4>2
      <4>4. 0 = 0 + Skipped' - c'.offset - 0
        BY <1>4, <2>1
      <4> QED  BY <4>3, <4>4
    <3>3. c'.facts_count = 0 /\ c'.locked = 1 => Cardinality(AllAnswers') = 0
      <4>1. c'.facts_count = 0 /\ c'.locked = 1 => AllAnswers' = {}
        BY <1>6, <2>1
      <4> QED  BY <4>1, FS_EmptySet
    <3>4. c'.facts_count = 0 /\ c'.locked = 1 =>
             0 = IF Cardinality(AllAnswers') <= Skipped' THEN 0 ELSE Cardinality(AllAnswers') - Skipped'
      BY <1>4, <3>3
    <3> QED  BY <1>2, <1>3, <1>5, <2>1, <2>4, <3>1, <3>2, <3>4 DEF CountsFit
  <2>5. ASSUME mod.sort_var # NoVar PROVE CollectionFits' /\ ~c'.has_matches
    <3>1. c'.error = 0 /\ c'.locked = 1 => Past' = {}
      BY <1>6, <2>1
    <3>2. ToSet(c'.sorted_matches) = {}
      BY <2>1, NothingFound
    <3> QED  BY <1>2, <1>3, <1>5, <2>1, <2>5, <3>1, <3>2 DEF CollectionFits
  <2> QED  BY <1>2, <2>1, <2>3, <2>4, <2>5 DEF PageInv
<1>7. ASSUME NEW var \in SortVar(mod), c' = Fresh(facts_spec_sort(Expanded(triples)), 1, 0, mod, var)
      PROVE  SpecInv' /\ SearchInv' /\ PageInv'
  <2>1. /\ SpecInv' /\ SearchInv' /\ Ahead' = (IF triples = <<>> THEN {} ELSE AllAnswers')
        /\ Len(triples) \in Nat /\ (Len(triples) = 0 <=> triples = <<>>)
        /\ Opened(c'.spec, Len(triples), 1, 0, mod, var)
    BY <1>1, <1>7, OpenSearch
  <2>2. triples = <<>> => AllAnswers' = {}
    BY <1>2 DEF AllAnswers, IsAnswer
  <2>3. Past' = {}
    BY <2>1, <2>2 DEF Past
  <2>4. PICK spec : spec = c'.spec
    OBVIOUS
  <2>5. PICK N : N = Len(triples)
    OBVIOUS
  <2>6. Opened(spec, N, 1, 0, mod, var) /\ (N = 0 => AllAnswers' = {})
    BY <2>1, <2>2, <2>4, <2>5
  <2>7. PageInv'
    <3>1. 1 \in {0, 1} /\ ~(1 = 0)
      OBVIOUS
    <3>2. \A locked \in {0, 1} : locked = 1 => Past' = {} /\ (N = 0 => AllAnswers' = {})
      BY <2>3, <2>6
    <3> QED  BY <1>6, <2>6, <3>1, <3>2
  <2> QED  BY <2>1, <2>7
<1>8. ASSUME NEW var \in SortVar(mod), c' = Fresh(<<>>, 0, -1, mod, var)
      PROVE  SpecInv' /\ SearchInv' /\ PageInv'
  <2>1. Opened(<<>>, 0, 0, -1, mod, var)
    BY <1>8, EmptyFields
  <2>2. SpecInv' /\ SearchInv'
    BY <1>2, <2>1, EmptySearch DEF Opened
  <2>3. -1 # 0
    OBVIOUS
  <2> QED  BY <1>6, <2>1, <2>2, <2>3
<1> QED  BY <1>7, <1>8 DEF Open

\* A query is given up.
LEMMA DestroyPages ==
    ASSUME FullInv, facts_with_cursor_destroy PROVE SpecInv' /\ SearchInv' /\ PageInv'
<1>1. /\ pc = "ready" /\ pc' = "closed" /\ answers' = <<>> /\ ended' = FALSE /\ call' = call
      /\ c' = Fresh(<<>>, 0, 0, NoModifier, NoVar)
  BY DEF facts_with_cursor_destroy
<1>2. PageInv /\ AnswersFit /\ pc # "closed"
  BY <1>1 DEF FullInv, PageInv
<1>3. Opened(<<>>, 0, 0, 0, NoModifier, NoVar)
  BY <1>1, EmptyFields
<1>4. c'.spec = <<>> /\ c'.facts_count = 0 /\ c'.locked = 0 /\ c'.sorted_matches = <<>>
  BY <1>3 DEF Opened
<1>5. SpecInv' /\ SearchInv'
  BY <1>1, <1>4, EmptySearch
<1>6. ~call.collecting
  <2>1. CASE asked.mod.sort_var = NoVar
    BY <1>2, <2>1 DEF PageInv, CountsFit
  <2>2. CASE asked.mod.sort_var # NoVar
    BY <1>1, <1>2, <2>2, SortedPlace
  <2> QED  BY <2>1, <2>2
<1>7. FoundOnce(answers)' /\ FoundOnce(c.sorted_matches)'
  BY <1>1, <1>4, NothingFound DEF FoundOnce, Distinct
<1>8. AnswersFit'
  BY <1>1, <1>2, <1>4, <1>6, <1>7 DEF AnswersFit
<1> QED  BY <1>1, <1>5, <1>8 DEF PageInv

\* Nobody else gets in while the query has its lock.
LEMMA WriterPages ==
    ASSUME FullInv, depth = 0 \/ pc = "closed",
           bindings' = bindings, c' = c, pc' = pc, call' = call, asked' = asked, answers' = answers,
           ended' = ended, starved' = starved
    PROVE  SpecInv' /\ SearchInv' /\ PageInv'
<1>1. QueryInv /\ PageInv /\ LockInv /\ LevelsOK /\ AnswersFit /\ SpecInv /\ SearchInv
  BY DEF FullInv, QueryInv, LockInv, PageInv
<1>2. c.locked = 0
  <2> SUFFICES ASSUME c.locked # 0 PROVE FALSE
    OBVIOUS
  <2>1. c.locked = 1
    BY <1>1 DEF LevelsOK
  <2>2. pc # "closed" /\ depth = 0
    BY <1>1, <2>1 DEF LockInv
  <2>3. Cardinality(Holding(c.l)) \in Nat
    <3>1. IsFiniteSet(Holding(c.l))
      <4>1. IsFiniteSet(DOMAIN c.l)
        <5>1. PICK n \in Nat : DOMAIN c.l = 1..n
          BY <1>1 DEF LevelsOK
        <5> QED  BY <5>1, FS_Interval
      <4> QED  BY <4>1, FS_Subset DEF Holding
    <3> QED  BY <3>1, FS_CardinalityType
  <2>4. depth = 1 + Cardinality(Holding(c.l))
    BY <1>1, <2>1, <2>2 DEF LockInv
  <2> QED  BY <2>2, <2>3, <2>4
<1>3. c.facts_count = 0 /\ answers = <<>> /\ c.sorted_matches = <<>>
  BY <1>1, <1>2 DEF AnswersFit
<1>4. SpecInv'
  BY <1>1, UnmovedSpec
<1>5. SearchInv'
  BY <1>1, <1>3 DEF SearchInv, Searching
<1>6. FoundOnce(answers)' /\ FoundOnce(c.sorted_matches)'
  BY <1>3, NothingFound DEF FoundOnce, Distinct
<1>7. AnswersFit'
  BY <1>1, <1>6 DEF AnswersFit
<1>8. Skipped' = Skipped /\ Allowed' = Allowed /\ (Passing' <=> Passing)
  BY DEF Skipped, Allowed, Passing
<1>9. CountsFit => CountsFit'
  BY <1>2, <1>3, <1>8 DEF CountsFit
<1>10. CollectionFits => CollectionFits'
  BY <1>2, <1>3, <1>8 DEF CollectionFits
<1>11. PageFits => PageFits'
  <2>1. InOrder(c.sorted_matches)' <=> InOrder(c.sorted_matches)
    BY DEF InOrder, Before
  <2> QED  BY <1>8, <2>1 DEF PageFits
<1> QED  BY <1>1, <1>4, <1>5, <1>7, <1>9, <1>10, <1>11 DEF PageInv

\* Nothing happens.
LEMMA StutterPages ==
    ASSUME FullInv, UNCHANGED vars PROVE SpecInv' /\ SearchInv' /\ PageInv'
<1>1. QueryInv /\ PageInv /\ LevelsOK /\ SpecInv /\ SearchInv
  BY DEF FullInv, QueryInv, LockInv, PageInv
<1>2. /\ facts' = facts /\ interned' = interned /\ hexastore' = hexastore /\ bindings' = bindings /\ c' = c /\ pc' = pc /\ call' = call
      /\ asked' = asked /\ answers' = answers /\ ended' = ended /\ starved' = starved
  BY DEF vars
<1>3. SpecInv'
  BY <1>1, <1>2, UnmovedSpec
<1>4. /\ AllAnswers' = AllAnswers
      /\ \A k \in 1..c.facts_count : (LevelFits(k)' <=> LevelFits(k)) /\ (Passed(k)' <=> Passed(k)) /\ (Found(k)' <=> Found(k))
      /\ \A k : BoundBefore(k)' = BoundBefore(k)
      /\ \A b, k : (Agrees(b, k)' <=> Agrees(b, k)) /\ (Beyond(b, k)' <=> Beyond(b, k))
      /\ BindingsFit' <=> BindingsFit
  BY <1>2, SameSearch
<1>5. Searching' <=> Searching
  BY <1>2 DEF Searching
<1>6. PlaceFits' <=> PlaceFits
  BY <1>2 DEF PlaceFits
<1>7. SearchInv'
  <2> SUFFICES ASSUME Searching'
               PROVE /\ \A k \in 1..c'.facts_count : LevelFits(k)'
                     /\ \A k \in 1..c'.level : Passed(k)'
                     /\ BindingsFit' /\ PlaceFits'
    BY <1>1, <1>2 DEF SearchInv
  <2>1. (\A k \in 1..c.facts_count : LevelFits(k)) /\ (\A k \in 1..c.level : Passed(k)) /\ BindingsFit /\ PlaceFits
    BY <1>1, <1>5 DEF SearchInv
  <2>2. \A k \in 1..c.level : k \in 1..c.facts_count
    BY <1>1, <1>5 DEF LevelsOK, Searching
  <2> QED  BY <1>2, <1>4, <1>6, <2>1, <2>2
<1>8. Below' <=> Below
  BY <1>2 DEF Below, Found
<1>9. Ahead' = Ahead
  <2>1. CASE ~Searching
    BY <1>5, <2>1 DEF Ahead
  <2>2. CASE Searching
    <3>1. PICK m : m = c.level + 1
      OBVIOUS
    <3>2. ASSUME NEW b PROVE b \in Ahead' <=> b \in Ahead
      <4>1. b \in Ahead <=> b \in AllAnswers /\ ((\E k \in 1..c.facts_count : Beyond(b, k)) \/ (Below /\ Agrees(b, m)))
        BY <2>2, <3>1 DEF Ahead, Beyond
      <4>2. m = c'.level + 1
        BY <1>2, <3>1
      <4>3. b \in Ahead' <=> b \in AllAnswers' /\ ((\E k \in 1..c'.facts_count : Beyond(b, k)') \/ (Below' /\ Agrees(b, m)'))
        BY <1>5, <2>2, <4>2, AheadParts
      <4> QED  BY <1>2, <1>4, <1>8, <4>1, <4>3
    <3> QED  BY <3>2
  <2> QED  BY <2>1, <2>2
<1>10. Past' = Past
  BY <1>4, <1>9, SamePast
<1>11. Skipped' = Skipped /\ Allowed' = Allowed /\ (Passing' <=> Passing)
  BY <1>2 DEF Skipped, Allowed, Passing
<1>12. AnswersFit => AnswersFit'
  BY <1>2, <1>10 DEF AnswersFit, FoundOnce, Distinct
<1>13. CountsFit => CountsFit'
  BY <1>2, <1>4, <1>10, <1>11 DEF CountsFit
<1>14. CollectionFits => CollectionFits'
  BY <1>2, <1>10, <1>11 DEF CollectionFits
<1>15. PageFits => PageFits'
  <2>1. InOrder(c.sorted_matches)' <=> InOrder(c.sorted_matches)
    BY <1>2 DEF InOrder, Before
  <2> QED  BY <1>2, <1>11, <2>1 DEF PageFits
<1> QED  BY <1>1, <1>2, <1>3, <1>7, <1>12, <1>13, <1>14, <1>15 DEF PageInv

\* It holds before the first query,
LEMMA InitPages == Init => FullInv
<1> SUFFICES ASSUME Init PROVE FullInv
  OBVIOUS
<1>1. c = Fresh(<<>>, 0, 0, NoModifier, NoVar) /\ pc = "closed" /\ answers = <<>> /\ ended = FALSE /\ call = NoCall
  BY DEF Init
<1>2. c.spec = <<>> /\ c.facts_count = Len(<<>>) /\ c.locked = 0 /\ c.sorted_matches = <<>>
  BY <1>1 DEF Fresh
<1>3. c.facts_count = 0 /\ Len(c.spec) = 0
  BY <1>2
<1>4. LockInv /\ StoreInv
  BY InitLocks, InitStore
<1>5. SpecInv
  <2>1. c.spec = [k \in 1..Len(c.spec) |-> c.spec[k]]
    BY <1>2
  <2>2. \A k \in 1..(Len(c.spec) - 1) : FALSE
    BY <1>3
  <2> QED  BY <1>2, <1>3, <2>1, <2>2 DEF SpecInv
<1>6. SearchInv
  BY <1>1, <1>3 DEF SearchInv, Searching
<1>7. FoundOnce(answers) /\ FoundOnce(c.sorted_matches)
  BY <1>1, <1>2, NothingFound DEF FoundOnce
<1>8. call = [f \in DOMAIN NoCall |-> call[f]] /\ call.collecting = FALSE /\ call.skip = FALSE
  BY <1>1 DEF NoCall
<1>9. AnswersFit
  BY <1>1, <1>2, <1>3, <1>7, <1>8 DEF AnswersFit
<1> QED  BY <1>1, <1>4, <1>5, <1>6, <1>9 DEF FullInv, QueryInv, PageInv

\* and every step keeps it: of the query's thread, of a writer and of Compact.
LEMMA NextPages ==
    ASSUME SearchableQueries, FullInv, FewUses, [Next]_vars PROVE FullInv'
<1>1. LockInv /\ StoreInv
  BY DEF FullInv, QueryInv
<1>2. LockInv' /\ StoreInv'
  BY <1>1, NextLocks, StoreStep
<1> SUFFICES SpecInv' /\ SearchInv' /\ PageInv'
  BY <1>2 DEF FullInv, QueryInv
<1>3. CASE UNCHANGED vars
  BY <1>3, StutterPages
<1>4. ASSUME NEW f \in Facts, facts_insert_fact_copy(f) \/ facts_remove_found(f)
      PROVE  SpecInv' /\ SearchInv' /\ PageInv'
  <2>1. /\ depth = 0 /\ bindings' = bindings /\ c' = c /\ pc' = pc /\ call' = call /\ asked' = asked
        /\ answers' = answers /\ ended' = ended /\ starved' = starved
    BY <1>4 DEF facts_insert_fact_copy, facts_remove_found
  <2> QED  BY <2>1, WriterPages
<1>5. CASE Compact \/ facts_intern
  <2>1. /\ depth = 0 \/ pc = "closed"
        /\ bindings' = bindings /\ c' = c /\ pc' = pc /\ call' = call /\ asked' = asked
        /\ answers' = answers /\ ended' = ended /\ starved' = starved
    BY <1>5 DEF Compact, facts_intern
  <2> QED  BY <2>1, WriterPages
<1>6. ASSUME NEW triples \in Asked, NEW mod \in Modifiers, Open(triples, mod)
      PROVE  SpecInv' /\ SearchInv' /\ PageInv'
  BY <1>6, OpenPages
<1>7. CASE facts_with_cursor_destroy
  BY <1>7, DestroyPages
<1>8. CASE CallNext
  BY <1>8, CallPages
<1>9. CASE Step
  BY <1>9, LimitPages, OffsetPages, MatchPages, NoMatchPages, CollectPages, CollectedPages, PagePages,
     SearchSteps, StarvedPages DEF Step
<1> QED  BY <1>3, <1>4, <1>5, <1>6, <1>7, <1>8, <1>9 DEF Next

\* For every query that is Searchable, every store that writers make between its
\* calls, every limit, offset and order, and every failure of memory: each level of
\* facts_with_cursor_next has the patterns that remain with the values bound before
\* it and the cursor of the fact found, every answer is either found or still ahead
\* of some level, and the counters of limit, offset and order agree with what was
\* found and returned.  As long as no symbol has been used 100000 times: from there
\* on facts_spec_sort may put a negated pattern before a positive one (facts.c:1941).
THEOREM FullInvHolds ==
    ASSUME SearchableQueries PROVE Spec /\ []FewUses => []FullInv
<1>1. Init => FullInv
  BY InitPages
<1>2. FullInv /\ FewUses /\ [Next]_vars => FullInv'
  BY NextPages
<1> QED  BY <1>1, <1>2, PTL DEF Spec

\* Whatever a writer adds or removes and whichever allocation fails in the middle of
\* it, the three tries hold the same facts as the hash index before and after every
\* step (facts_insert_fact_copy, facts_remove_found, hexastore_compact).
THEOREM StoreInvHolds == Spec => []StoreInv
<1>1. Init => StoreInv
  BY InitStore
<1>2. StoreInv /\ [Next]_vars => StoreInv'
  BY StoreStep
<1> QED  BY <1>1, <1>2, PTL DEF Spec

\* Every binding that facts_with_cursor_next returns is an answer of the query in the
\* store as it is, and none is returned twice, for every Searchable query and every
\* store with FewUses: levels that are gone back to, continued cursors and skipped
\* matches included.
THEOREM SoundHolds ==
    ASSUME SearchableQueries PROVE Spec /\ []FewUses => []Sound
<1>1. FullInv => Sound
  <2> SUFFICES ASSUME FullInv PROVE Sound
    OBVIOUS
  <2>1. FoundOnce(answers)
    BY DEF FullInv, PageInv, AnswersFit
  <2>2. ASSUME NEW n \in DOMAIN answers PROVE IsAnswer(answers[n])
    <3>1. answers[n] \in AllAnswers
      BY <2>1 DEF FoundOnce, Past, ToSet
    <3> QED  BY <3>1 DEF AllAnswers
  <2>3. \A n, m \in DOMAIN answers : answers[n] = answers[m] => n = m
    BY <2>1 DEF FoundOnce, Distinct
  <2> QED  BY <2>2, <2>3 DEF Sound
<1> QED  BY <1>1, FullInvHolds, PTL

\* When the pages of a sorted query are returned, its matches are all answers.
LEMMA AllSorted ==
    ASSUME FullInv, pc # "closed", asked.mod.sort_var # NoVar, c.error = 0, ~starved, c.has_matches, ~call.collecting
    PROVE  /\ PageFits /\ Skipped \in Nat /\ Allowed \in Int
           /\ c.sorted_matches \in Seq(Rows) /\ Distinct(c.sorted_matches)
           /\ ToSet(c.sorted_matches) = AllAnswers
           /\ Cardinality(AllAnswers) = Len(c.sorted_matches)
<1>1. PageInv /\ AnswersFit /\ LevelsOK
  BY DEF FullInv, PageInv, QueryInv, LockInv
<1>2. PageFits /\ CollectionFits
  BY <1>1 DEF PageInv
<1>3. c.locked = 1
  BY <1>1 DEF AnswersFit, LevelsOK
<1>4. pc # "collect" /\ c.is_sorted
  BY <1>2 DEF PageFits
<1>5. Past = ToSet(c.sorted_matches)
  BY <1>2, <1>3, <1>4 DEF CollectionFits
<1>6. Past = AllAnswers
  BY <1>4 DEF Past, Ahead, Searching
<1>7. c.sorted_matches \in Seq(Rows) /\ Distinct(c.sorted_matches)
  BY <1>1 DEF AnswersFit, FoundOnce, Rows, Values
<1>8. Skipped \in Nat /\ Allowed \in Int
  BY <1>1, ModifierFacts
<1> QED  BY <1>2, <1>5, <1>6, <1>7, <1>8, DistinctLength

\* What limit and offset leave of so many answers.
LEMMA PageSizes ==
    ASSUME NEW total \in Nat, NEW sk \in Nat, NEW limit \in Int, NEW ret \in Nat, limit >= 0 => ret <= limit,
           \/ ret = IF total <= sk THEN 0 ELSE total - sk
           \/ limit = ret /\ (ret = 0 \/ sk + ret <= total)
    PROVE  ret = IF total - sk <= 0 THEN 0 ELSE IF limit >= 0 /\ limit < total - sk THEN limit ELSE total - sk
OBVIOUS

\* When facts_with_cursor_next has returned 0 without an error, it has returned as
\* many answers as limit and offset leave, for every Searchable query and every store
\* with FewUses.
THEOREM CompleteHolds ==
    ASSUME SearchableQueries PROVE Spec /\ []FewUses => []Complete
<1>1. FullInv => Complete
  <2> SUFFICES ASSUME FullInv, ended, c.error = 0, ~starved PROVE Len(answers) = PageSize
    BY DEF Complete
  <2>1. PageInv /\ AnswersFit /\ LevelsOK
    BY DEF FullInv, PageInv, QueryInv, LockInv
  <2>2. pc # "closed"
    BY <2>1 DEF AnswersFit
  <2>3. c.locked = 1
    BY <2>1, <2>2 DEF AnswersFit, LevelsOK
  <2> DEFINE total == Cardinality(AllAnswers)
             ret == Len(answers)
  <2>4. Skipped \in Nat /\ Allowed \in Int /\ total \in Nat /\ ret \in Nat
    BY <2>1, <2>2, ModifierFacts, AnswersFinite DEF AnswersFit, FoundOnce
  <2>5. PageSize = IF total - Skipped <= 0 THEN 0
                   ELSE IF Allowed >= 0 /\ Allowed < total - Skipped THEN Allowed ELSE total - Skipped
    BY DEF PageSize, Allowed
  <2>6. CASE asked.mod.sort_var = NoVar
    <3>1. CountsFit
      BY <2>1, <2>2, <2>6 DEF PageInv
    <3>2. c.limit = Allowed /\ (c.limit >= 0 => ret <= c.limit) /\ (c.facts_count = 0 \/ c.limit = ret)
      BY <2>3, <3>1 DEF CountsFit
    <3>3. CASE c.facts_count = 0
      <4>1. ret = IF total <= Skipped THEN 0 ELSE total - Skipped
        BY <2>3, <3>1, <3>3 DEF CountsFit
      <4> HIDE DEF total, ret
      <4> QED  BY <2>4, <2>5, <3>2, <4>1, PageSizes DEF ret
    <3>4. CASE c.facts_count # 0
      <4>1. c.limit = ret
        BY <3>2, <3>4
      <4>2. ret = 0 \/ Skipped + ret <= total
        <5> SUFFICES ASSUME ret # 0 PROVE Skipped + ret <= total
          OBVIOUS
        <5>1. answers # <<>>
          OBVIOUS
        <5>2. c.offset \in 0..Skipped /\ ~(c.offset > 0) /\ ~Passing
          BY <3>1, <5>1 DEF CountsFit
        <5>3. c.offset = 0
          BY <2>4, <5>2
        <5>4. Cardinality(Past) = ret + Skipped - c.offset - (IF Passing THEN 1 ELSE 0)
          BY <3>1, <3>4 DEF CountsFit
        <5>5. Cardinality(Past) = ret + Skipped - 0 - 0
          BY <5>2, <5>3, <5>4
        <5>6. Cardinality(Past) <= total
          BY AnswersFinite
        <5> QED  BY <2>4, <5>5, <5>6
      <4> HIDE DEF total, ret
      <4> QED  BY <2>4, <2>5, <3>2, <4>1, <4>2, PageSizes DEF ret
    <3> QED  BY <3>3, <3>4
  <2>7. CASE asked.mod.sort_var # NoVar
    <3>1. CollectionFits
      BY <2>1, <2>2, <2>7 DEF PageInv
    <3>2. c.has_matches /\ ~call.collecting
      BY <3>1 DEF CollectionFits
    <3>3. PageFits /\ total = Len(c.sorted_matches)
      BY <2>2, <2>7, <3>2, AllSorted
    <3>4. /\ c.limit = Allowed /\ (c.limit >= 0 => ret <= c.limit)
          /\ \/ /\ c.sorted_pos = Skipped + ret /\ c.sorted_pos <= total
                /\ c.limit = ret \/ c.sorted_pos = total
             \/ total <= Skipped /\ ret = 0
      BY <3>3 DEF PageFits
    <3> HIDE DEF total, ret
    <3>5. \/ ret = IF total <= Skipped THEN 0 ELSE total - Skipped
          \/ Allowed = ret /\ (ret = 0 \/ Skipped + ret <= total)
      BY <2>4, <3>4
    <3> QED  BY <2>4, <2>5, <3>4, <3>5, PageSizes DEF ret
  <2> QED  BY <2>6, <2>7
<1> QED  BY <1>1, FullInvHolds, PTL

\* A query whose cursor has the variable to sort by returns the answers of its page at
\* their places, for every Searchable query, every order of the texts and every store
\* with FewUses: the heap sort, the offset and the limit of facts_with_cursor_next
\* together.  When strdup fails the cursor has no variable, and nothing is sorted
\* (sparql.c:613).
THEOREM OrderedHolds ==
    ASSUME SearchableQueries PROVE Spec /\ []FewUses => []Ordered
<1>1. FullInv => Ordered
  <2> SUFFICES ASSUME FullInv, c.sort_var \in Var, c.error = 0, ~starved, NEW n \in DOMAIN answers
               PROVE  /\ Cardinality({b \in AllAnswers : Before(b, answers[n])}) < Skipped + n
                      /\ Cardinality({b \in AllAnswers : ~Before(answers[n], b)}) >= Skipped + n
    BY DEF Ordered
  <2>1. PageInv /\ AnswersFit /\ LockInv
    BY DEF FullInv, PageInv, QueryInv
  <2>2. answers # <<>>
    OBVIOUS
  <2>3. c.locked # 0 /\ pc # "closed"
    BY <2>1, <2>2 DEF AnswersFit, LockInv
  <2>4. c.sort_var \in Var /\ asked.mod.sort_var # NoVar
    BY <2>1, <2>3, QueryAssumption DEF AnswersFit
  <2>5. c.has_matches /\ ~call.collecting
    BY <2>1, <2>2, <2>3, <2>4 DEF PageInv, CollectionFits
  <2> DEFINE sm == c.sorted_matches
             count == Len(c.sorted_matches)
             low == {b \in AllAnswers : Before(b, answers[n])}
             high == {b \in AllAnswers : ~Before(answers[n], b)}
  <2>6. /\ PageFits /\ Skipped \in Nat /\ sm \in Seq(Rows) /\ Distinct(sm) /\ ToSet(sm) = AllAnswers
    BY <2>3, <2>4, <2>5, AllSorted
  <2>7. n \in Nat /\ n >= 1 /\ DOMAIN sm = 1..count /\ count \in Nat /\ n \in 1..Len(answers)
    BY <2>1, <2>6 DEF AnswersFit, FoundOnce
  <2>8. Skipped + n <= count /\ answers[n] = sm[Skipped + n] /\ InOrder(sm)
    BY <2>4, <2>6, <2>7 DEF PageFits
  <2>9. PICK p : p = Skipped + n
    OBVIOUS
  <2>10. p \in 1..count /\ answers[n] = sm[p]
    BY <2>6, <2>7, <2>8, <2>9
  <2>11. \A x \in Rows : ~Before(x, x)
    BY <2>4, BeforeOrder
  <2>12. \A i \in 1..count : sm[i] \in Rows
    BY <2>6, <2>7
  <2>13. AllAnswers = {sm[i] : i \in 1..count}
    BY <2>6, <2>7 DEF ToSet
  <2> HIDE DEF sm, count
  <2>14. \A i \in 1..count : i >= p => ~Before(sm[i], sm[p])
    <3> SUFFICES ASSUME NEW i \in 1..count, i >= p PROVE ~Before(sm[i], sm[p])
      OBVIOUS
    <3>1. CASE i = p
      BY <2>10, <2>11, <2>12, <3>1
    <3>2. CASE i > p
      BY <2>7, <2>8, <2>10, <3>2 DEF InOrder
    <3> QED  BY <2>10, <3>1, <3>2
  <2>15. \A i \in 1..p : i \in 1..count /\ ~Before(sm[p], sm[i])
    <3> SUFFICES ASSUME NEW i \in 1..p PROVE i \in 1..count /\ ~Before(sm[p], sm[i])
      OBVIOUS
    <3>1. i \in 1..count
      BY <2>7, <2>10
    <3>2. CASE i = p
      BY <2>10, <2>11, <2>12, <3>2
    <3>3. CASE i # p
      <4>1. i < p
        BY <2>10, <3>3
      <4> QED  BY <2>7, <2>8, <2>10, <3>1, <4>1 DEF InOrder
    <3> QED  BY <3>1, <3>2, <3>3
  <2>16. ASSUME NEW k \in 0..count
         PROVE  IsFiniteSet({sm[i] : i \in 1..k}) /\ Cardinality({sm[i] : i \in 1..k}) = k
    <3>1. PICK s : s = [i \in 1..k |-> sm[i]]
      OBVIOUS
    <3>2. \A i \in 1..k : i \in 1..count
      BY <2>7
    <3>3. s \in Seq(Rows) /\ Len(s) = k /\ DOMAIN s = 1..k
      <4>1. k \in Nat /\ \A i \in 1..k : s[i] \in Rows
        BY <2>12, <3>1, <3>2
      <4> QED  BY <3>1, <4>1, SequenceLength
    <3>4. Distinct(s)
      BY <2>6, <2>7, <3>1, <3>2, <3>3 DEF Distinct
    <3>5. ToSet(s) = {sm[i] : i \in 1..k}
      BY <3>1, <3>3 DEF ToSet
    <3>6. Cardinality(ToSet(s)) = k
      BY <3>3, <3>4, DistinctLength
    <3>7. {sm[i] : i \in 1..k} \subseteq AllAnswers
      BY <2>13, <3>2
    <3> QED  BY <3>5, <3>6, <3>7, AnswersFinite, FS_Subset
  <2>17. Cardinality(low) < p
    <3>1. low \subseteq {sm[i] : i \in 1..(p - 1)}
      <4> SUFFICES ASSUME NEW b \in AllAnswers, Before(b, sm[p]) PROVE b \in {sm[i] : i \in 1..(p - 1)}
        BY <2>10
      <4>1. PICK i \in 1..count : b = sm[i]
        BY <2>13
      <4>2. ~(i >= p)
        BY <2>14, <4>1
      <4>3. i \in 1..(p - 1)
        BY <2>10, <4>2
      <4> QED  BY <4>1, <4>3
    <3>2. p - 1 \in 0..count
      BY <2>7, <2>10
    <3>3. Cardinality({sm[i] : i \in 1..(p - 1)}) = p - 1 /\ IsFiniteSet({sm[i] : i \in 1..(p - 1)})
      BY <2>16, <3>2
    <3>4. Cardinality(low) <= p - 1 /\ Cardinality(low) \in Nat
      BY <3>1, <3>3, FS_Subset, FS_CardinalityType
    <3> QED  BY <2>10, <3>4
  <2>18. Cardinality(high) >= p
    <3>1. {sm[i] : i \in 1..p} \subseteq high
      <4> SUFFICES ASSUME NEW i \in 1..p PROVE sm[i] \in high
        OBVIOUS
      <4>1. i \in 1..count /\ ~Before(sm[p], sm[i])
        BY <2>15
      <4> QED  BY <2>10, <2>13, <4>1
    <3>2. IsFiniteSet(high)
      BY AnswersFinite, FS_Subset
    <3>3. p \in 0..count
      BY <2>7, <2>10
    <3>4. Cardinality({sm[i] : i \in 1..p}) = p
      BY <2>16, <3>3
    <3>5. p <= Cardinality(high) /\ Cardinality(high) \in Nat
      BY <3>1, <3>2, <3>4, FS_Subset, FS_CardinalityType
    <3> QED  BY <2>10, <3>5
  <2> QED  BY <2>9, <2>17, <2>18
<1> QED  BY <1>1, FullInvHolds, PTL

=============================================================================
