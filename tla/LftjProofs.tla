----------------------------- MODULE LftjProofs -----------------------------
(***************************************************************************)
(* For any database, any patterns and any bindings: leapfrog triejoin      *)
(* counts every answer of a query that fits its tries once.                *)
(***************************************************************************)
EXTENDS Lftj, SequenceTheorems, FiniteSetTheorems, WellFoundedInduction, TLAPS

Keys == [Columns -> Nat]

\* The order of the keys, column by column.
LEMMA BeforeMeans ==
    ASSUME NEW a \in Keys, NEW b \in Keys
    PROVE  Before(a, b) <=> \/ a[1] < b[1]
                            \/ a[1] = b[1] /\ a[2] < b[2]
                            \/ a[1] = b[1] /\ a[2] = b[2] /\ a[3] < b[3]
<1>1. 1..0 = {} /\ 1..1 = {1} /\ 1..2 = {1, 2} /\ 1..3 = {1, 2, 3}
  OBVIOUS
<1>2. Before(a, b) <=> \/ a[1] < b[1] /\ \A d \in 1..(1 - 1) : a[d] = b[d]
                       \/ a[2] < b[2] /\ \A d \in 1..(2 - 1) : a[d] = b[d]
                       \/ a[3] < b[3] /\ \A d \in 1..(3 - 1) : a[d] = b[d]
  BY <1>1 DEF Before, Columns
<1> QED
  BY <1>1, <1>2

LEMMA KeyFacts ==
    ASSUME NEW a \in Keys, NEW b \in Keys
    PROVE  /\ a # EOF
           /\ a[1] \in Nat /\ a[2] \in Nat /\ a[3] \in Nat
           /\ (a[1] = b[1] /\ a[2] = b[2] /\ a[3] = b[3]) => a = b
<1>1. 1..3 = {1, 2, 3} /\ 1..0 = {}
  OBVIOUS
<1>2. a # EOF
  BY DEF Keys, EOF, Columns
<1>3. (a[1] = b[1] /\ a[2] = b[2] /\ a[3] = b[3]) => a = b
  BY <1>1 DEF Keys, Columns
<1> QED
  BY <1>2, <1>3 DEF Keys, Columns

LEMMA BeforeOrders ==
    ASSUME NEW a \in Keys, NEW b \in Keys, NEW c \in Keys
    PROVE  /\ ~ Before(a, a)
           /\ Before(a, b) /\ Before(b, c) => Before(a, c)
           /\ a = b \/ Before(a, b) \/ Before(b, a)
           /\ ~ (Before(a, b) /\ Before(b, a))
BY BeforeMeans, KeyFacts, BeforeMeans, SMT

LEMMA LeastNatural ==
    ASSUME NEW T, T \subseteq Nat, T # {}
    PROVE  \E x \in T : \A y \in T : x <= y
<1>1. PICK x \in T : \A y \in T : <<y, x>> \notin OpToRel(<, Nat)
  BY NatLessThanWellFounded, WFMin, Zenon
<1>2. \A y \in T : ~ (y < x)
  BY <1>1 DEF OpToRel
<1> QED
  BY <1>2

\* raxSeek finds the least of the rows asked for, when there is one.
LEMMA FirstOfLeast ==
    ASSUME NEW S \in SUBSET Keys
    PROVE  IF S = {} THEN FirstOf(S) = EOF
                     ELSE FirstOf(S) \in S /\ \A o \in S : o = FirstOf(S) \/ Before(FirstOf(S), o)
<1>1. CASE S = {}
  BY <1>1 DEF FirstOf
<1>2. CASE S # {}
  <2>1. \A r \in S : r \in Keys /\ r[1] \in Nat /\ r[2] \in Nat /\ r[3] \in Nat
    BY KeyFacts
  <2> DEFINE A == {r[1] : r \in S}
  <2>2. PICK x \in A : \A y \in A : x <= y
    <3>1. A \subseteq Nat /\ A # {}
      BY <2>1, <1>2
    <3> QED
      BY <3>1, LeastNatural
  <2> DEFINE B == {r[2] : r \in {s \in S : s[1] = x}}
  <2>3. PICK y \in B : \A z \in B : y <= z
    <3>1. B \subseteq Nat /\ B # {}
      BY <2>1, <2>2
    <3> QED
      BY <3>1, LeastNatural
  <2> DEFINE C == {r[3] : r \in {s \in S : s[1] = x /\ s[2] = y}}
  <2>4. PICK z \in C : \A w \in C : z <= w
    <3>1. C \subseteq Nat /\ C # {}
      BY <2>1, <2>3
    <3> QED
      BY <3>1, LeastNatural
  <2>5. PICK r \in S : r[1] = x /\ r[2] = y /\ r[3] = z
    OBVIOUS
  <2>6. ASSUME NEW o \in S PROVE o = r \/ Before(r, o)
    <3>1. x <= o[1]
      BY <2>2
    <3>2. o[1] = x => y <= o[2]
      BY <2>3
    <3>3. o[1] = x /\ o[2] = y => z <= o[3]
      BY <2>4
    <3> HIDE DEF A, B, C
    <3>4. (o[1] = r[1] /\ o[2] = r[2] /\ o[3] = r[3]) => o = r
      BY <2>1, KeyFacts
    <3>5. Before(r, o) <=> \/ r[1] < o[1]
                           \/ r[1] = o[1] /\ r[2] < o[2]
                           \/ r[1] = o[1] /\ r[2] = o[2] /\ r[3] < o[3]
      BY <2>1, BeforeMeans
    <3>6. /\ r[1] \in Nat /\ r[2] \in Nat /\ r[3] \in Nat
          /\ o[1] \in Nat /\ o[2] \in Nat /\ o[3] \in Nat
      BY <2>1
    <3> QED
      BY <2>5, <3>1, <3>2, <3>3, <3>4, <3>5, <3>6
  <2> QED
    BY <1>2, <2>6 DEF FirstOf
<1> QED
  BY <1>1, <1>2

-----------------------------------------------------------------------------
(* Iterators *)

\* The row r against the values that an iterator holds in its first d columns.
Agrees(r, val, d) == \A c \in 1..d : r[c] = val[c]

Beyond(r, val, d) == \E c \in 1..d : val[c] < r[c] /\ \A e \in 1..(c - 1) : r[e] = val[e]

Behind(r, val, d) == \E c \in 1..d : r[c] < val[c] /\ \A e \in 1..(c - 1) : r[e] = val[e]

LEMMA AgreesMeans ==
    ASSUME NEW r, NEW v
    PROVE  /\ Agrees(r, v, 0)
           /\ Agrees(r, v, 1) <=> r[1] = v[1]
           /\ Agrees(r, v, 2) <=> r[1] = v[1] /\ r[2] = v[2]
           /\ Agrees(r, v, 3) <=> r[1] = v[1] /\ r[2] = v[2] /\ r[3] = v[3]
<1>1. 1..0 = {} /\ 1..1 = {1} /\ 1..2 = {1, 2} /\ 1..3 = {1, 2, 3}
  OBVIOUS
<1> QED
  BY <1>1 DEF Agrees

LEMMA BeyondMeans ==
    ASSUME NEW r, NEW v
    PROVE  /\ ~ Beyond(r, v, 0)
           /\ Beyond(r, v, 1) <=> v[1] < r[1]
           /\ Beyond(r, v, 2) <=> v[1] < r[1] \/ (r[1] = v[1] /\ v[2] < r[2])
           /\ Beyond(r, v, 3) <=> \/ v[1] < r[1]
                                  \/ r[1] = v[1] /\ v[2] < r[2]
                                  \/ r[1] = v[1] /\ r[2] = v[2] /\ v[3] < r[3]
<1>1. 1..0 = {} /\ 1..1 = {1} /\ 1..2 = {1, 2} /\ 1..3 = {1, 2, 3} /\ 1 - 1 = 0 /\ 2 - 1 = 1 /\ 3 - 1 = 2
  OBVIOUS
<1> DEFINE P(c) == v[c] < r[c] /\ \A e \in 1..(c - 1) : r[e] = v[e]
<1>2. /\ P(1) <=> v[1] < r[1]
      /\ P(2) <=> r[1] = v[1] /\ v[2] < r[2]
      /\ P(3) <=> r[1] = v[1] /\ r[2] = v[2] /\ v[3] < r[3]
  BY <1>1
<1>3. \A d : Beyond(r, v, d) <=> \E c \in 1..d : P(c)
  BY DEF Beyond
<1> HIDE DEF P
<1>4. /\ ~ Beyond(r, v, 0)
      /\ Beyond(r, v, 1) <=> P(1)
      /\ Beyond(r, v, 2) <=> P(1) \/ P(2)
      /\ Beyond(r, v, 3) <=> P(1) \/ P(2) \/ P(3)
  BY <1>1, <1>3
<1> QED
  BY <1>2, <1>4

LEMMA BehindMeans ==
    ASSUME NEW r, NEW v
    PROVE  /\ ~ Behind(r, v, 0)
           /\ Behind(r, v, 1) <=> r[1] < v[1]
           /\ Behind(r, v, 2) <=> r[1] < v[1] \/ (r[1] = v[1] /\ r[2] < v[2])
           /\ Behind(r, v, 3) <=> \/ r[1] < v[1]
                                  \/ r[1] = v[1] /\ r[2] < v[2]
                                  \/ r[1] = v[1] /\ r[2] = v[2] /\ r[3] < v[3]
<1>1. 1..0 = {} /\ 1..1 = {1} /\ 1..2 = {1, 2} /\ 1..3 = {1, 2, 3} /\ 1 - 1 = 0 /\ 2 - 1 = 1 /\ 3 - 1 = 2
  OBVIOUS
<1> DEFINE P(c) == r[c] < v[c] /\ \A e \in 1..(c - 1) : r[e] = v[e]
<1>2. /\ P(1) <=> r[1] < v[1]
      /\ P(2) <=> r[1] = v[1] /\ r[2] < v[2]
      /\ P(3) <=> r[1] = v[1] /\ r[2] = v[2] /\ r[3] < v[3]
  BY <1>1
<1>3. \A d : Behind(r, v, d) <=> \E c \in 1..d : P(c)
  BY DEF Behind
<1> HIDE DEF P
<1>4. /\ ~ Behind(r, v, 0)
      /\ Behind(r, v, 1) <=> P(1)
      /\ Behind(r, v, 2) <=> P(1) \/ P(2)
      /\ Behind(r, v, 3) <=> P(1) \/ P(2) \/ P(3)
  BY <1>1, <1>3
<1> QED
  BY <1>2, <1>4

Iterators == [depth : 0..3, val : Keys, pos : Keys \union {EOF}]

\* What holds of an iterator over the rows between two steps: a row has the
\* values it holds, and the row it is at is neither before these rows nor past
\* the first row after them; on the deepest level it is at the row itself.
Good(x, R) ==
    /\ x.depth # 0 => \E r \in R : Agrees(r, x.val, x.depth)
    /\ x.pos # EOF => x.pos \in R /\ ~ Behind(x.pos, x.val, x.depth)
    /\ \A r \in R : Beyond(r, x.val, x.depth) => x.pos # EOF /\ ~ Before(r, x.pos)
    /\ x.depth = 3 => x.pos = x.val

\* iterator_up keeps it.
LEMMA ClosedGood ==
    ASSUME NEW R \in SUBSET Keys, NEW x \in Iterators, Good(x, R), NEW k \in 0..x.depth
    PROVE  Closed(x, k) \in Iterators /\ Good(Closed(x, k), R)
<1> DEFINE y == Closed(x, k)
<1>1. y.depth = x.depth - k /\ y.val = x.val /\ y.pos = x.pos
  BY DEF Closed, Iterators
<1>2. x.depth \in 0..3 /\ y.depth \in 0..3 /\ y.depth <= x.depth
  BY <1>1 DEF Iterators
<1>3. y \in Iterators
  BY <1>1, <1>2 DEF Closed, Iterators
<1>4. \A r \in R : /\ Agrees(r, x.val, x.depth) => Agrees(r, x.val, y.depth)
                   /\ Beyond(r, x.val, y.depth) => Beyond(r, x.val, x.depth)
                   /\ Behind(r, x.val, y.depth) => Behind(r, x.val, x.depth)
  <2> HIDE DEF y
  <2>1. \A c \in 1..y.depth : c \in 1..x.depth
    BY <1>2
  <2> QED
    BY <2>1 DEF Agrees, Beyond, Behind
<1>5. y.depth = 3 => k = 0 /\ x.depth = 3
  BY <1>1, <1>2
<1>6. y.depth # 0 => x.depth # 0
  BY <1>2
<1> HIDE DEF y
<1>7. Good(y, R)
  BY <1>1, <1>4, <1>5, <1>6 DEF Good
<1> QED
  BY <1>3, <1>7 DEF y

\* Where raxSeek goes for a key in column d.
From(x, d, key) == [c \in Columns |-> IF c < d THEN x.val[c] ELSE IF c = d THEN key ELSE NULL]

LEMMA FromOrders ==
    ASSUME NEW x \in Iterators, NEW d \in Columns, NEW key \in Nat, NEW r \in Keys
    PROVE  /\ From(x, d, key) \in Keys
           /\ ~ Before(r, From(x, d, key)) <=>
                  Beyond(r, x.val, d - 1) \/ (Agrees(r, x.val, d - 1) /\ key <= r[d])
<1> DEFINE f == From(x, d, key)
<1>1. x.val \in Keys
  BY DEF Iterators
<1>2. f \in Keys
  BY <1>1 DEF From, Keys, Columns, NULL
<1>3. d = 1 \/ d = 2 \/ d = 3
  BY DEF Columns
<1>4. /\ d = 1 => f[1] = key /\ f[2] = 0 /\ f[3] = 0
      /\ d = 2 => f[1] = x.val[1] /\ f[2] = key /\ f[3] = 0
      /\ d = 3 => f[1] = x.val[1] /\ f[2] = x.val[2] /\ f[3] = key
  BY DEF From, Columns, NULL
<1> HIDE DEF f
<1>5. Before(r, f) <=> \/ r[1] < f[1]
                       \/ r[1] = f[1] /\ r[2] < f[2]
                       \/ r[1] = f[1] /\ r[2] = f[2] /\ r[3] < f[3]
  BY <1>2, BeforeMeans
<1>6. /\ r[1] \in Nat /\ r[2] \in Nat /\ r[3] \in Nat
      /\ x.val[1] \in Nat /\ x.val[2] \in Nat /\ x.val[3] \in Nat
  BY <1>1, KeyFacts
<1>7. 1 - 1 = 0 /\ 2 - 1 = 1 /\ 3 - 1 = 2
  OBVIOUS
<1>8. ~ Before(r, f) <=> Beyond(r, x.val, d - 1) \/ (Agrees(r, x.val, d - 1) /\ key <= r[d])
  <2>1. CASE d = 1
    BY <2>1, <1>4, <1>5, <1>6, AgreesMeans, BeyondMeans
  <2>2. CASE d = 2
    BY <2>2, <1>4, <1>5, <1>6, <1>7, AgreesMeans, BeyondMeans
  <2>3. CASE d = 3
    BY <2>3, <1>4, <1>5, <1>6, <1>7, AgreesMeans, BeyondMeans
  <2> QED
    BY <1>3, <2>1, <2>2, <2>3
<1> QED
  BY <1>2, <1>8 DEF f

LEMMA SideFacts ==
    ASSUME NEW q \in Keys, NEW r \in Keys, NEW v \in Keys, NEW d \in 0..3
    PROVE  /\ Agrees(q, v, d) \/ Beyond(q, v, d) \/ Behind(q, v, d)
           /\ Beyond(q, v, d) => ~ Agrees(q, v, d) /\ ~ Behind(q, v, d)
           /\ Agrees(q, v, d) => ~ Behind(q, v, d)
           /\ Beyond(q, v, d) /\ ~ Beyond(r, v, d) => Before(r, q)
           /\ Behind(r, v, d) /\ ~ Behind(q, v, d) => Before(r, q)
<1>1. d = 0 \/ d = 1 \/ d = 2 \/ d = 3
  OBVIOUS
<1>2. /\ r[1] \in Nat /\ r[2] \in Nat /\ r[3] \in Nat
      /\ q[1] \in Nat /\ q[2] \in Nat /\ q[3] \in Nat
      /\ v[1] \in Nat /\ v[2] \in Nat /\ v[3] \in Nat
  BY KeyFacts
<1>3. Before(r, q) <=> \/ r[1] < q[1]
                       \/ r[1] = q[1] /\ r[2] < q[2]
                       \/ r[1] = q[1] /\ r[2] = q[2] /\ r[3] < q[3]
  BY BeforeMeans
<1>4. CASE d = 0
  BY <1>4, AgreesMeans, BeyondMeans, BehindMeans
<1>5. CASE d = 1
  BY <1>5, <1>2, <1>3, AgreesMeans, BeyondMeans, BehindMeans
<1>6. CASE d = 2
  BY <1>6, <1>2, <1>3, AgreesMeans, BeyondMeans, BehindMeans
<1>7. CASE d = 3
  BY <1>7, <1>2, <1>3, AgreesMeans, BeyondMeans, BehindMeans
<1> QED
  BY <1>1, <1>4, <1>5, <1>6, <1>7

\* The values of an iterator that has taken column d of the row q.
Taken(v, d, q) == [v EXCEPT ![d] = q[d]]

\* What an iterator takes from a row that is under the values above column d.
LEMMA TakenFacts ==
    ASSUME NEW q \in Keys, NEW r \in Keys, NEW v \in Keys, NEW d \in Columns,
           Agrees(q, v, d - 1)
    PROVE  /\ Taken(v, d, q) \in Keys
           /\ Taken(v, d, q)[d] = q[d]
           /\ \A c \in Columns \ {d} : Taken(v, d, q)[c] = v[c]
           /\ Agrees(q, Taken(v, d, q), d)
           /\ Beyond(r, Taken(v, d, q), d) => ~ Before(r, q)
           /\ d = 3 => q = Taken(v, d, q)
           /\ Agrees(r, v, d - 1) /\ (r = q \/ Before(q, r)) => q[d] <= r[d]
           /\ Agrees(r, v, d - 1) /\ q[d] < r[d] => Beyond(r, Taken(v, d, q), d)
           /\ Agrees(r, Taken(v, d, q), d) <=> Agrees(r, v, d - 1) /\ r[d] = q[d]
<1> DEFINE w == Taken(v, d, q)
<1>1. d = 1 \/ d = 2 \/ d = 3
  BY DEF Columns
<1>2. /\ w \in Keys /\ w[d] = q[d] /\ \A c \in Columns \ {d} : w[c] = v[c]
  BY DEF Keys, Taken
<1>3. /\ r[1] \in Nat /\ r[2] \in Nat /\ r[3] \in Nat
      /\ q[1] \in Nat /\ q[2] \in Nat /\ q[3] \in Nat
      /\ v[1] \in Nat /\ v[2] \in Nat /\ v[3] \in Nat
  BY KeyFacts
<1>4. /\ Before(r, q) <=> \/ r[1] < q[1]
                          \/ r[1] = q[1] /\ r[2] < q[2]
                          \/ r[1] = q[1] /\ r[2] = q[2] /\ r[3] < q[3]
      /\ Before(q, r) <=> \/ q[1] < r[1]
                          \/ q[1] = r[1] /\ q[2] < r[2]
                          \/ q[1] = r[1] /\ q[2] = r[2] /\ q[3] < r[3]
  BY BeforeMeans
<1>5. 1 - 1 = 0 /\ 2 - 1 = 1 /\ 3 - 1 = 2
  OBVIOUS
<1>6. /\ d = 1 => w[1] = q[1] /\ w[2] = v[2] /\ w[3] = v[3]
      /\ d = 2 => w[1] = v[1] /\ w[2] = q[2] /\ w[3] = v[3]
      /\ d = 3 => w[1] = v[1] /\ w[2] = v[2] /\ w[3] = q[3]
  BY <1>2 DEF Columns
<1>7. w[1] = q[1] /\ w[2] = q[2] /\ w[3] = q[3] => w = q
  BY <1>2, KeyFacts
<1>11. SUFFICES /\ w \in Keys
                /\ w[d] = q[d]
                /\ \A c \in Columns \ {d} : w[c] = v[c]
                /\ Agrees(q, w, d)
                /\ Beyond(r, w, d) => ~ Before(r, q)
                /\ d = 3 => q = w
                /\ Agrees(r, v, d - 1) /\ (r = q \/ Before(q, r)) => q[d] <= r[d]
                /\ Agrees(r, v, d - 1) /\ q[d] < r[d] => Beyond(r, w, d)
                /\ Agrees(r, w, d) <=> Agrees(r, v, d - 1) /\ r[d] = q[d]
  OBVIOUS
<1> HIDE DEF w
<1>8. CASE d = 1
  BY <1>8, <1>2, <1>3, <1>4, <1>6, AgreesMeans, BeyondMeans
<1>9. CASE d = 2
  BY <1>9, <1>2, <1>3, <1>4, <1>5, <1>6, AgreesMeans, BeyondMeans
<1>10. CASE d = 3
  <2>1. v[1] = q[1] /\ v[2] = q[2]
    BY <1>10, <1>5, AgreesMeans
  <2>2. q = w
    BY <2>1, <1>6, <1>7, <1>10
  <2> QED
    BY <2>1, <2>2, <1>10, <1>2, <1>3, <1>4, <1>5, <1>6, AgreesMeans, BeyondMeans
<1> QED
  BY <1>1, <1>8, <1>9, <1>10

\* The rows from a key of column d on, under or past the values above it.
Onward(x, R, d, key) ==
    {r \in R : Beyond(r, x.val, d - 1) \/ (Agrees(r, x.val, d - 1) /\ key <= r[d])}

\* A step of an iterator on column d to the first row onward of a key: it takes
\* the least value from the key on, or there is none.
Reaches(x, R, d, key, a) ==
    /\ a.it.depth \in 0..3
    /\ a.ok => /\ a.it \in Iterators
               /\ a.it.depth = d
               /\ Good(a.it, R)
               /\ a.it.pos # EOF
               /\ \A c \in Columns \ {d} : a.it.val[c] = x.val[c]
               /\ key <= a.it.val[d]
               /\ \A r \in R : Agrees(r, x.val, d - 1) /\ key <= r[d] => a.it.val[d] <= r[d]
    /\ ~ a.ok => /\ \A r \in R : Agrees(r, x.val, d - 1) => r[d] < key
                 /\ a.it.depth = x.depth
                 /\ d = x.depth => Closed(a.it, 1) \in Iterators /\ Good(Closed(a.it, 1), R)
                                   /\ Closed(a.it, 1).val = x.val /\ Closed(a.it, 1).depth = d - 1

LEMMA ArriveReaches ==
    ASSUME NEW R \in SUBSET Keys, NEW x \in Iterators, Good(x, R), NEW d \in Columns, NEW key \in Nat
    PROVE  Reaches(x, R, d, key, Arrive(x, FirstOf(Onward(x, R, d, key)), d))
<1> DEFINE S == Onward(x, R, d, key)
           q == FirstOf(S)
           a == Arrive(x, q, d)
           v == x.val
<1>1. v \in Keys /\ x.depth \in 0..3 /\ d \in 1..3 /\ d - 1 \in 0..3
  BY DEF Iterators, Columns
<1>2. S \in SUBSET Keys
  BY DEF Onward
<1>3. \A r \in R : r \in S <=> Beyond(r, v, d - 1) \/ (Agrees(r, v, d - 1) /\ key <= r[d])
  BY DEF Onward
<1>4. S \subseteq R
  BY DEF Onward
<1>5. IF S = {} THEN q = EOF ELSE q \in S /\ \A o \in S : o = q \/ Before(q, o)
  BY <1>2, FirstOfLeast
<1>6. Under(x, q, d) <=> q # EOF /\ Agrees(q, v, d - 1)
  BY DEF Under, Agrees
<1>7. \A r \in Keys : r # EOF /\ r[d] \in Nat
  BY KeyFacts DEF Keys
<1>8. \A r \in R : Beyond(r, v, d - 1) => q \in S /\ ~ Before(r, q)
  BY <1>2, <1>3, <1>5, BeforeOrders
<1> HIDE DEF S, q, v
<1>9. CASE Under(x, q, d)
  <2> DEFINE w == Taken(v, d, q)
  <2>1. q \in S /\ q \in R /\ q \in Keys /\ Agrees(q, v, d - 1)
    BY <1>2, <1>4, <1>5, <1>6, <1>9
  <2>2. a.ok /\ a.it = [depth |-> d, val |-> w, pos |-> q]
    BY <1>9 DEF Arrive, v, Taken
  <2>3. /\ w \in Keys /\ w[d] = q[d] /\ Agrees(q, w, d) /\ (d = 3 => q = w)
        /\ \A c \in Columns \ {d} : w[c] = v[c]
    BY <2>1, <1>1, TakenFacts
  <2>4. \A r \in R : /\ Beyond(r, w, d) => ~ Before(r, q)
                     /\ Agrees(r, v, d - 1) /\ (r = q \/ Before(q, r)) => q[d] <= r[d]
    BY <2>1, <1>1, TakenFacts
  <2> HIDE DEF w
  <2>5. ~ Behind(q, w, d)
    BY <2>1, <2>3, <1>1, SideFacts
  <2>6. a.it \in Iterators
    BY <2>1, <2>2, <2>3, <1>1 DEF Iterators
  <2>7. Good(a.it, R)
    <3>1. a.it.depth = d /\ a.it.val = w /\ a.it.pos = q
      BY <2>2
    <3> QED
      BY <3>1, <2>1, <2>3, <2>4, <2>5, <1>7 DEF Good
  <2>8. key <= q[d]
    BY <2>1, <1>1, <1>3, SideFacts
  <2>9. \A r \in R : Agrees(r, v, d - 1) /\ key <= r[d] => q[d] <= r[d]
    BY <1>3, <1>5, <2>1, <2>4
  <2> QED
    BY <2>1, <2>2, <2>3, <2>6, <2>7, <2>8, <2>9, <1>1, <1>7 DEF Reaches, v, a, q, S
<1>10. CASE ~ Under(x, q, d)
  <2>1. ~ a.ok /\ a.it = [x EXCEPT !.pos = q]
    BY <1>10 DEF Arrive
  <2>2. a.it.depth = x.depth
    BY <2>1 DEF Iterators
  <2>3. ASSUME NEW r \in R, Agrees(r, v, d - 1) PROVE r[d] < key
    <3>1. SUFFICES ASSUME key <= r[d] PROVE FALSE
      BY <1>7
    <3>2. r \in S /\ q \in S /\ q \in R /\ q # EOF
      BY <2>3, <3>1, <1>2, <1>3, <1>4, <1>5, <1>7
    <3>3. ~ Agrees(q, v, d - 1)
      BY <3>2, <1>6, <1>10
    <3>4. Beyond(q, v, d - 1)
      BY <3>2, <3>3, <1>3
    <3>5. ~ Beyond(r, v, d - 1)
      BY <2>3, <1>1, SideFacts
    <3>6. Before(r, q)
      BY <3>2, <3>4, <3>5, <1>1, SideFacts
    <3> QED
      BY <3>2, <3>6, <1>5, <1>2, BeforeOrders
  <2>4. ASSUME d = x.depth
        PROVE  /\ Closed(a.it, 1) \in Iterators /\ Good(Closed(a.it, 1), R)
               /\ Closed(a.it, 1).val = x.val /\ Closed(a.it, 1).depth = d - 1
    <3> DEFINE z == Closed(a.it, 1)
    <3>1. z = [depth |-> d - 1, val |-> v, pos |-> q]
      <4>1. x = [depth |-> d, val |-> v, pos |-> x.pos]
        BY <2>4 DEF Iterators, v
      <4>2. a.it = [depth |-> d, val |-> v, pos |-> q]
        BY <2>1, <4>1
      <4> QED
        BY <4>2 DEF Closed
    <3>2. q # EOF => q \in S /\ q \in R /\ q \in Keys
      BY <1>2, <1>4, <1>5
    <3>3. z \in Iterators
      BY <3>1, <3>2, <1>1 DEF Iterators
    <3>4. q # EOF => Beyond(q, v, d - 1)
      BY <3>2, <1>3, <1>6, <1>10
    <3>5. q # EOF => ~ Behind(q, v, d - 1)
      BY <3>2, <3>4, <1>1, SideFacts
    <3>6. d - 1 # 0 => \E r \in R : Agrees(r, v, d - 1)
      <4>1. PICK r \in R : Agrees(r, v, d)
        BY <2>4, <1>1 DEF Good, v
      <4>2. Agrees(r, v, d - 1)
        BY <4>1, <1>1 DEF Agrees
      <4> QED
        BY <4>2
    <3>7. \A r \in R : Beyond(r, v, d - 1) => q # EOF /\ ~ Before(r, q)
      BY <1>2, <1>7, <1>8
    <3>8. z.depth = d - 1 /\ z.val = v /\ z.pos = q /\ d - 1 # 3
      BY <3>1, <1>1
    <3> HIDE DEF z
    <3>9. Good(z, R)
      BY <3>2, <3>5, <3>6, <3>7, <3>8 DEF Good
    <3> QED
      BY <3>3, <3>8, <3>9 DEF z, v
  <2> QED
    BY <2>1, <2>2, <2>3, <2>4, <1>1 DEF Reaches, v, a, q, S
<1> QED
  BY <1>9, <1>10

\* iterator_open and iterator_seek: the first row from the key on.
LEMMA SeekReaches ==
    ASSUME NEW i, Rows(i) \in SUBSET Keys, it[i] \in Iterators, Good(it[i], Rows(i)),
           NEW d \in Columns, NEW key \in Nat
    PROVE  Reaches(it[i], Rows(i), d, key, Arrive(it[i], SeekRow(i, d, key), d))
<1> DEFINE x == it[i]
           R == Rows(i)
<1>1. SeekRow(i, d, key) = FirstOf({r \in R : ~ Before(r, From(x, d, key))})
  BY DEF SeekRow, From
<1> HIDE DEF x, R
<1>2. x \in Iterators /\ R \in SUBSET Keys
  BY DEF x, R
<1>3. \A r \in R : ~ Before(r, From(x, d, key)) <=>
          Beyond(r, x.val, d - 1) \/ (Agrees(r, x.val, d - 1) /\ key <= r[d])
  BY <1>2, FromOrders
<1>4. {r \in R : ~ Before(r, From(x, d, key))} = Onward(x, R, d, key)
  BY <1>3 DEF Onward
<1> QED
  BY <1>1, <1>2, <1>4, ArriveReaches DEF x, R

\* iterator_next: the first row with a greater value.
LEMMA NextReaches ==
    ASSUME NEW i, Rows(i) \in SUBSET Keys, it[i] \in Iterators, Good(it[i], Rows(i)),
           it[i].depth # 0
    PROVE  /\ it[i].val[it[i].depth] \in Nat
           /\ Reaches(it[i], Rows(i), it[i].depth, it[i].val[it[i].depth] + 1, iterator_next(i))
<1> DEFINE x == it[i]
           R == Rows(i)
           v == x.val
           d == x.depth
           p == x.pos
           ahead == {r \in R : p # EOF /\ (Before(p, r) \/ (d < 3 /\ r = p))}
           S == {r \in ahead : d = 3 \/ ~ Under(x, r, d) \/ r[d] # v[d]}
<1>1. iterator_next(i) = Arrive(x, FirstOf(S), d)
  BY DEF iterator_next
<1>2. /\ d \in Columns /\ d \in 0..3 /\ d - 1 \in 0..3 /\ v \in Keys /\ v[d] \in Nat
      /\ p \in Keys \union {EOF} /\ x \in Iterators /\ R \in SUBSET Keys /\ Good(x, R)
  BY DEF Iterators, Keys, Columns
<1>3. \A r \in R : r \in S <=> /\ p # EOF
                               /\ Before(p, r) \/ (d < 3 /\ r = p)
                               /\ d = 3 \/ ~ Under(x, r, d) \/ r[d] # v[d]
  OBVIOUS
<1>4. S \subseteq R
  OBVIOUS
<1> HIDE DEF S, x, R
<1>5. \A r \in R : r # EOF /\ r \in Keys /\ r[d] \in Nat
  BY <1>2, KeyFacts DEF Keys
<1>6. \A r \in R : Under(x, r, d) /\ r[d] = v[d] <=> Agrees(r, v, d)
  BY <1>2, <1>5 DEF Under, Agrees, Columns
<1>7. \A r \in R : Beyond(r, v, d) <=> Beyond(r, v, d - 1) \/ (Agrees(r, v, d - 1) /\ v[d] + 1 <= r[d])
  <2> TAKE r \in R
  <2>1. /\ r[1] \in Nat /\ r[2] \in Nat /\ r[3] \in Nat
        /\ v[1] \in Nat /\ v[2] \in Nat /\ v[3] \in Nat
    BY <1>2, <1>5, KeyFacts
  <2>2. d = 1 \/ d = 2 \/ d = 3
    BY <1>2 DEF Columns
  <2>3. 1 - 1 = 0 /\ 2 - 1 = 1 /\ 3 - 1 = 2
    OBVIOUS
  <2> HIDE DEF d, v
  <2>4. CASE d = 1
    BY <2>1, <2>4, AgreesMeans, BeyondMeans
  <2>5. CASE d = 2
    BY <2>1, <2>3, <2>5, AgreesMeans, BeyondMeans
  <2>6. CASE d = 3
    BY <2>1, <2>3, <2>6, AgreesMeans, BeyondMeans
  <2> QED
    BY <2>2, <2>4, <2>5, <2>6
<1>8. ASSUME NEW r \in R, r \in S PROVE Beyond(r, v, d)
  <2>1. p \in Keys /\ p # EOF /\ ~ Behind(p, v, d) /\ (Before(p, r) \/ (d < 3 /\ r = p))
    BY <1>2, <1>3, <1>8 DEF Good
  <2>2. CASE d = 3
    <3>1. p = v /\ Before(v, r)
      BY <1>2, <2>1, <2>2 DEF Good
    <3>2. ~ Agrees(r, v, d)
      <4>1. Agrees(r, v, d) => r = v
        BY <1>2, <1>5, <2>2, AgreesMeans, KeyFacts
      <4> QED
        BY <1>2, <3>1, <4>1, BeforeOrders
    <3>3. ~ Behind(r, v, d)
      BY <1>2, <1>5, <2>1, <3>1, SideFacts, BeforeOrders
    <3> QED
      BY <1>2, <1>5, <3>2, <3>3, SideFacts
  <2>3. CASE d # 3
    <3>1. ~ Agrees(r, v, d)
      BY <1>3, <1>6, <1>8, <2>3
    <3>2. ~ Behind(r, v, d)
      BY <1>2, <1>5, <2>1, SideFacts, BeforeOrders
    <3> QED
      BY <1>2, <1>5, <3>1, <3>2, SideFacts
  <2> QED
    BY <2>2, <2>3
<1>9. ASSUME NEW r \in R, Beyond(r, v, d) PROVE r \in S
  <2>1. p \in Keys /\ p # EOF /\ ~ Before(r, p)
    BY <1>2, <1>9 DEF Good
  <2>2. ~ Agrees(r, v, d)
    BY <1>2, <1>5, <1>9, SideFacts
  <2>3. r = p => d < 3
    <3>1. d = 3 => Agrees(p, v, d)
      BY <1>2 DEF Good, Agrees
    <3> QED
      BY <1>2, <2>2, <3>1
  <2> QED
    BY <1>2, <1>3, <1>5, <1>6, <2>1, <2>2, <2>3, BeforeOrders
<1>10. S = Onward(x, R, d, v[d] + 1)
  BY <1>4, <1>7, <1>8, <1>9 DEF Onward
<1>11. v[d] + 1 \in Nat
  BY <1>2
<1>12. Reaches(x, R, d, v[d] + 1, iterator_next(i))
  BY <1>1, <1>2, <1>10, <1>11, ArriveReaches
<1> QED
  BY <1>2, <1>12 DEF x, R

-----------------------------------------------------------------------------
(* The order of the variables *)

\* The places of the elements of a finite set in a total order R of it.
Place(x, S, R) == Cardinality({y \in S : <<y, x>> \in R})

Orders(R, S) ==
    /\ \A x \in S : <<x, x>> \in R
    /\ \A x, y \in S : <<x, y>> \in R \/ <<y, x>> \in R
    /\ \A x, y \in S : <<x, y>> \in R /\ <<y, x>> \in R => x = y
    /\ \A x, y, z \in S : <<x, y>> \in R /\ <<y, z>> \in R => <<x, z>> \in R

\* They are the numbers up to its size, each of them once, in that order.
LEMMA PlacesCount ==
    ASSUME NEW S, IsFiniteSet(S), NEW R, Orders(R, S)
    PROVE  /\ \A x \in S : Place(x, S, R) \in 1..Cardinality(S)
           /\ \A x, y \in S : Place(x, S, R) <= Place(y, S, R) => <<x, y>> \in R
           /\ \A x, y \in S : Place(x, S, R) = Place(y, S, R) => x = y
           /\ \A k \in 1..Cardinality(S) : \E x \in S : Place(x, S, R) = k
<1> DEFINE Upto(x) == {y \in S : <<y, x>> \in R}
           place == [x \in S |-> Place(x, S, R)]
           T == 1..Cardinality(S)
<1>1. Cardinality(S) \in Nat
  BY FS_CardinalityType
<1>2. \A x \in S : Upto(x) \in SUBSET S /\ x \in Upto(x)
  BY DEF Orders
<1>3. \A x \in S : IsFiniteSet(Upto(x)) /\ Cardinality(Upto(x)) \in Nat
                   /\ Cardinality(Upto(x)) <= Cardinality(S)
  BY <1>2, FS_Subset, FS_CardinalityType
<1>4. \A x \in S : Cardinality(Upto(x)) # 0
  BY <1>2, <1>3, FS_EmptySet
<1>5. \A x \in S : Place(x, S, R) = Cardinality(Upto(x))
  BY DEF Place
<1> HIDE DEF Upto
<1>6. \A x \in S : Place(x, S, R) \in T
  BY <1>1, <1>3, <1>4, <1>5
<1>7. ASSUME NEW x \in S, NEW y \in S, Place(x, S, R) <= Place(y, S, R)
      PROVE  <<x, y>> \in R
  <2>1. SUFFICES ASSUME <<x, y>> \notin R PROVE FALSE
    OBVIOUS
  <2>2. <<y, x>> \in R
    BY <2>1 DEF Orders
  <2>3. Upto(y) \in SUBSET Upto(x)
    BY <2>2 DEF Upto, Orders
  <2>4. x \in Upto(x) /\ x \notin Upto(y)
    BY <2>1, <1>2 DEF Upto
  <2>5. Cardinality(Upto(y)) <= Cardinality(Upto(x)) /\ (Cardinality(Upto(x)) = Cardinality(Upto(y)) => Upto(x) = Upto(y))
    BY <1>3, <2>3, FS_Subset
  <2>6. Cardinality(Upto(x)) <= Cardinality(Upto(y))
    BY <1>5, <1>7
  <2> QED
    BY <1>3, <2>4, <2>5, <2>6
<1>8. \A x, y \in S : Place(x, S, R) = Place(y, S, R) => x = y
  <2> TAKE x \in S, y \in S
  <2> HAVE Place(x, S, R) = Place(y, S, R)
  <2>1. Place(x, S, R) <= Place(y, S, R) /\ Place(y, S, R) <= Place(x, S, R)
    BY <1>6, <1>1
  <2>2. <<x, y>> \in R /\ <<y, x>> \in R
    BY <2>1, <1>7
  <2> QED
    BY <2>2 DEF Orders
<1>9. place \in Injection(S, T)
  BY <1>6, <1>8 DEF Injection, IsInjective
<1>10. IsFiniteSet(T) /\ Cardinality(T) = Cardinality(S)
  BY <1>1, FS_Interval
<1>11. place \in Surjection(S, T)
  BY <1>9, <1>10, FS_Injection
<1>12. \A k \in T : \E x \in S : place[x] = k
  BY <1>11 DEF Surjection
<1> QED
  BY <1>6, <1>7, <1>8, <1>12

\* The nth term of the patterns, as CollectVars counts them.
NthTerm(n) == query.goals[1 + (n \div 3)][1 + (n % 3)]

LEMMA NthTermFacts ==
    ASSUME NEW L \in Nat
    PROVE  /\ \A n \in 0..(3 * L - 1) : 1 + (n \div 3) \in 1..L /\ 1 + (n % 3) \in Columns
           /\ \A i \in 1..L, c \in Columns :
                  LET n == 3 * (i - 1) + (c - 1)
                  IN  n \in 0..(3 * L - 1) /\ 1 + (n \div 3) = i /\ 1 + (n % 3) = c
<1>1. ASSUME NEW n \in 0..(3 * L - 1) PROVE 1 + (n \div 3) \in 1..L /\ 1 + (n % 3) \in Columns
  BY DEF Columns
<1>2. ASSUME NEW i \in 1..L, NEW c \in Columns
      PROVE  LET n == 3 * (i - 1) + (c - 1)
             IN  n \in 0..(3 * L - 1) /\ 1 + (n \div 3) = i /\ 1 + (n % 3) = c
  <2> DEFINE n == 3 * (i - 1) + (c - 1)
  <2>1. n \in Int /\ n = 3 * i + c - 4 /\ (c = 1 \/ c = 2 \/ c = 3)
    BY DEF Columns
  <2> HIDE DEF n
  <2>2. n \in 0..(3 * L - 1)
    BY <2>1
  <2>3. n \div 3 = i - 1 /\ n % 3 = c - 1
    BY <2>1
  <2>4. n \in 0..(3 * L - 1) /\ 1 + (n \div 3) = i /\ 1 + (n % 3) = c
    BY <2>1, <2>2, <2>3
  <2> QED
    BY <2>4 DEF n
<1> QED
  BY <1>1, <1>2

\* CollectVars lists the variables of the patterns, each of them once.
LEMMA CollectVarsFacts ==
    ASSUME query \in Calls
    PROVE  \E N \in Nat :
               /\ CollectVars = [k \in 1..N |-> CollectVars[k]]
               /\ \A k \in 1..N : CollectVars[k] \in Vars
               /\ \A k, m \in 1..N : CollectVars[k] = CollectVars[m] => k = m
               /\ \A v \in Vars : (\E k \in 1..N : CollectVars[k] = v)
                                  <=> \E i \in Patterns, c \in Columns : query.goals[i][c] = v
<1> DEFINE L == Len(query.goals)
           D == 0..(3 * L - 1)
           first == {n \in D : NthTerm(n) \in Vars /\ \A m \in 0..(n - 1) : NthTerm(m) # NthTerm(n)}
           R == {p \in first \X first : p[1] <= p[2]}
           N == Cardinality(first)
           nth(k) == CHOOSE n \in first : Cardinality({m \in first : m <= n}) = k
<1>1. L \in Nat /\ Patterns = 1..L
  BY LftjAssumption DEF LftjAssumption, Patterns
<1>2. CollectVars = [k \in 1..N |-> NthTerm(nth(k))]
  BY DEF CollectVars, NthTerm
<1>3. IsFiniteSet(first)
  <2>1. IsFiniteSet(D)
    BY <1>1, FS_Interval
  <2> QED
    BY <2>1, FS_Subset
<1>4. \A n \in first : n \in Nat /\ n \in D /\ NthTerm(n) \in Vars
  BY <1>1
<1>5. \A n, m \in first : NthTerm(n) = NthTerm(m) => n = m
  <2> SUFFICES ASSUME NEW n \in first, NEW m \in first, NthTerm(n) = NthTerm(m), n < m
               PROVE  FALSE
    BY <1>4
  <2>1. n \in 0..(m - 1)
    BY <1>4
  <2> QED
    BY <2>1
<1>6. ASSUME NEW n \in D, NthTerm(n) \in Vars PROVE \E m \in first : NthTerm(m) = NthTerm(n)
  <2> DEFINE T == {m \in D : NthTerm(m) = NthTerm(n)}
  <2>1. PICK m \in T : \A x \in T : m <= x
    <3>1. T \subseteq Nat /\ n \in T
      BY <1>1
    <3> QED
      BY <3>1, LeastNatural
  <2>2. \A x \in 0..(m - 1) : x \in D /\ x \in Nat /\ ~ (m <= x)
    BY <1>1
  <2>3. m \in first
    BY <1>6, <2>1, <2>2
  <2> QED
    BY <2>3
<1>7. Orders(R, first)
  <2>1. \A x, y \in first : <<x, y>> \in R <=> x <= y
    OBVIOUS
  <2> HIDE DEF R, first
  <2> QED
    BY <1>4, <2>1 DEF Orders
<1>8. \A n \in first : Place(n, first, R) = Cardinality({m \in first : m <= n})
  <2> TAKE n \in first
  <2>1. {m \in first : <<m, n>> \in R} = {m \in first : m <= n}
    OBVIOUS
  <2> HIDE DEF R, first
  <2> QED
    BY <2>1 DEF Place
<1> HIDE DEF first, R
<1>9. N \in Nat
  BY <1>3, FS_CardinalityType
<1>10. /\ \A n \in first : Place(n, first, R) \in 1..N
       /\ \A k \in 1..N : \E n \in first : Place(n, first, R) = k
  BY <1>3, <1>7, PlacesCount
<1>11. \A n, m \in first : Place(n, first, R) = Place(m, first, R) => n = m
  BY <1>3, <1>7, PlacesCount
<1>12. \A k \in 1..N : nth(k) \in first /\ Place(nth(k), first, R) = k
  <2> TAKE k \in 1..N
  <2>1. \E n \in first : Cardinality({m \in first : m <= n}) = k
    BY <1>8, <1>10
  <2>2. nth(k) \in first /\ Cardinality({m \in first : m <= nth(k)}) = k
    BY <2>1
  <2> QED
    BY <1>8, <2>2
<1> HIDE DEF nth, N, L
<1>13. \A k \in 1..N : CollectVars[k] = NthTerm(nth(k)) /\ CollectVars[k] \in Vars
  BY <1>2, <1>4, <1>12
<1>14. \A k, m \in 1..N : CollectVars[k] = CollectVars[m] => k = m
  BY <1>5, <1>12, <1>13
<1>15. CollectVars = [k \in 1..N |-> CollectVars[k]]
  BY <1>2
<1>16. ASSUME NEW v \in Vars, NEW i \in Patterns, NEW c \in Columns, query.goals[i][c] = v
       PROVE  \E k \in 1..N : CollectVars[k] = v
  <2> DEFINE n == 3 * (i - 1) + (c - 1)
  <2>1. n \in D /\ 1 + (n \div 3) = i /\ 1 + (n % 3) = c
    <3> HIDE DEF L, first, D
    <3>1. i \in 1..L
      BY <1>1
    <3>2. L \in Nat
      BY <1>1
    <3>3. n \in 0..(3 * L - 1) /\ 1 + (n \div 3) = i /\ 1 + (n % 3) = c
      BY <3>1, <3>2, NthTermFacts
    <3> QED
      BY <3>3 DEF D
  <2> HIDE DEF n
  <2>2. NthTerm(n) = v
    BY <1>16, <2>1 DEF NthTerm
  <2>3. PICK m \in first : NthTerm(m) = v
    BY <1>6, <2>1, <2>2
  <2>4. Place(m, first, R) \in 1..N /\ nth(Place(m, first, R)) = m
    BY <1>10, <1>11, <1>12
  <2> QED
    BY <1>13, <2>3, <2>4
<1>17. ASSUME NEW v \in Vars, NEW k \in 1..N, CollectVars[k] = v
       PROVE  \E i \in Patterns, c \in Columns : query.goals[i][c] = v
  <2>1. nth(k) \in D /\ NthTerm(nth(k)) = v
    BY <1>4, <1>12, <1>13, <1>17
  <2>2. 1 + (nth(k) \div 3) \in Patterns /\ 1 + (nth(k) % 3) \in Columns
    BY <1>1, <2>1, NthTermFacts
  <2> QED
    BY <2>1, <2>2 DEF NthTerm
<1> QED
  BY <1>9, <1>13, <1>14, <1>15, <1>16, <1>17

LEMMA SequenceLength ==
    ASSUME NEW q, NEW N \in Nat, q = [k \in 1..N |-> q[k]]
    PROVE  Len(q) = N /\ DOMAIN q = 1..N
<1> DEFINE S == {q[k] : k \in 1..N}
<1>1. q \in [1..N -> S]
  OBVIOUS
<1>2. q \in Seq(S)
  BY <1>1
<1> QED
  BY <1>1, <1>2

LEMMA IntervalSize ==
    ASSUME NEW N \in Nat
    PROVE  IsFiniteSet(1..N) /\ Cardinality(1..N) = N
BY FS_Interval

Distinct(s) == \A a, b \in DOMAIN s : s[a] = s[b] => a = b

\* sort_iterators puts them in the order of their keys.
LEMMA SortedFacts ==
    ASSUME NEW N \in Nat, NEW active, active = [k \in 1..N |-> active[k]],
           \A k \in 1..N : Key(active[k]) \in Nat
    PROVE  /\ Sorted(active) = [k \in 1..N |-> Sorted(active)[k]]
           /\ ToSet(Sorted(active)) = ToSet(active)
           /\ \A j, k \in 1..N : j <= k => Key(Sorted(active)[j]) <= Key(Sorted(active)[k])
           /\ Distinct(active) => Distinct(Sorted(active))
<1> DEFINE S == 1..N
           key(n) == Key(active[n])
           NotAfter(a, b) == key(a) < key(b) \/ (key(a) = key(b) /\ a <= b)
           R == {p \in S \X S : NotAfter(p[1], p[2])}
           Rank(n) == Cardinality({m \in S : NotAfter(m, n)})
           nth(k) == CHOOSE n \in S : Rank(n) = k
           out == Sorted(active)
<1>1. DOMAIN active = S
  OBVIOUS
<1>2. out = [k \in S |-> active[nth(k)]]
  BY <1>1 DEF Sorted
<1>3. IsFiniteSet(S) /\ Cardinality(S) = N
  BY IntervalSize
<1>4. \A m, n \in S : <<m, n>> \in R <=> NotAfter(m, n)
  OBVIOUS
<1>5. \A n \in S : n \in Nat /\ key(n) \in Nat
  OBVIOUS
<1>6. Orders(R, S)
  <2> HIDE DEF R, S, key
  <2>1. \A x \in S : NotAfter(x, x)
    BY <1>5
  <2>2. \A x, y \in S : NotAfter(x, y) \/ NotAfter(y, x)
    BY <1>5
  <2>3. \A x, y \in S : NotAfter(x, y) /\ NotAfter(y, x) => x = y
    BY <1>5
  <2>4. \A x, y, z \in S : NotAfter(x, y) /\ NotAfter(y, z) => NotAfter(x, z)
    BY <1>5
  <2> HIDE DEF NotAfter
  <2> QED
    BY <1>4, <2>1, <2>2, <2>3, <2>4 DEF Orders
<1>7. \A n \in S : Place(n, S, R) = Rank(n)
  <2> TAKE n \in S
  <2> HIDE DEF NotAfter
  <2>1. {m \in S : <<m, n>> \in R} = {m \in S : NotAfter(m, n)}
    BY <1>4
  <2> QED
    BY <2>1 DEF Place
<1> HIDE DEF R, Rank, S, out
<1>8. /\ \A n \in S : Place(n, S, R) \in S
      /\ \A k \in S : \E n \in S : Place(n, S, R) = k
      /\ \A x, y \in S : Place(x, S, R) <= Place(y, S, R) => <<x, y>> \in R
      /\ \A x, y \in S : Place(x, S, R) = Place(y, S, R) => x = y
  <2>1. S = 1..Cardinality(S)
    BY <1>3 DEF S
  <2> QED
    BY <1>3, <1>6, <2>1, PlacesCount
<1>9. \A k \in S : nth(k) \in S /\ Place(nth(k), S, R) = k
  <2> TAKE k \in S
  <2>1. \E n \in S : Rank(n) = k
    BY <1>7, <1>8
  <2>2. nth(k) \in S /\ Rank(nth(k)) = k
    BY <2>1
  <2> QED
    BY <1>7, <2>2
<1> HIDE DEF nth
<1>10. \A k \in S : out[k] = active[nth(k)]
  BY <1>2
<1>11. \A j, k \in S : j <= k => Key(out[j]) <= Key(out[k])
  <2> TAKE j \in S, k \in S
  <2> HAVE j <= k
  <2>1. <<nth(j), nth(k)>> \in R
    BY <1>8, <1>9
  <2>2. NotAfter(nth(j), nth(k))
    BY <1>4, <1>9, <2>1
  <2>3. key(nth(j)) <= key(nth(k))
    <3> HIDE DEF key
    <3> QED
      BY <1>5, <1>9, <2>2
  <2> QED
    BY <1>10, <2>3
<1>12. DOMAIN out = S
  BY <1>2
<1>13. \A n \in S : \E k \in S : nth(k) = n
  <2> TAKE n \in S
  <2>1. Place(n, S, R) \in S /\ nth(Place(n, S, R)) = n
    BY <1>8, <1>9
  <2> QED
    BY <2>1
<1>14. ToSet(out) = ToSet(active)
  <2>1. ASSUME NEW k \in S PROVE out[k] \in ToSet(active)
    BY <1>1, <1>9, <1>10 DEF ToSet
  <2>2. ASSUME NEW n \in S PROVE active[n] \in ToSet(out)
    <3>1. PICK k \in S : nth(k) = n
      BY <1>13
    <3>2. out[k] = active[n]
      BY <1>10, <3>1
    <3> QED
      BY <1>12, <3>2 DEF ToSet
  <2> QED
    BY <1>1, <1>12, <2>1, <2>2 DEF ToSet
<1>15. \A j, k \in S : nth(j) = nth(k) => j = k
  BY <1>9
<1>16. Distinct(active) => Distinct(out)
  <2> SUFFICES ASSUME Distinct(active), NEW a \in S, NEW b \in S, out[a] = out[b] PROVE a = b
    BY <1>12 DEF Distinct
  <2>1. active[nth(a)] = active[nth(b)] /\ nth(a) \in S /\ nth(b) \in S
    BY <1>9, <1>10
  <2>2. nth(a) = nth(b)
    BY <1>1, <2>1 DEF Distinct
  <2> QED
    BY <1>15, <2>2
<1>17. out = [k \in S |-> out[k]]
  BY <1>2
<1> QED
  BY <1>11, <1>14, <1>16, <1>17 DEF out, S

-----------------------------------------------------------------------------
(* The plan of a call that fits *)

\* The state once Start has run.
Planned ==
    /\ query \in Calls
    /\ symbols \subseteq Symbols
    /\ \A f \in query.facts, c \in Columns : f[c] \in symbols
    /\ Constants \subseteq symbols
    /\ variables = CollectVars
    /\ cols = [i \in Patterns |-> trie_candidate_cols[BestCandidate(query.goals[i], variables)]]

LEMMA CandidateFacts ==
    \A n \in 1..3 : /\ trie_candidate_cols[n] \in [Columns -> Columns]
                    /\ \A c \in Columns : \E d \in Columns : trie_candidate_cols[n][d] = c
<1>1. 1..3 = {1, 2, 3}
  OBVIOUS
<1> DEFINE a == <<1, 2, 3>>
           b == <<2, 3, 1>>
           c == <<3, 1, 2>>
<1>2. /\ a[1] = 1 /\ a[2] = 2 /\ a[3] = 3 /\ b[1] = 2 /\ b[2] = 3 /\ b[3] = 1
      /\ c[1] = 3 /\ c[2] = 1 /\ c[3] = 2
  OBVIOUS
<1>3. a \in [Columns -> Columns] /\ b \in [Columns -> Columns] /\ c \in [Columns -> Columns]
  BY <1>1 DEF Columns
<1>4. trie_candidate_cols[1] = a /\ trie_candidate_cols[2] = b /\ trie_candidate_cols[3] = c
  BY DEF trie_candidate_cols
<1> HIDE DEF a, b, c
<1> QED
  BY <1>1, <1>2, <1>3, <1>4 DEF Columns

LEMMA BestCandidateIn ==
    ASSUME NEW goal, NEW order
    PROVE  BestCandidate(goal, order) \in 1..3
<1> DEFINE valid == {n \in 1..3 : IsValid(goal, trie_candidate_cols[n], order)}
           Consts(n) == ConstantsBeforeVars(goal, trie_candidate_cols[n])
           Best(n) == \A m \in valid : Consts(n) > Consts(m) \/ (Consts(n) = Consts(m) /\ n <= m)
<1>1. BestCandidate(goal, order) = IF valid = {} THEN 1 ELSE CHOOSE n \in valid : Best(n)
  BY DEF BestCandidate
<1>2. \A n : Consts(n) \in 0..3
  <2> TAKE n
  <2> DEFINE S == {c \in Columns : \A d \in 1..c : goal[trie_candidate_cols[n][d]] \notin Vars}
  <2>1. IsFiniteSet(1..3) /\ Cardinality(1..3) = 3 /\ S \in SUBSET (1..3)
    BY IntervalSize DEF Columns
  <2>2. IsFiniteSet(S) /\ Cardinality(S) <= 3
    <3> HIDE DEF S
    <3> QED
      BY <2>1, FS_Subset
  <2>3. Cardinality(S) \in Nat
    BY <2>2, FS_CardinalityType
  <2>4. Consts(n) = Cardinality(S)
    BY DEF ConstantsBeforeVars
  <2> QED
    BY <2>2, <2>3, <2>4
<1> HIDE DEF Consts
<1>3. ASSUME valid # {} PROVE \E n \in valid : Best(n)
  <2> DEFINE T == {3 - Consts(n) : n \in valid}
  <2>1. PICK x \in T : \A y \in T : x <= y
    <3>1. T \subseteq Nat /\ T # {}
      BY <1>2, <1>3
    <3> QED
      BY <3>1, LeastNatural
  <2> DEFINE U == {n \in valid : 3 - Consts(n) = x}
  <2>2. PICK n \in U : \A m \in U : n <= m
    <3>1. U \subseteq Nat /\ U # {}
      BY <2>1
    <3> QED
      BY <3>1, LeastNatural
  <2>3. ASSUME NEW m \in valid PROVE Consts(n) > Consts(m) \/ (Consts(n) = Consts(m) /\ n <= m)
    <3>1. 3 - Consts(n) <= 3 - Consts(m)
      BY <2>1, <2>2
    <3>2. Consts(n) = Consts(m) => n <= m
      BY <2>2
    <3> QED
      BY <1>2, <3>1, <3>2
  <2> QED
    BY <2>2, <2>3
<1>4. CASE valid = {}
  BY <1>1, <1>4
<1>5. CASE valid # {}
  <2>1. (CHOOSE n \in valid : Best(n)) \in valid
    <3> HIDE DEF Best, valid
    <3> QED
      BY <1>3, <1>5
  <2> QED
    BY <1>1, <1>5, <2>1
<1> QED
  BY <1>4, <1>5

\* The variables that the search has to find.
unknowns == {v \in Vars : query.given[v] = NULL}

term == [i \in Patterns |-> [c \in Columns |-> Term(i, c)]]

rows == [i \in Patterns |-> Rows(i)]

\* A constant after a variable to find.
Between(i, c) == c = 2 /\ term[i][1] \in unknowns /\ term[i][2] \notin unknowns

\* The level of the search that opens a column: that of its variable, the one
\* after it for a constant that follows it, and otherwise the first.
level == [i \in Patterns |->
             [c \in Columns |-> IF term[i][c] \in unknowns THEN Priority(term[i][c], variables)
                                ELSE IF Between(i, c) THEN Priority(term[i][1], variables) + 1
                                ELSE 1]]

Plan ==
    /\ Len(variables) \in Nat \ {0}
    /\ DOMAIN variables = 1..Len(variables)
    /\ \A k \in 1..Len(variables) : variables[k] \in Vars
    /\ \A k, m \in 1..Len(variables) : variables[k] = variables[m] => k = m
    /\ Len(query.goals) \in Nat \ {0}
    /\ Patterns = 1..Len(query.goals)
    /\ symbols \subseteq Symbols /\ symbols \subseteq Nat \ {0} /\ symbols \intersect Vars = {}
    /\ \A v \in Vars : query.given[v] \in symbols \union {NULL}
    /\ \A i \in Patterns : rows[i] \in SUBSET [Columns -> symbols]
    /\ \A i \in Patterns, c \in Columns :
           /\ term[i][c] \in symbols \union Vars
           /\ term[i][c] \in Vars => \E k \in 1..Len(variables) : variables[k] = term[i][c]
    /\ \A k \in 1..Len(variables) : \E i \in Patterns, c \in Columns : variables[k] = term[i][c]
    /\ \A i \in Patterns, c \in Columns : term[i][c] \in unknowns =>
           level[i][c] \in 1..Len(variables) /\ variables[level[i][c]] = term[i][c]
    /\ \A i \in Patterns, c \in Columns : term[i][c] \notin unknowns =>
           level[i][c] = IF Between(i, c) THEN level[i][1] + 1 ELSE 1
    /\ \A i \in Patterns, c \in Columns : Between(i, c) =>
           /\ term[i][2] \notin Vars
           /\ \A r \in rows[i] : \E s \in rows[i] : s[1] = r[1] /\ s[2] = term[i][2]
    /\ \A i \in Patterns, c, d \in Columns : c < d /\ term[i][c] \in unknowns =>
           level[i][c] < level[i][d] /\ (term[i][d] \in unknowns \/ Between(i, d))

LEMMA PlanHolds ==
    ASSUME Planned, Fits
    PROVE  Plan
<1> DEFINE n == Len(variables)
<1>1. query \in Calls /\ variables = CollectVars /\ symbols \subseteq Symbols
  BY DEF Planned
<1>2. /\ query.facts \subseteq Triples(Symbols)
      /\ query.goals \in Seq(Triples(Symbols \union Vars)) /\ query.goals # <<>>
      /\ query.given \in [Vars -> Symbols \union {NULL}]
      /\ Symbols \subseteq Nat \ {0} /\ Symbols \intersect Vars = {}
  BY <1>1, LftjAssumption DEF LftjAssumption, NULL
<1>3. PICK N \in Nat :
          /\ variables = [k \in 1..N |-> variables[k]]
          /\ \A k \in 1..N : variables[k] \in Vars
          /\ \A k, m \in 1..N : variables[k] = variables[m] => k = m
          /\ \A v \in Vars : (\E k \in 1..N : variables[k] = v)
                              <=> \E i \in Patterns, c \in Columns : query.goals[i][c] = v
  BY <1>1, CollectVarsFacts
<1>4. n = N /\ DOMAIN variables = 1..n /\ N # 0
  <2>1. n = N /\ DOMAIN variables = 1..N
    BY <1>3, SequenceLength
  <2>2. variables # <<>>
    BY <1>1 DEF Fits
  <2>3. N = 0 => variables = <<>>
    BY <1>3
  <2> QED
    BY <2>1, <2>2, <2>3
<1>5. Len(query.goals) \in Nat \ {0} /\ Patterns = 1..Len(query.goals)
  BY <1>2 DEF Patterns
<1>6. \A i \in Patterns : /\ cols[i] \in [Columns -> Columns]
                          /\ \A c \in Columns : \E d \in Columns : cols[i][d] = c
  <2> TAKE i \in Patterns
  <2> DEFINE b == BestCandidate(query.goals[i], variables)
  <2>1. b \in 1..3
    BY BestCandidateIn
  <2>2. cols[i] = trie_candidate_cols[b]
    BY DEF Planned
  <2> HIDE DEF b
  <2>3. /\ trie_candidate_cols[b] \in [Columns -> Columns]
        /\ \A c \in Columns : \E d \in Columns : trie_candidate_cols[b][d] = c
    BY <2>1, CandidateFacts
  <2> QED
    BY <2>2, <2>3, Zenon
<1>7. \A i \in Patterns, c \in Columns : query.goals[i][c] \in Symbols \union Vars
  BY <1>2, <1>5 DEF Triples
<1>8. \A i \in Patterns, c \in Columns : term[i][c] = query.goals[i][cols[i][c]]
  BY DEF term, Term
<1>9. \A i \in Patterns, c \in Columns : query.goals[i][c] \notin Vars => query.goals[i][c] \in symbols
  BY DEF Planned, Constants
<1>10. \A v \in Vars : query.given[v] \in symbols \union {NULL}
  BY DEF Fits
<1>11. \A i \in Patterns : rows[i] \in SUBSET [Columns -> symbols]
  <2> TAKE i \in Patterns
  <2>1. rows[i] = {InOrder(f, cols[i]) : f \in query.facts}
    BY DEF rows, Rows
  <2>2. ASSUME NEW f \in query.facts PROVE InOrder(f, cols[i]) \in [Columns -> symbols]
    BY <1>6 DEF InOrder, Planned
  <2> QED
    BY <2>1, <2>2
<1>12. \A i \in Patterns, c \in Columns :
           /\ term[i][c] \in symbols \union Vars
           /\ term[i][c] \in Vars => \E k \in 1..n : variables[k] = term[i][c]
  <2> TAKE i \in Patterns, c \in Columns
  <2>1. cols[i][c] \in Columns
    BY <1>6
  <2>2. term[i][c] \in symbols \union Vars
    BY <1>7, <1>8, <1>9, <2>1
  <2>3. term[i][c] \in Vars => \E k \in 1..N : variables[k] = term[i][c]
    BY <1>3, <1>8, <2>1
  <2> QED
    BY <1>4, <2>2, <2>3
<1>13. \A k \in 1..n : \E i \in Patterns, c \in Columns : variables[k] = term[i][c]
  <2> TAKE k \in 1..n
  <2>1. PICK i \in Patterns, c \in Columns : query.goals[i][c] = variables[k]
    BY <1>3, <1>4
  <2>2. PICK d \in Columns : cols[i][d] = c
    BY <1>6
  <2> QED
    BY <1>8, <2>1, <2>2
<1>14. \A k \in 1..n : Priority(variables[k], variables) = k
  BY <1>3, <1>4 DEF Priority
<1>15. \A i \in Patterns, c \in Columns : level[i][c] =
           IF term[i][c] \in unknowns THEN Priority(term[i][c], variables)
           ELSE IF Between(i, c) THEN Priority(term[i][1], variables) + 1 ELSE 1
  BY DEF level
<1>16. \A i \in Patterns, c \in Columns : term[i][c] \in unknowns =>
           level[i][c] \in 1..n /\ variables[level[i][c]] = term[i][c]
  <2> TAKE i \in Patterns, c \in Columns
  <2> HAVE term[i][c] \in unknowns
  <2>1. PICK k \in 1..n : variables[k] = term[i][c]
    BY <1>12 DEF unknowns
  <2> QED
    BY <1>14, <1>15, <2>1
<1>17. DOMAIN cols = Patterns
  BY DEF Planned
<1>18. ASSUME NEW i \in Patterns
       PROVE  /\ \A c \in Columns : Between(i, c) =>
                     /\ term[i][2] \notin Vars
                     /\ \A r \in rows[i] : \E s \in rows[i] : s[1] = r[1] /\ s[2] = term[i][2]
              /\ \A c, d \in Columns : c < d /\ term[i][c] \in unknowns =>
                     level[i][c] < level[i][d] /\ (term[i][d] \in unknowns \/ Between(i, d))
  <2> DEFINE row == InOrder(query.goals[i], cols[i])
             Unknown(t) == t \in Vars /\ query.given[t] = NULL
             InTurn(s, t) == Unknown(t) /\ Priority(s, variables) < Priority(t, variables)
  <2>1. \A x \in Columns : row[x] = term[i][x]
    BY <1>8 DEF InOrder
  <2>2. /\ Unknown(row[1]) => /\ InTurn(row[1], row[2]) \/ (row[2] \notin Vars /\ Everywhere(row[2], i))
                              /\ InTurn(row[1], row[3])
        /\ Unknown(row[2]) => InTurn(row[2], row[3])
    BY <1>17 DEF Fits
  <2>3. \A t : Unknown(t) <=> t \in unknowns
    BY DEF unknowns
  <2>4. 1 \in Columns /\ 2 \in Columns /\ 3 \in Columns
    BY DEF Columns
  <2>5. \A s, t : InTurn(s, t) <=> t \in unknowns /\ Priority(s, variables) < Priority(t, variables)
    BY <2>3
  <2> HIDE DEF row, Unknown, InTurn
  <2> DEFINE t1 == term[i][1]
             t2 == term[i][2]
             t3 == term[i][3]
             p1 == Priority(t1, variables)
             p2 == Priority(t2, variables)
             p3 == Priority(t3, variables)
  <2>6. /\ t1 \in unknowns => /\ (t2 \in unknowns /\ p1 < p2) \/ (t2 \notin Vars /\ Everywhere(t2, i))
                              /\ t3 \in unknowns /\ p1 < p3
        /\ t2 \in unknowns => t3 \in unknowns /\ p2 < p3
    BY <2>1, <2>2, <2>3, <2>4, <2>5
  <2>7. unknowns \subseteq Vars
    BY DEF unknowns
  <2>8. /\ t1 \in unknowns => level[i][1] = p1 /\ p1 \in Nat
        /\ t2 \in unknowns => level[i][2] = p2
        /\ t3 \in unknowns => level[i][3] = p3
        /\ Between(i, 2) => level[i][2] = p1 + 1
    BY <1>4, <1>15, <1>16, <2>4 DEF Between
  <2>9. \A c : Between(i, c) <=> c = 2 /\ t1 \in unknowns /\ t2 \notin unknowns
    BY DEF Between
  <2>10. Everywhere(t2, i) => \A r \in rows[i] : \E s \in rows[i] : s[1] = r[1] /\ s[2] = t2
    BY DEF Everywhere, rows
  <2>11. ASSUME NEW c \in Columns, Between(i, c)
         PROVE  t2 \notin Vars /\ \A r \in rows[i] : \E s \in rows[i] : s[1] = r[1] /\ s[2] = t2
    BY <2>6, <2>9, <2>10, <2>11
  <2> HIDE DEF t1, t2, t3, p1, p2, p3
  <2>12. ASSUME NEW c \in Columns, NEW d \in Columns, c < d, term[i][c] \in unknowns
         PROVE  level[i][c] < level[i][d] /\ (term[i][d] \in unknowns \/ Between(i, d))
    <3>1. CASE c = 1 /\ d = 2
      <4>1. t2 \notin unknowns => Between(i, 2) /\ level[i][1] < level[i][2]
        BY <2>8, <2>9, <2>12, <3>1 DEF t1
      <4>2. t2 \in unknowns => level[i][1] < level[i][2]
        BY <2>6, <2>7, <2>8, <2>12, <3>1 DEF t1
      <4> QED
        BY <3>1, <4>1, <4>2 DEF t2
    <3>2. CASE c = 1 /\ d = 3
      BY <2>6, <2>8, <2>12, <3>2 DEF t1, t3
    <3>3. CASE c = 2 /\ d = 3
      BY <2>6, <2>8, <2>12, <3>3 DEF t2, t3
    <3> QED
      BY <2>12, <3>1, <3>2, <3>3 DEF Columns
  <2> QED
    BY <2>11, <2>12 DEF t2
<1>20. \A i \in Patterns, c \in Columns : term[i][c] \notin unknowns =>
           level[i][c] = IF Between(i, c) THEN level[i][1] + 1 ELSE 1
  <2> TAKE i \in Patterns, c \in Columns
  <2>1. 1 \in Columns
    BY DEF Columns
  <2>2. Between(i, c) => level[i][1] = Priority(term[i][1], variables)
    BY <1>15, <2>1 DEF Between
  <2> QED
    BY <1>15, <2>2
<1>19. symbols \subseteq Nat \ {0} /\ symbols \intersect Vars = {}
  BY <1>1, <1>2
<1> QED
  BY <1>1, <1>3, <1>4, <1>5, <1>10, <1>11, <1>12, <1>13, <1>16, <1>18, <1>19, <1>20 DEF Plan

\* The columns of a pattern that the frames of the first m levels open, and the
\* patterns whose iterators take part in the search of a level.
depthAt == [i \in Patterns |-> [m \in 0..Len(variables) |->
               CHOOSE d \in 0..3 : \A c \in Columns : c <= d <=> level[i][c] <= m]]

activeAt == [m \in 1..Len(variables) |->
                {i \in Patterns : \E c \in Columns : term[i][c] \in unknowns /\ level[i][c] = m}]

LEMMA LevelFacts ==
    ASSUME Plan, NEW i \in Patterns
    PROVE  /\ level[i][1] \in Nat \ {0} /\ level[i][2] \in Nat \ {0} /\ level[i][3] \in Nat \ {0}
           /\ level[i][1] <= level[i][2] /\ level[i][2] <= level[i][3]
<1>1. 1 \in Columns /\ 2 \in Columns /\ 3 \in Columns /\ 1 < 2 /\ 1 < 3 /\ 2 < 3
  BY DEF Columns
<1>2. ASSUME NEW c \in Columns, term[i][c] \in unknowns PROVE level[i][c] \in Nat \ {0}
  <2>1. level[i][c] \in 1..Len(variables) /\ Len(variables) \in Nat
    BY <1>2 DEF Plan
  <2> QED
    BY <2>1
<1>3. ASSUME NEW c \in Columns, term[i][c] \notin unknowns
      PROVE  level[i][c] \in Nat \ {0} /\ (~ Between(i, c) => level[i][c] = 1)
  <2>1. level[i][c] = IF Between(i, c) THEN level[i][1] + 1 ELSE 1
    BY <1>3 DEF Plan
  <2>2. Between(i, c) => level[i][1] \in Nat \ {0}
    BY <1>1, <1>2 DEF Between
  <2> QED
    BY <2>1, <2>2
<1>4. ASSUME NEW c \in Columns, NEW d \in Columns, c < d, term[i][c] \in unknowns PROVE level[i][c] < level[i][d]
  BY <1>4 DEF Plan
<1>5. \A c \in Columns : level[i][c] \in Nat \ {0}
  BY <1>2, <1>3
<1>6. level[i][1] <= level[i][2]
  <2>1. term[i][1] \notin unknowns => level[i][1] = 1
    BY <1>1, <1>3 DEF Between
  <2> QED
    BY <1>1, <1>4, <1>5, <2>1
<1>7. level[i][2] <= level[i][3]
  <2>1. CASE term[i][2] \in unknowns
    BY <1>1, <1>4, <1>5, <2>1
  <2>2. CASE Between(i, 2)
    <3>1. level[i][2] = level[i][1] + 1
      BY <1>1, <2>2 DEF Between, Plan
    <3>2. level[i][1] < level[i][3]
      BY <1>1, <1>4, <2>2 DEF Between
    <3> QED
      BY <1>1, <1>5, <3>1, <3>2
  <2>3. CASE term[i][2] \notin unknowns /\ ~ Between(i, 2)
    BY <1>1, <1>3, <1>5, <2>3
  <2> QED
    BY <2>1, <2>2, <2>3
<1> QED
  BY <1>1, <1>5, <1>6, <1>7

LEMMA DepthFacts ==
    ASSUME Plan, NEW i \in Patterns, NEW m \in 0..Len(variables)
    PROVE  /\ depthAt[i][m] \in 0..3
           /\ \A c \in Columns : c <= depthAt[i][m] <=> level[i][c] <= m
           /\ m = 0 => depthAt[i][m] = 0
<1> DEFINE P(d) == \A c \in Columns : c <= d <=> level[i][c] <= m
<1>1. m \in Nat
  BY DEF Plan
<1>2. depthAt[i][m] = CHOOSE d \in 0..3 : P(d)
  BY DEF depthAt
<1>3. \A d \in 0..3 : P(d) <=> /\ 1 <= d <=> level[i][1] <= m
                               /\ 2 <= d <=> level[i][2] <= m
                               /\ 3 <= d <=> level[i][3] <= m
  BY DEF Columns
<1> HIDE DEF P
<1>4. \E d \in 0..3 : P(d)
  <2>1. CASE ~ (level[i][1] <= m)
    <3>1. P(0)
      BY <1>1, <1>3, <2>1, LevelFacts
    <3> QED
      BY <3>1
  <2>2. CASE level[i][1] <= m /\ ~ (level[i][2] <= m)
    <3>1. P(1)
      BY <1>1, <1>3, <2>2, LevelFacts
    <3> QED
      BY <3>1
  <2>3. CASE level[i][2] <= m /\ ~ (level[i][3] <= m)
    <3>1. P(2)
      BY <1>1, <1>3, <2>3, LevelFacts
    <3> QED
      BY <3>1
  <2>4. CASE level[i][3] <= m
    <3>1. P(3)
      BY <1>1, <1>3, <2>4, LevelFacts
    <3> QED
      BY <3>1
  <2> QED
    BY <1>1, <2>1, <2>2, <2>3, <2>4, LevelFacts
<1>5. depthAt[i][m] \in 0..3 /\ P(depthAt[i][m])
  BY <1>2, <1>4
<1>6. m = 0 => depthAt[i][m] = 0
  BY <1>3, <1>5, LevelFacts
<1> QED
  BY <1>5, <1>6 DEF P

\* What a level adds to the depth of an iterator: columns with known values,
\* and then that of its variable.
LEMMA LevelSteps ==
    ASSUME Plan, NEW i \in Patterns, NEW m \in 1..Len(variables),
           NEW d, d = depthAt[i][m], NEW e, e = depthAt[i][m - 1]
    PROVE  /\ d \in 0..3 /\ e \in 0..3 /\ e <= d
           /\ m = 1 => e = 0
           /\ i \in activeAt[m] => /\ d \in Columns /\ e <= d - 1
                                   /\ term[i][d] = variables[m] /\ term[i][d] \in unknowns
                                   /\ level[i][d] = m
                                   /\ \A c \in Columns : c < d => level[i][c] <= m - 1
                                                               \/ term[i][c] \notin unknowns
           /\ i \notin activeAt[m] =>
                  \A c \in Columns : c <= d => level[i][c] <= m - 1 \/ term[i][c] \notin unknowns
<1>1. m \in Nat \ {0} /\ m - 1 \in 0..Len(variables) /\ m \in 0..Len(variables) /\ 1 <= m
  BY DEF Plan
<1>2. /\ d \in 0..3 /\ \A c \in Columns : c <= d <=> level[i][c] <= m
      /\ e \in 0..3 /\ \A c \in Columns : c <= e <=> level[i][c] <= m - 1
      /\ m - 1 = 0 => e = 0
  BY <1>1, DepthFacts
<1>3. \A c \in Columns : level[i][c] \in Nat \ {0} /\ c \in 1..3
  BY LevelFacts DEF Columns
<1>4. e <= d
  <2>1. CASE e = 0
    BY <1>2, <2>1
  <2>2. CASE e # 0
    <3>1. e \in Columns
      BY <1>2, <2>2 DEF Columns
    <3>2. level[i][e] <= m - 1
      BY <1>2, <3>1
    <3> QED
      BY <1>1, <1>2, <1>3, <3>1, <3>2
  <2> QED
    BY <2>1, <2>2
<1>5. i \in activeAt[m] <=> \E c \in Columns : term[i][c] \in unknowns /\ level[i][c] = m
  BY DEF activeAt
<1>6. ASSUME i \in activeAt[m]
      PROVE  /\ d \in Columns /\ e <= d - 1
             /\ term[i][d] = variables[m] /\ term[i][d] \in unknowns
             /\ level[i][d] = m
             /\ \A c \in Columns : c < d => level[i][c] <= m - 1 \/ term[i][c] \notin unknowns
  <2>1. PICK c \in Columns : term[i][c] \in unknowns /\ level[i][c] = m
    BY <1>5, <1>6
  <2>2. \A x \in Columns : c < x => m < level[i][x]
    BY <2>1 DEF Plan
  <2>3. c <= d /\ \A x \in Columns : c < x => ~ (x <= d)
    BY <1>1, <1>2, <1>3, <2>1, <2>2
  <2>4. c = d
    <3>1. c \in 1..3 /\ (c # d => c + 1 \in Columns /\ c + 1 <= d)
      BY <1>2, <1>3, <2>3 DEF Columns
    <3> QED
      BY <2>3, <3>1
  <2>5. ~ (d <= e)
    BY <1>1, <1>2, <2>1, <2>4
  <2>6. ASSUME NEW x \in Columns, x < d PROVE level[i][x] <= m - 1 \/ term[i][x] \notin unknowns
    <3>1. term[i][x] \in unknowns => level[i][x] < m
      BY <2>1, <2>4, <2>6 DEF Plan
    <3> QED
      BY <1>1, <1>3, <3>1
  <2>8. e <= d - 1
    BY <1>2, <2>5
  <2>9. term[i][d] = variables[m]
    BY <2>1, <2>4 DEF Plan
  <2> QED
    BY <2>1, <2>4, <2>6, <2>8, <2>9
<1>7. ASSUME i \notin activeAt[m], NEW c \in Columns, c <= d
      PROVE  level[i][c] <= m - 1 \/ term[i][c] \notin unknowns
  <2>1. term[i][c] \in unknowns => level[i][c] # m
    BY <1>5, <1>7
  <2> QED
    BY <1>1, <1>2, <1>3, <1>7, <2>1
<1> QED
  BY <1>1, <1>2, <1>4, <1>6, <1>7

\* A variable to find has a pattern whose iterator looks for it.
LEMMA ActiveFacts ==
    ASSUME Plan, NEW m \in 1..Len(variables)
    PROVE  /\ activeAt[m] \subseteq Patterns
           /\ variables[m] \in unknowns <=> activeAt[m] # {}
<1>1. activeAt[m] = {i \in Patterns : \E c \in Columns : term[i][c] \in unknowns /\ level[i][c] = m}
  BY DEF activeAt
<1>2. ASSUME variables[m] \in unknowns PROVE activeAt[m] # {}
  <2>1. PICK i \in Patterns, c \in Columns : variables[m] = term[i][c]
    BY DEF Plan
  <2>2. level[i][c] = m
    BY <1>2, <2>1 DEF Plan
  <2> QED
    BY <1>1, <1>2, <2>1, <2>2
<1>3. ASSUME activeAt[m] # {} PROVE variables[m] \in unknowns
  BY <1>1, <1>3 DEF Plan
<1> QED
  BY <1>1, <1>2, <1>3

-----------------------------------------------------------------------------
(* The answers *)

\* The row of a pattern's trie that an answer asks for.
AnswerRow(i, a) == [c \in Columns |-> IF term[i][c] \in Vars THEN a[term[i][c]] ELSE term[i][c]]

LEMMA AnswerFacts ==
    ASSUME Planned
    PROVE  \A a : a \in Answers <=>
               /\ a \in [ToSet(variables) -> Symbols]
               /\ \A v \in ToSet(variables) : query.given[v] \in {NULL, a[v]}
               /\ \A i \in Patterns : AnswerRow(i, a) \in rows[i]
<1>1. variables = CollectVars
  BY DEF Planned
<1>2. \A i \in Patterns : /\ cols[i] \in [Columns -> Columns]
                          /\ \A c \in Columns : \E d \in Columns : cols[i][d] = c
  <2> TAKE i \in Patterns
  <2> DEFINE b == BestCandidate(query.goals[i], variables)
  <2>1. b \in 1..3
    BY BestCandidateIn
  <2>2. cols[i] = trie_candidate_cols[b]
    BY DEF Planned
  <2> HIDE DEF b
  <2>3. /\ trie_candidate_cols[b] \in [Columns -> Columns]
        /\ \A c \in Columns : \E d \in Columns : trie_candidate_cols[b][d] = c
    BY <2>1, CandidateFacts
  <2> QED
    BY <2>2, <2>3, Zenon
<1>3. \A f \in query.facts : f = [c \in Columns |-> f[c]]
  BY LftjAssumption DEF LftjAssumption, Planned, Triples
<1>4. ASSUME NEW a, NEW i \in Patterns
      PROVE  Instance(query.goals[i], a) \in query.facts <=> AnswerRow(i, a) \in rows[i]
  <2> DEFINE g == Instance(query.goals[i], a)
             r == AnswerRow(i, a)
  <2>1. \A c \in Columns : r[c] = g[cols[i][c]]
    BY <1>2 DEF AnswerRow, Instance, term, Term
  <2>2. g = [c \in Columns |-> g[c]] /\ r = [c \in Columns |-> r[c]]
    BY DEF Instance, AnswerRow
  <2>3. rows[i] = {InOrder(f, cols[i]) : f \in query.facts}
    BY DEF rows, Rows
  <2> HIDE DEF g, r
  <2>4. \A f \in query.facts : InOrder(f, cols[i]) = r <=> \A c \in Columns : f[cols[i][c]] = g[cols[i][c]]
    BY <2>1, <2>2 DEF InOrder
  <2>5. \A f \in query.facts : (\A c \in Columns : f[cols[i][c]] = g[cols[i][c]]) <=> f = g
    <3> TAKE f \in query.facts
    <3>1. ASSUME \A c \in Columns : f[cols[i][c]] = g[cols[i][c]], NEW c \in Columns
          PROVE  f[c] = g[c]
      <4>1. PICK d \in Columns : cols[i][d] = c
        BY <1>2
      <4> QED
        BY <3>1, <4>1
    <3> QED
      BY <1>3, <2>2, <3>1
  <2> QED
    BY <2>3, <2>4, <2>5 DEF g, r
<1>5. ASSUME NEW a \in [ToSet(variables) -> Symbols]
      PROVE  a \in Answers <=> /\ \A v \in ToSet(variables) : query.given[v] \in {NULL, a[v]}
                               /\ \A i \in Patterns : AnswerRow(i, a) \in rows[i]
  <2>1. a \in Answers <=> /\ \A v \in ToSet(variables) : query.given[v] \in {NULL, a[v]}
                          /\ \A i \in Patterns : Instance(query.goals[i], a) \in query.facts
    BY <1>1, <1>5 DEF Answers
  <2> QED
    BY <1>4, <2>1
<1>6. \A a \in Answers : a \in [ToSet(variables) -> Symbols]
  BY <1>1 DEF Answers
<1> QED
  BY <1>5, <1>6

\* There are finitely many.
LEMMA AnswersFinite ==
    ASSUME query \in Calls
    PROVE  IsFiniteSet(Answers)
<1> DEFINE V == ToSet(CollectVars)
           FC == query.facts \X Columns
           F == [p \in FC |-> p[1][p[2]]]
           T == {F[p] : p \in FC}
           P == SUBSET (V \X T)
           G == [a \in Answers |-> {p \in V \X T : a[p[1]] = p[2]}]
<1>1. PICK N \in Nat :
          /\ CollectVars = [k \in 1..N |-> CollectVars[k]]
          /\ \A v \in Vars : (\E k \in 1..N : CollectVars[k] = v)
                              <=> \E i \in Patterns, c \in Columns : query.goals[i][c] = v
          /\ \A k \in 1..N : CollectVars[k] \in Vars
  BY CollectVarsFacts
<1>2. V = {CollectVars[k] : k \in 1..N}
  BY <1>1 DEF ToSet
<1>3. IsFiniteSet(V)
  <2> DEFINE f == [k \in 1..N |-> CollectVars[k]]
  <2>1. f \in Surjection(1..N, V)
    BY <1>2 DEF Surjection
  <2> QED
    BY <2>1, IntervalSize, FS_Surjection
<1>4. IsFiniteSet(T)
  <2>1. IsFiniteSet(FC)
    <3>1. IsFiniteSet(query.facts)
      BY LftjAssumption DEF LftjAssumption
    <3>2. IsFiniteSet(Columns)
      BY IntervalSize DEF Columns
    <3> QED
      BY <3>1, <3>2, FS_Product
  <2>2. F \in Surjection(FC, T)
    BY DEF Surjection
  <2> QED
    BY <2>1, <2>2, FS_Surjection
<1>5. IsFiniteSet(P)
  BY <1>3, <1>4, FS_Product, FS_SUBSET
<1>6. \A a \in Answers : a = [v \in V |-> a[v]]
  BY DEF Answers
<1>7. ASSUME NEW a \in Answers, NEW v \in V PROVE a[v] \in T
  <2>1. v \in Vars
    BY <1>1, <1>2
  <2>2. PICK i \in Patterns, c \in Columns : query.goals[i][c] = v
    BY <1>1, <1>2, <2>1
  <2>3. Instance(query.goals[i], a) \in query.facts
    BY DEF Answers
  <2>4. Instance(query.goals[i], a)[c] = a[v]
    BY <2>1, <2>2 DEF Instance
  <2>5. <<Instance(query.goals[i], a), c>> \in FC /\ F[<<Instance(query.goals[i], a), c>>] = a[v]
    BY <2>3, <2>4
  <2> QED
    BY <2>5
<1> HIDE DEF V, T
<1>8. ASSUME NEW a \in Answers, NEW b \in Answers, G[a] = G[b] PROVE a = b
  <2>1. ASSUME NEW v \in V PROVE a[v] = b[v]
    <3>1. <<v, a[v]>> \in G[a]
      BY <1>7
    <3>2. <<v, a[v]>> \in G[b]
      BY <1>8, <3>1
    <3> QED
      BY <3>2
  <2> QED
    BY <1>6, <2>1
<1>9. G \in Injection(Answers, P)
  <2>1. \A a \in Answers : G[a] \in P
    OBVIOUS
  <2>2. G = [a \in Answers |-> G[a]]
    OBVIOUS
  <2> HIDE DEF G, P
  <2>3. G \in [Answers -> P]
    BY <2>1, <2>2
  <2> QED
    BY <1>8, <2>3 DEF Injection, IsInjective
<1> HIDE DEF G, P
<1> QED
  BY <1>5, <1>9, FS_Injection

-----------------------------------------------------------------------------
(* The answers ahead of the search *)

\* The variables to find on the first m levels.
lower == [m \in 0..Len(variables) |-> {v \in unknowns : \E k \in 1..m : variables[k] = v}]

\* The value of a term that is known before the search.
knownAs == [t \in symbols \union Vars |-> IF t \in Vars THEN query.given[t] ELSE t]

Same(a, b, S) == \A v \in S : a[v] = b[v]

\* The answer a comes after the bindings b on one of the first m levels, and
\* agrees with them on the levels before it.
Past(a, b, m, vs, low) ==
    \E k \in 1..m : vs[k] \in low[k] /\ Same(a, b, low[k - 1]) /\ b[vs[k]] < a[vs[k]]

LEMMA LowerFacts ==
    ASSUME Plan, NEW m \in 1..Len(variables)
    PROVE  /\ variables[m] \in Vars
           /\ m \in 0..Len(variables) /\ m - 1 \in 0..Len(variables) /\ m - 1 \in Nat /\ m \in Nat \ {0}
           /\ lower[m] \subseteq unknowns /\ lower[m - 1] \subseteq lower[m]
           /\ variables[m] \notin lower[m - 1]
           /\ variables[m] \in unknowns => lower[m] = lower[m - 1] \union {variables[m]}
           /\ variables[m] \notin unknowns => lower[m] = lower[m - 1]
           /\ variables[m] \in lower[m] <=> variables[m] \in unknowns
<1>1. /\ m \in 0..Len(variables) /\ m - 1 \in 0..Len(variables) /\ m - 1 \in Nat /\ m \in Nat \ {0}
      /\ variables[m] \in Vars
  BY DEF Plan
<1>2. /\ lower[m] = {v \in unknowns : \E k \in 1..m : variables[k] = v}
      /\ lower[m - 1] = {v \in unknowns : \E k \in 1..(m - 1) : variables[k] = v}
  BY <1>1 DEF lower
<1>3. \A k \in 1..m : k = m \/ k \in 1..(m - 1)
  BY <1>1
<1>4. \A k \in 1..(m - 1) : k \in 1..m /\ k # m /\ k \in 1..Len(variables)
  BY <1>1
<1>5. m \in 1..m
  BY <1>1
<1>6. variables[m] \notin lower[m - 1]
  BY <1>2, <1>4 DEF Plan
<1> QED
  BY <1>1, <1>2, <1>3, <1>4, <1>5, <1>6

LEMMA LowerStart ==
    ASSUME Plan
    PROVE  /\ 0 \in 0..Len(variables) /\ Len(variables) \in 0..Len(variables)
           /\ lower[0] = {}
           /\ \A v \in unknowns : (\E k \in 1..Len(variables) : variables[k] = v)
                                  <=> v \in lower[Len(variables)]
           /\ \A m \in 0..Len(variables) : lower[m] \subseteq unknowns
<1>1. 0 \in 0..Len(variables) /\ Len(variables) \in 0..Len(variables)
  BY DEF Plan
<1>2. \A m \in 0..Len(variables) : lower[m] = {v \in unknowns : \E k \in 1..m : variables[k] = v}
  BY DEF lower
<1>3. \A v : ~ \E k \in 1..0 : variables[k] = v
  OBVIOUS
<1> QED
  BY <1>1, <1>2, <1>3

\* A term to find is below a level if a frame of the level opens its column.
LEMMA LowerTerms ==
    ASSUME Plan, NEW i \in Patterns, NEW c \in Columns, NEW m \in 0..Len(variables)
    PROVE  term[i][c] \in lower[m] <=> term[i][c] \in unknowns /\ level[i][c] <= m
<1>1. lower[m] = {v \in unknowns : \E k \in 1..m : variables[k] = v}
  BY DEF lower
<1>2. CASE term[i][c] \in unknowns
  <2>1. level[i][c] \in 1..Len(variables) /\ variables[level[i][c]] = term[i][c]
    BY <1>2 DEF Plan
  <2>2. \A k \in 1..Len(variables) : variables[k] = term[i][c] => k = level[i][c]
    BY <2>1 DEF Plan
  <2>3. Len(variables) \in Nat
    BY DEF Plan
  <2> QED
    BY <1>1, <1>2, <2>1, <2>2, <2>3
<1>3. CASE term[i][c] \notin unknowns
  BY <1>1, <1>3
<1> QED
  BY <1>2, <1>3

LEMMA PastSteps ==
    ASSUME Plan, NEW a, NEW b
    PROVE  /\ ~ Past(a, b, 0, variables, lower)
           /\ \A m \in 1..Len(variables) : Past(a, b, m, variables, lower) <=>
                  \/ Past(a, b, m - 1, variables, lower)
                  \/ /\ variables[m] \in unknowns
                     /\ Same(a, b, lower[m - 1])
                     /\ b[variables[m]] < a[variables[m]]
           /\ \A m \in 0..Len(variables) :
                  b \in [Vars -> Nat] /\ Past(a, b, m, variables, lower) => ~ Same(a, b, lower[m])
<1> DEFINE P(k) == variables[k] \in lower[k] /\ Same(a, b, lower[k - 1]) /\ b[variables[k]] < a[variables[k]]
<1>1. \A m : Past(a, b, m, variables, lower) <=> \E k \in 1..m : P(k)
  BY DEF Past
<1>2. ~ Past(a, b, 0, variables, lower)
  BY <1>1
<1>3. ASSUME NEW m \in 1..Len(variables)
      PROVE  Past(a, b, m, variables, lower) <=>
                 \/ Past(a, b, m - 1, variables, lower)
                 \/ variables[m] \in unknowns /\ Same(a, b, lower[m - 1]) /\ b[variables[m]] < a[variables[m]]
  <2>1. P(m) <=> variables[m] \in unknowns /\ Same(a, b, lower[m - 1]) /\ b[variables[m]] < a[variables[m]]
    BY LowerFacts
  <2>2. m \in Nat \ {0}
    BY LowerFacts
  <2> HIDE DEF P
  <2>3. \A k : k \in 1..m <=> k = m \/ k \in 1..(m - 1)
    BY <2>2
  <2> QED
    BY <1>1, <2>1, <2>3
<1>4. ASSUME NEW m \in 0..Len(variables), b \in [Vars -> Nat],
             Past(a, b, m, variables, lower), Same(a, b, lower[m])
      PROVE  FALSE
  <2>1. PICK k \in 1..m : P(k)
    BY <1>1, <1>4
  <2>2. k \in 0..Len(variables) /\ k \in 1..m /\ m \in Nat /\ k \in Nat
    BY DEF Plan
  <2>3. lower[k] \subseteq lower[m] /\ lower[k] \subseteq unknowns
    BY <2>2 DEF lower
  <2>4. a[variables[k]] = b[variables[k]]
    BY <1>4, <2>1, <2>3 DEF Same
  <2>5. b[variables[k]] \in Nat
    BY <1>4, <2>1, <2>3 DEF unknowns
  <2> QED
    BY <2>1, <2>4, <2>5
<1> QED
  BY <1>2, <1>3, <1>4

\* They say nothing of the bindings above the level.
LEMMA PastBelow ==
    ASSUME Plan, NEW m \in 0..Len(variables), NEW a, NEW b, NEW c, Same(c, b, lower[m])
    PROVE  /\ Past(a, b, m, variables, lower) <=> Past(a, c, m, variables, lower)
           /\ Same(a, b, lower[m]) <=> Same(a, c, lower[m])
<1>1. \A k \in 1..m : /\ lower[k] \subseteq lower[m] /\ lower[k - 1] \subseteq lower[m]
  <2> TAKE k \in 1..m
  <2>1. k \in 0..Len(variables) /\ k - 1 \in 0..Len(variables) /\ k \in Nat /\ m \in Nat
    BY DEF Plan
  <2> QED
    BY <2>1 DEF lower
<1>2. \A k \in 1..m : /\ Same(a, b, lower[k - 1]) <=> Same(a, c, lower[k - 1])
                      /\ variables[k] \in lower[k] => b[variables[k]] = c[variables[k]]
  BY <1>1 DEF Same
<1>3. Past(a, b, m, variables, lower) <=> Past(a, c, m, variables, lower)
  BY <1>2 DEF Past
<1> QED
  BY <1>3 DEF Same

\* A step of the search leaves the plan alone.
PlanSame ==
    /\ query' = query /\ symbols' = symbols /\ variables' = variables
    /\ Patterns' = Patterns /\ unknowns' = unknowns /\ term' = term /\ rows' = rows
    /\ level' = level /\ depthAt' = depthAt /\ activeAt' = activeAt
    /\ Answers' = Answers /\ lower' = lower /\ knownAs' = knownAs

LEMMA PlanKept ==
    ASSUME UNCHANGED <<query, symbols, variables, cols>>
    PROVE  /\ PlanSame
           /\ Planned' = Planned /\ Fits' = Fits
<1>1. Patterns' = Patterns /\ unknowns' = unknowns
  BY DEF Patterns, unknowns
<1>2. term' = term /\ rows' = rows
  BY <1>1 DEF term, Term, rows, Rows
<1>3. level' = level
  BY <1>1, <1>2 DEF level, Between, Priority
<1>4. depthAt' = depthAt /\ activeAt' = activeAt
  BY <1>1, <1>2, <1>3 DEF depthAt, activeAt
<1>5. CollectVars' = CollectVars
  BY DEF CollectVars
<1>6. Answers' = Answers
  BY <1>1, <1>5 DEF Answers
<1>7. Planned' = Planned
  BY <1>1, <1>5 DEF Planned, Constants
<1>8. Fits' = Fits
  BY <1>1, <1>5 DEF Fits, Everywhere, Rows
<1>9. lower' = lower /\ knownAs' = knownAs
  BY <1>1 DEF lower, knownAs
<1> QED
  BY <1>1, <1>2, <1>3, <1>4, <1>6, <1>7, <1>8, <1>9 DEF PlanSame

-----------------------------------------------------------------------------
(* The invariant *)

\* The frames that have opened their columns, and the levels whose variables
\* have a value.
full == IF pc \in {"open", "seek"} THEN Len(stack) - 1 ELSE Len(stack)

matched == IF pc \in {"enter", "return"} THEN Len(stack) ELSE Len(stack) - 1

\* The value in the column that an iterator has opened last.
Deepest(x) == x.val[x.depth]

\* The answers that the search has still to count.
ahead ==
    {a \in Answers :
        \/ Past(a, bound, matched, variables, lower)
        \/ /\ pc # "return"
           /\ Same(a, bound, lower[matched])
           /\ pc \in {"search", "leap"} => \A i \in activeAt[Len(stack)] : Deepest(it[i]) <= a[variables[Len(stack)]]}

CountFits ==
    /\ solutions \in Nat
    /\ IF starved THEN solutions <= Cardinality(Answers \ ahead)
                  ELSE solutions = Cardinality(Answers \ ahead)

Frames == [opened : [Patterns -> 0..3], active : Seq(Patterns)]

\* A full frame has counted the columns of its level, and its active iterators
\* are those of the patterns that look for its variable.
FramesFit ==
    /\ stack \in Seq(Frames)
    /\ Len(stack) <= Len(variables)
    /\ pc \in {"open", "seek", "search", "leap"} => stack # <<>>
    /\ \A m \in 1..full : /\ \A i \in Patterns : stack[m].opened[i] = depthAt[i][m] - depthAt[i][m - 1]
                          /\ ToSet(stack[m].active) = activeAt[m]
                          /\ Distinct(stack[m].active)

\* The iterators hold the values that are known, and those of the levels that
\* have matched.
IteratorsFit ==
    /\ it \in [Patterns -> Iterators]
    /\ \A i \in Patterns :
           /\ Good(it[i], rows[i])
           /\ pc \notin {"open", "seek"} => it[i].depth = depthAt[i][Len(stack)]
           /\ \A c \in Columns : c <= it[i].depth =>
                  /\ term[i][c] \notin unknowns /\ ~ (pc = "seek" /\ i = at /\ c = it[i].depth)
                         => it[i].val[c] = knownAs[term[i][c]]
                  /\ term[i][c] \in lower[matched] => it[i].val[c] = bound[term[i][c]]

\* A variable to find has no value before its level is opened.
BoundFits ==
    /\ bound \in [Vars -> symbols \union {NULL}]
    /\ \A v \in unknowns : v \notin lower[full] => bound[v] = NULL
    /\ full = 0 => bound = query.given

\* The top frame while it opens its columns: the patterns before the one at are
\* done, and those after it are still as the frame has found them.
OpenFits ==
    pc \in {"open", "seek"} =>
        LET f == stack[Len(stack)]
            m == Len(stack)
        IN  /\ at \in 1..(Len(query.goals) + 1)
            /\ pc = "seek" => at \in Patterns
            /\ \A i \in Patterns :
                   /\ i < at => /\ it[i].depth = depthAt[i][m]
                                /\ f.opened[i] = depthAt[i][m] - depthAt[i][m - 1]
                   /\ i > at => it[i].depth = depthAt[i][m - 1] /\ f.opened[i] = 0
                   /\ i = at => /\ it[i].depth = depthAt[i][m - 1] + f.opened[i] + (IF pc = "seek" THEN 1 ELSE 0)
                                /\ it[i].depth <= depthAt[i][m]
                                /\ i \in activeAt[m] => it[i].depth < depthAt[i][m]
            /\ ToSet(f.active) = {i \in activeAt[m] : i < at}
            /\ Distinct(f.active)
            /\ \A i \in ToSet(f.active) :
                   /\ it[i].pos # EOF
                   /\ \A r \in rows[i] : Agrees(r, it[i].val, it[i].depth - 1) => Deepest(it[i]) <= r[it[i].depth]

\* The leapfrog search: an iterator that deeper levels have taken past the last
\* row has been overtaken; from the one whose turn it is on, the keys ascend.
SearchFits ==
    pc \in {"search", "leap"} =>
        LET m == Len(stack)
            active == stack[m].active
            N == Len(active)
        IN  /\ active # <<>>
            /\ pc = "search" => \A i \in activeAt[m] : it[i].pos = EOF =>
                                    \E j \in activeAt[m] : Deepest(it[i]) < Deepest(it[j])
            /\ pc = "leap" => /\ \A i \in activeAt[m] : it[i].pos # EOF
                              /\ turn \in 0..(N - 1)
                              /\ \A j, k \in 0..(N - 1) : j <= k =>
                                     Deepest(it[active[1 + ((turn + j) % N)]]) <= Deepest(it[active[1 + ((turn + k) % N)]])

SearchInv == FramesFit /\ IteratorsFit /\ BoundFits /\ OpenFits /\ SearchFits

LftjInv ==
    /\ query \in Calls /\ symbols \subseteq Symbols
    /\ \A f \in query.facts, c \in Columns : f[c] \in symbols
    /\ pc = "start" => /\ it = [i \in Patterns |-> [depth |-> 0, val |-> [c \in Columns |-> NULL], pos |-> EOF]]
                       /\ bound = query.given
                       /\ stack = <<>>
                       /\ solutions = 0
                       /\ starved = FALSE
    /\ pc \notin {"start", "done"} => /\ Planned
                                      /\ Fits => CountFits /\ ((stack = <<>> /\ pc = "return") \/ SearchInv)
    /\ Exact

LEMMA FrontFacts ==
    ASSUME NEW S, NEW s \in Seq(S), s # <<>>
    PROVE  /\ Front(s) \in Seq(S)
           /\ Len(Front(s)) = Len(s) - 1 /\ Len(s) \in Nat \ {0}
           /\ \A m \in 1..(Len(s) - 1) : Front(s)[m] = s[m]
           /\ Front(s) = <<>> <=> Len(s) = 1
<1> DEFINE n == Len(s) - 1
<1>1. Len(s) \in Nat \ {0} /\ n \in Int /\ n \in Nat /\ 1 \in Int
  OBVIOUS
<1>2. Front(s) = SubSeq(s, 1, n)
  BY DEF Front
<1>3. \A i \in 1..n : s[i] \in S
  OBVIOUS
<1> HIDE DEF n
<1>4. SubSeq(s, 1, n) \in Seq(S) /\ Len(SubSeq(s, 1, n)) = IF 1 <= n THEN n - 1 + 1 ELSE 0
  BY <1>1, <1>3, SubSeqProperties
<1>5. \A i \in 1..(n - 1 + 1) : SubSeq(s, 1, n)[i] = s[1 + i - 1]
  BY <1>1, <1>3, SubSeqProperties
<1>6. \A i \in 1..n : i \in 1..(n - 1 + 1) /\ 1 + i - 1 = i
  BY <1>1
<1>7. Front(s) \in Seq(S) /\ Len(Front(s)) = n /\ \A i \in 1..n : Front(s)[i] = s[i]
  BY <1>1, <1>2, <1>4, <1>5, <1>6
<1>8. Front(s) = <<>> <=> Len(Front(s)) = 0
  BY <1>7
<1> QED
  BY <1>1, <1>7, <1>8 DEF n

LEMMA TermListed ==
    ASSUME Plan, NEW i \in Patterns, NEW c \in Columns, term[i][c] \in Vars
    PROVE  term[i][c] \in ToSet(variables)
<1>1. PICK k \in 1..Len(variables) : variables[k] = term[i][c]
  BY DEF Plan
<1>2. DOMAIN variables = 1..Len(variables)
  BY DEF Plan
<1> QED
  BY <1>1, <1>2 DEF ToSet

\* The values v hold above column d what is known, and what b binds on the
\* first m levels.
Holds(v, b, i, d, m) ==
    \A c \in Columns : c < d =>
        /\ term[i][c] \notin unknowns => v[c] = knownAs[term[i][c]]
        /\ term[i][c] \in unknowns => term[i][c] \in lower[m] /\ v[c] = b[term[i][c]]

\* The terms of an answer against the values that an iterator holds.
LEMMA AnswerAgrees ==
    ASSUME Planned, Plan, NEW a \in Answers, NEW i \in Patterns, NEW d \in Columns, NEW v, NEW b,
           NEW m \in 0..Len(variables), Same(a, b, lower[m]), Holds(v, b, i, d, m)
    PROVE  /\ AnswerRow(i, a) \in rows[i]
           /\ Agrees(AnswerRow(i, a), v, d - 1)
           /\ term[i][d] \in Vars => AnswerRow(i, a)[d] = a[term[i][d]]
<1> DEFINE r == AnswerRow(i, a)
<1>1. r \in rows[i]
  BY AnswerFacts
<1>2. \A c \in Columns : r[c] = IF term[i][c] \in Vars THEN a[term[i][c]] ELSE term[i][c]
  BY DEF AnswerRow
<1>3. \A w \in ToSet(variables) : query.given[w] \in {NULL, a[w]}
  BY AnswerFacts
<1> HIDE DEF r
<1>4. ASSUME NEW c \in Columns, c < d PROVE r[c] = v[c]
  <2> DEFINE t == term[i][c]
  <2>1. CASE t \in unknowns
    <3>1. t \in lower[m] /\ v[c] = b[t] /\ t \in Vars
      BY <1>4, <2>1 DEF unknowns, Holds
    <3>2. a[t] = b[t]
      BY <3>1 DEF Same
    <3> QED
      BY <1>2, <3>1, <3>2
  <2>2. CASE t \notin unknowns /\ t \in Vars
    <3>1. t \in ToSet(variables)
      BY <2>2, TermListed
    <3>2. query.given[t] # NULL
      BY <2>2 DEF unknowns
    <3>3. query.given[t] = a[t]
      BY <1>3, <3>1, <3>2
    <3>4. v[c] = query.given[t]
      BY <1>4, <2>2 DEF knownAs, Holds
    <3> QED
      BY <1>2, <2>2, <3>3, <3>4
  <2>3. CASE t \notin Vars
    <3>1. t \in symbols /\ t \notin unknowns
      BY <2>3 DEF Plan, unknowns
    <3>2. v[c] = t
      BY <1>4, <2>3, <3>1 DEF knownAs, Holds
    <3> QED
      BY <1>2, <2>3, <3>2
  <2> QED
    BY <2>1, <2>2, <2>3
<1>5. \A c \in 1..(d - 1) : c \in Columns /\ c < d
  BY DEF Columns
<1>6. Agrees(r, v, d - 1)
  BY <1>4, <1>5 DEF Agrees
<1> QED
  BY <1>1, <1>2, <1>6 DEF r

\* An answer's values are ids.
LEMMA AnswerTypes ==
    ASSUME Planned, Plan, NEW a \in Answers, NEW m \in 1..Len(variables)
    PROVE  a[variables[m]] \in Nat /\ a[variables[m]] \in Symbols
<1>1. variables[m] \in ToSet(variables)
  BY DEF Plan, ToSet
<1>2. a \in [ToSet(variables) -> Symbols]
  BY AnswerFacts
<1>3. Symbols \subseteq Nat
  BY LftjAssumption DEF LftjAssumption
<1> QED
  BY <1>1, <1>2, <1>3

\* The levels.
LEMMA StackFacts ==
    ASSUME Plan, FramesFit
    PROVE  /\ Len(stack) \in 0..Len(variables) /\ Len(stack) \in Nat
           /\ stack # <<>> => Len(stack) \in 1..Len(variables) /\ Len(stack) # 0
           /\ stack = <<>> <=> Len(stack) = 0
           /\ Len(variables) \in Nat
           /\ \A m \in 1..Len(stack) : stack[m] \in Frames
<1>1. stack \in Seq(Frames) /\ Len(stack) <= Len(variables)
  BY DEF FramesFit
<1>2. Len(variables) \in Nat
  BY DEF Plan
<1> QED
  BY <1>1, <1>2

\* What a step that leaves the plan alone leaves of the count.
LEMMA CountKept ==
    ASSUME CountFits, ahead' = ahead, Answers' = Answers, solutions' = solutions, starved' = starved
    PROVE  CountFits'
BY DEF CountFits

LEMMA EnterStep ==
    ASSUME Planned, Plan, CountFits, SearchInv, Enter
    PROVE  CountFits' /\ SearchInv'
<1> DEFINE L == Len(stack)
           frame == [opened |-> [i \in Patterns |-> 0], active |-> <<>>]
<1>1. PlanSame
  BY PlanKept DEF Enter
<1>2. /\ it' = it /\ bound' = bound
      /\ solutions' = solutions /\ starved' = starved /\ pc = "enter" /\ pc' = "open" /\ at' = 1
      /\ L < Len(variables) /\ stack' = Append(stack, frame)
  BY DEF Enter
<1>3. FramesFit /\ IteratorsFit /\ BoundFits
  BY DEF SearchInv
<1>4. L \in Nat /\ L + 1 \in 1..Len(variables) /\ (L + 1) - 1 = L
  BY <1>2, <1>3, StackFacts
<1>5. frame \in Frames
  BY DEF Frames
<1>6. stack' \in Seq(Frames) /\ Len(stack') = L + 1 /\ stack'[L + 1] = frame
      /\ stack' # <<>> /\ \A m \in 1..L : stack'[m] = stack[m]
  BY <1>2, <1>3, <1>5 DEF FramesFit
<1>7. full = L /\ matched = L /\ full' = L /\ matched' = L
  BY <1>2, <1>4, <1>6 DEF full, matched
<1>8. ahead' = ahead
  BY <1>1, <1>2, <1>7 DEF PlanSame, ahead
<1>9. CountFits'
  BY <1>1, <1>2, <1>8, CountKept DEF PlanSame
<1>10. FramesFit'
  BY <1>1, <1>2, <1>3, <1>4, <1>6, <1>7 DEF PlanSame, FramesFit, Frames
<1>11. IteratorsFit'
  BY <1>1, <1>2, <1>3, <1>7 DEF PlanSame, IteratorsFit
<1>12. BoundFits'
  BY <1>1, <1>2, <1>3, <1>7 DEF PlanSame, BoundFits
<1>13. OpenFits'
  <2>1. \A i \in Patterns : frame.opened[i] = 0
    OBVIOUS
  <2>2. \A i \in Patterns : it[i].depth = depthAt[i][L]
    BY <1>2, <1>3 DEF IteratorsFit
  <2>3. \A i \in Patterns : /\ depthAt[i][L] \in 0..3 /\ depthAt[i][L + 1] \in 0..3
                            /\ depthAt[i][L] <= depthAt[i][L + 1]
                            /\ i \in activeAt[L + 1] => depthAt[i][L] <= depthAt[i][L + 1] - 1
    BY <1>4, LevelSteps
  <2>4. Patterns = 1..Len(query.goals) /\ Len(query.goals) \in Nat
    BY DEF Plan
  <2>5. ToSet(frame.active) = {} /\ Distinct(frame.active)
    BY DEF ToSet, Distinct
  <2>6. {i \in activeAt[L + 1] : i < 1} = {}
    <3>1. activeAt[L + 1] \subseteq Patterns
      BY <1>4, ActiveFacts
    <3> QED
      BY <2>4, <3>1
  <2>7. ASSUME NEW i \in Patterns
        PROVE  /\ ~ (i < 1)
               /\ it[i].depth = depthAt[i][(L + 1) - 1] /\ frame.opened[i] = 0
               /\ it[i].depth = depthAt[i][(L + 1) - 1] + frame.opened[i] + 0
               /\ it[i].depth <= depthAt[i][L + 1]
               /\ i \in activeAt[L + 1] => it[i].depth < depthAt[i][L + 1]
    <3>1. ~ (i < 1)
      BY <2>4
    <3>2. it[i].depth = depthAt[i][(L + 1) - 1] /\ frame.opened[i] = 0
      BY <1>4, <2>1, <2>2
    <3> HIDE DEF frame, L
    <3> QED
      BY <1>4, <2>2, <2>3, <3>1, <3>2
  <2>8. 1 \in 1..(Len(query.goals) + 1)
    BY <2>4
  <2> HIDE DEF frame, L
  <2>9. Patterns' = Patterns /\ depthAt' = depthAt /\ activeAt' = activeAt /\ rows' = rows /\ query' = query
    BY <1>1 DEF PlanSame
  <2>10. Len(stack') = L + 1 /\ stack'[Len(stack')] = frame
    BY <1>6
  <2> QED
    BY <1>2, <2>5, <2>6, <2>7, <2>8, <2>9, <2>10 DEF OpenFits
<1>14. SearchFits'
  BY <1>2 DEF SearchFits
<1> QED
  BY <1>9, <1>10, <1>11, <1>12, <1>13, <1>14 DEF SearchInv

\* The next column of the pattern that a frame is opening: it has a known value,
\* or is the frame's variable, or there is nothing left for the level.
LEMMA OpeningFacts ==
    ASSUME Plan, SearchInv, pc = "open", at \in Patterns,
           NEW d, d = it[at].depth, NEW L, L = Len(stack), NEW D, D = depthAt[at][L], NEW t, t = term[at][d + 1]
    PROVE  /\ L \in 1..Len(variables) /\ d \in 0..3 /\ D \in 0..3 /\ d <= D
           /\ depthAt[at][L - 1] \in 0..3
           /\ depthAt[at][L - 1] + stack[L].opened[at] = d
           /\ stack[L].opened[at] \in 0..3
           /\ \A c \in Columns : c <= d /\ term[at][c] \in unknowns => term[at][c] \in lower[L - 1]
           /\ at \in activeAt[L] => d < D
           /\ d # 3 => d + 1 \in Columns
           /\ (d # 3 /\ Known(t) # NULL) => (/\ t \notin unknowns /\ d + 1 <= D
                                            /\ Known(t) = knownAs[t]
                                            /\ (at \in activeAt[L] => d + 1 < D))
           /\ (d # 3 /\ Known(t) = NULL /\ t = variables[L]) => at \in activeAt[L] /\ d + 1 = D /\ t \in unknowns
           /\ (d # 3 /\ Known(t) = NULL /\ t # variables[L]) => d = D /\ at \notin activeAt[L]
<1> DEFINE e == depthAt[at][L - 1]
           o == stack[L].opened[at]
           c == d + 1
<1>1. FramesFit /\ IteratorsFit /\ BoundFits /\ OpenFits
  BY DEF SearchInv
<1>2. L \in 1..Len(variables) /\ L # 0 /\ stack[L] \in Frames /\ L \in Nat /\ L - 1 \in Nat
  BY <1>1, StackFacts DEF FramesFit
<1>3. o \in 0..3
  BY <1>2 DEF Frames
<1>4. it[at] \in Iterators
  BY <1>1 DEF IteratorsFit
<1>5. /\ d = e + o /\ d <= D
      /\ at \in activeAt[L] => d < D
  <2>1. /\ d = e + o + 0 /\ d <= D
        /\ at \in activeAt[L] => d < D
    BY <1>1 DEF OpenFits
  <2>2. d \in 0..3
    BY <1>4 DEF Iterators
  <2>3. e \in 0..3
    BY <1>2, LevelSteps
  <2> HIDE DEF e, o
  <2> QED
    BY <1>3, <2>1, <2>2, <2>3
<1>6. /\ D \in 0..3 /\ e \in 0..3 /\ e <= D /\ (L = 1 => e = 0)
      /\ at \in activeAt[L] => /\ D \in Columns /\ term[at][D] \in unknowns /\ level[at][D] = L
                               /\ \A x \in Columns : x < D => level[at][x] <= L - 1 \/ term[at][x] \notin unknowns
      /\ at \notin activeAt[L] =>
             \A x \in Columns : x <= D => level[at][x] <= L - 1 \/ term[at][x] \notin unknowns
  <2>1. PICK i \in Patterns, m \in 1..Len(variables) : i = at /\ m = L
    BY <1>2
  <2>2. e = depthAt[i][m - 1] /\ D = depthAt[i][m]
    BY <2>1
  <2> HIDE DEF e, o, c
  <2>3. /\ D \in 0..3 /\ e \in 0..3 /\ e <= D /\ (m = 1 => e = 0)
        /\ i \in activeAt[m] => /\ D \in Columns /\ term[i][D] \in unknowns /\ level[i][D] = m
                                /\ \A x \in Columns : x < D => level[i][x] <= m - 1 \/ term[i][x] \notin unknowns
        /\ i \notin activeAt[m] =>
               \A x \in Columns : x <= D => level[i][x] <= m - 1 \/ term[i][x] \notin unknowns
    BY <2>2, LevelSteps
  <2> QED
    BY <2>1, <2>3
<1>7. /\ \A x \in Columns : x <= D <=> level[at][x] <= L
      /\ \A x \in Columns : x <= e <=> level[at][x] <= L - 1
      /\ \A x \in Columns : term[at][x] \in lower[L - 1] <=> term[at][x] \in unknowns /\ level[at][x] <= L - 1
  <2>1. L \in 0..Len(variables) /\ L - 1 \in 0..Len(variables)
    BY <1>2, LowerFacts
  <2> QED
    BY <2>1, DepthFacts, LowerTerms
<1> HIDE DEF e, o
<1>8. d \in 0..3 /\ e <= d
  BY <1>3, <1>4, <1>5, <1>6 DEF Iterators
<1>9. ASSUME NEW x \in Columns, x <= d, term[at][x] \in unknowns PROVE term[at][x] \in lower[L - 1]
  <2>1. x \in 1..3 /\ x <= D
    BY <1>5, <1>6, <1>8, <1>9 DEF Columns
  <2>2. level[at][x] <= L - 1
    <3>1. at \in activeAt[L] => x < D
      BY <1>5, <1>6, <1>8, <1>9, <2>1
    <3> QED
      BY <1>6, <1>9, <2>1, <3>1
  <2> QED
    BY <1>7, <1>9, <2>2
<1>10. full = L - 1
  BY DEF full
<1>11. /\ bound \in [Vars -> symbols \union {NULL}]
       /\ \A v \in unknowns : v \notin lower[L - 1] => bound[v] = NULL
       /\ L = 1 => bound = query.given
  BY <1>1, <1>2, <1>10 DEF BoundFits
<1>12. NULL \notin symbols
  BY DEF Plan, NULL
<1>13. ASSUME d # 3
       PROVE  /\ c \in Columns
              /\ Known(t) # NULL => (/\ t \notin unknowns /\ c <= D /\ Known(t) = knownAs[t]
                                     /\ (at \in activeAt[L] => c < D))
              /\ (Known(t) = NULL /\ t = variables[L]) => at \in activeAt[L] /\ c = D /\ t \in unknowns
              /\ (Known(t) = NULL /\ t # variables[L]) => d = D /\ at \notin activeAt[L]
  <2>1. c \in Columns /\ c \in 1..3 /\ e < c /\ d < c
    BY <1>6, <1>8, <1>13 DEF Columns
  <2>2. ~ (level[at][c] <= L - 1)
    BY <1>6, <1>7, <2>1
  <2>3. level[at][c] \in Nat \ {0}
    BY <2>1, LevelFacts DEF Columns
  <2>4. t \in symbols \union Vars /\ symbols \intersect Vars = {} /\ t = term[at][c]
    BY <2>1 DEF Plan
  <2>5. t \notin unknowns => level[at][c] = L /\ (t \in Vars => L = 1)
    <3> HAVE t \notin unknowns
    <3>1. CASE Between(at, c)
      <4>1. 1 \in Columns /\ 1 <= d /\ term[at][1] \in unknowns
        <5>1. d = 1
          BY <1>8, <3>1 DEF Between
        <5> QED
          BY <3>1, <5>1 DEF Between, Columns
      <4>2. level[at][1] <= L - 1 /\ level[at][1] \in Nat
        BY <1>7, <1>9, <4>1, LevelFacts
      <4>3. level[at][c] = level[at][1] + 1 /\ t \notin Vars
        BY <2>1, <2>4, <3>1 DEF Plan, Between
      <4> QED
        BY <1>2, <2>2, <2>3, <4>2, <4>3
    <3>2. CASE ~ Between(at, c)
      <4>1. level[at][c] = 1
        BY <2>1, <2>4, <3>2 DEF Plan
      <4> QED
        BY <1>2, <2>2, <4>1
    <3> QED
      BY <3>1, <3>2
  <2>6. t \notin unknowns => Known(t) = knownAs[t] /\ Known(t) # NULL
    <3> HAVE t \notin unknowns
    <3>1. CASE t \in Vars
      <4>1. query.given[t] \in symbols
        BY <3>1 DEF Plan, unknowns
      <4>2. bound[t] = query.given[t]
        BY <1>11, <2>5, <3>1
      <4> QED
        BY <1>12, <3>1, <4>1, <4>2 DEF Known, knownAs
    <3>2. CASE t \notin Vars
      BY <1>12, <2>4, <3>2 DEF Known, knownAs
    <3> QED
      BY <3>1, <3>2
  <2>7. t \in unknowns => Known(t) = NULL
    <3> HAVE t \in unknowns
    <3>1. t \notin lower[L - 1]
      BY <1>7, <2>1, <2>2, <2>4
    <3>2. bound[t] = NULL /\ t \in Vars
      BY <1>11, <3>1 DEF unknowns
    <3> QED
      BY <1>12, <3>2 DEF Known
  <2>8. t \in unknowns => (t = variables[L] <=> level[at][c] = L)
    <3>1. t \in unknowns => level[at][c] \in 1..Len(variables) /\ variables[level[at][c]] = t
      BY <2>1 DEF Plan
    <3>2. \A k \in 1..Len(variables) : variables[k] = variables[L] => k = L
      BY <1>2 DEF Plan
    <3> QED
      BY <3>1, <3>2
  <2>9. t \in unknowns /\ level[at][c] = L => at \in activeAt[L] /\ c = D
    <3> HAVE t \in unknowns /\ level[at][c] = L
    <3>1. at \in activeAt[L]
      BY <1>2, <2>1, <2>4 DEF activeAt
    <3>2. D \in Columns /\ term[at][D] \in unknowns /\ level[at][D] = L
      BY <1>6, <3>1
    <3>3. \A x, y \in Columns : x < y /\ term[at][x] \in unknowns => level[at][x] < level[at][y]
      BY DEF Plan
    <3>4. ~ (c < D) /\ ~ (D < c)
      BY <1>2, <2>1, <2>4, <3>2, <3>3
    <3> QED
      BY <1>6, <2>1, <3>1, <3>4
  <2>10. c <= D => level[at][c] = L
    BY <1>2, <1>7, <2>1, <2>2, <2>3
  <2>11. t \notin unknowns => c <= D /\ (at \in activeAt[L] => c < D)
    <3> HAVE t \notin unknowns
    <3>1. c <= D
      <4>1. level[at][c] <= L
        <5>1. level[at][c] = L
          BY <2>5
        <5> QED
          BY <5>1, <1>2
      <4> QED
        BY <1>7, <2>1, <4>1
    <3>2. at \in activeAt[L] => c # D
      BY <1>6, <2>4
    <3> QED
      BY <1>6, <2>1, <3>1, <3>2
  <2>12. (t \in unknowns /\ t # variables[L]) => d = D /\ at \notin activeAt[L]
    <3> HAVE t \in unknowns /\ t # variables[L]
    <3>1. ~ (c <= D)
      BY <2>8, <2>10
    <3>2. d = D
      BY <1>5, <1>6, <1>8, <3>1
    <3> QED
      BY <1>5, <1>6, <3>2
  <2> QED
    BY <2>1, <2>5, <2>6, <2>7, <2>8, <2>9, <2>11, <2>12
<1> QED
  BY <1>2, <1>3, <1>5, <1>6, <1>8, <1>9, <1>13 DEF e, o, c

\* The top frame has opened all its columns.
Settled ==
    pc \in {"search", "leap", "return"} \/ (pc = "open" /\ at \notin Patterns)

\* An iterator that takes part in the search of the top frame: its column is
\* the frame's variable, and above it are the values that every answer has
\* which agrees with the bindings.
LEMMA ActiveIterator ==
    ASSUME Planned, Plan, SearchInv, Settled, stack # <<>>,
           NEW L, L = Len(stack), NEW i \in activeAt[L], NEW d, d = depthAt[i][L]
    PROVE  /\ i \in Patterns /\ L \in 1..Len(variables) /\ d \in Columns /\ d - 1 \in 0..3
           /\ it[i] \in Iterators /\ it[i].depth = d /\ it[i].val \in Keys /\ Good(it[i], rows[i])
           /\ rows[i] = Rows(i) /\ rows[i] \in SUBSET Keys
           /\ it[i].val[d] \in symbols /\ it[i].val[d] \in Nat \ {0} /\ Deepest(it[i]) = it[i].val[d]
           /\ term[i][d] = variables[L] /\ variables[L] \in unknowns
           /\ stack[L].opened[i] \in 1..d
           /\ \A a \in Answers : Same(a, bound, lower[L - 1]) =>
                  (/\ AnswerRow(i, a) \in rows[i]
                   /\ Agrees(AnswerRow(i, a), it[i].val, d - 1)
                   /\ AnswerRow(i, a)[d] = a[variables[L]])
<1>1. FramesFit /\ IteratorsFit /\ BoundFits /\ OpenFits
  BY DEF SearchInv
<1>2. L \in 1..Len(variables) /\ L # 0 /\ L \in Nat /\ L - 1 \in Nat
  BY <1>1, StackFacts
<1>3. i \in Patterns /\ variables[L] \in unknowns
  BY <1>2, ActiveFacts
<1>4. it[i].depth = d /\ stack[L].opened[i] = depthAt[i][L] - depthAt[i][L - 1]
  <2>1. CASE pc \in {"search", "leap", "return"}
    <3>1. full = L /\ L \in 1..full
      BY <1>2, <2>1 DEF full
    <3> QED
      BY <1>1, <1>3, <2>1, <3>1 DEF FramesFit, IteratorsFit
  <2>2. CASE pc = "open" /\ at \notin Patterns
    <3>1. i < at
      BY <1>1, <1>3, <2>2 DEF OpenFits, Plan
    <3> QED
      BY <1>1, <1>3, <2>2, <3>1 DEF OpenFits
  <2> QED
    BY <2>1, <2>2 DEF Settled
<1>5. /\ d \in Columns /\ d \in 0..3 /\ depthAt[i][L - 1] \in 0..3
      /\ depthAt[i][L - 1] <= d - 1
      /\ term[i][d] = variables[L]
      /\ \A c \in Columns : c < d => level[i][c] <= L - 1 \/ term[i][c] \notin unknowns
  BY <1>2, <1>3, LevelSteps
<1>6. d \in 1..3 /\ d - 1 \in 0..3
  BY <1>5 DEF Columns
<1>7. it[i] \in Iterators /\ Good(it[i], rows[i]) /\ it[i].val \in Keys
  BY <1>1, <1>3 DEF IteratorsFit, Iterators
<1>8. rows[i] = Rows(i) /\ rows[i] \in SUBSET [Columns -> symbols] /\ symbols \subseteq Nat \ {0}
  BY <1>3 DEF rows, Plan
<1>9. rows[i] \in SUBSET Keys
  BY <1>8 DEF Keys
<1>10. it[i].val[d] \in symbols
  <2>1. PICK r \in rows[i] : Agrees(r, it[i].val, d)
    BY <1>4, <1>6, <1>7 DEF Good
  <2>2. r[d] = it[i].val[d]
    BY <1>6, <2>1 DEF Agrees
  <2> QED
    BY <1>5, <1>8, <2>1, <2>2
<1>11. Deepest(it[i]) = it[i].val[d]
  BY <1>4 DEF Deepest
<1>12. stack[L].opened[i] \in 1..d
  BY <1>4, <1>5, <1>6
<1>13. ASSUME NEW a \in Answers, Same(a, bound, lower[L - 1])
       PROVE  /\ AnswerRow(i, a) \in rows[i]
              /\ Agrees(AnswerRow(i, a), it[i].val, d - 1)
              /\ AnswerRow(i, a)[d] = a[variables[L]]
  <2>1. L - 1 \in 0..Len(variables) /\ lower[L - 1] \subseteq lower[L]
    BY <1>2, LowerFacts
  <2>2. lower[L - 1] \subseteq lower[matched] /\ pc # "seek"
    <3>1. matched = L \/ matched = L - 1
      BY DEF matched
    <3> QED
      BY <2>1, <3>1 DEF Settled
  <2>3. ASSUME NEW c \in Columns, c < d
        PROVE  /\ term[i][c] \notin unknowns => it[i].val[c] = knownAs[term[i][c]]
               /\ term[i][c] \in unknowns => term[i][c] \in lower[L - 1] /\ it[i].val[c] = bound[term[i][c]]
    <3>1. c <= it[i].depth
      BY <1>4, <1>6, <2>3 DEF Columns
    <3>2. term[i][c] \notin unknowns => it[i].val[c] = knownAs[term[i][c]]
      BY <1>1, <1>3, <2>2, <3>1 DEF IteratorsFit
    <3>3. term[i][c] \in unknowns => term[i][c] \in lower[L - 1]
      BY <1>3, <1>5, <2>1, <2>3, LowerTerms
    <3>4. term[i][c] \in lower[matched] => it[i].val[c] = bound[term[i][c]]
      BY <1>1, <1>3, <3>1 DEF IteratorsFit
    <3> QED
      BY <2>2, <3>2, <3>3, <3>4
  <2>4. /\ AnswerRow(i, a) \in rows[i]
        /\ Agrees(AnswerRow(i, a), it[i].val, d - 1)
        /\ term[i][d] \in Vars => AnswerRow(i, a)[d] = a[term[i][d]]
    <3>1. Holds(it[i].val, bound, i, d, L - 1)
      BY <2>3 DEF Holds
    <3> QED
      BY <1>3, <1>5, <1>13, <2>1, <3>1, AnswerAgrees
  <2> QED
    BY <1>3, <1>5, <2>4 DEF unknowns
<1> QED
  BY <1>2, <1>3, <1>4, <1>5, <1>6, <1>7, <1>8, <1>9, <1>10, <1>11, <1>12, <1>13

LEMMA CountShrinks ==
    ASSUME query \in Calls, CountFits, ahead' \subseteq ahead, Answers' = Answers,
           solutions' = solutions, starved' = TRUE
    PROVE  CountFits'
<1> DEFINE S == Answers \ ahead
           T == Answers \ ahead'
<1>1. IsFiniteSet(Answers)
  BY AnswersFinite
<1>2. S \in SUBSET T /\ IsFiniteSet(T) /\ IsFiniteSet(S)
  BY <1>1, FS_Difference
<1> HIDE DEF S, T
<1>3. Cardinality(S) <= Cardinality(T)
  BY <1>2, FS_Subset
<1>4. Cardinality(S) \in Nat /\ Cardinality(T) \in Nat
  BY <1>2, FS_CardinalityType
<1>5. solutions \in Nat /\ (IF starved THEN solutions <= Cardinality(S) ELSE solutions = Cardinality(S))
  BY DEF CountFits, S
<1>6. solutions <= Cardinality(T)
  BY <1>3, <1>4, <1>5
<1> QED
  BY <1>5, <1>6 DEF CountFits, T

\* A frame without memory is a frame that has found nothing.
LEMMA StarveStep ==
    ASSUME Planned, Plan, CountFits, SearchInv, Starve
    PROVE  CountFits' /\ SearchInv'
<1>1. PlanSame
  BY PlanKept DEF Starve
<1>2. /\ it' = it /\ bound' = bound /\ stack' = stack /\ at' = at
      /\ solutions' = solutions /\ starved' = TRUE /\ pc = "enter" /\ pc' = "return"
  BY DEF Starve
<1>3. FramesFit /\ IteratorsFit /\ BoundFits
  BY DEF SearchInv
<1>4. full' = full /\ matched' = matched
  BY <1>2 DEF full, matched
<1>5. ahead' \subseteq ahead
  BY <1>1, <1>2, <1>4 DEF PlanSame, ahead
<1>6. CountFits'
  BY <1>1, <1>2, <1>5, CountShrinks DEF PlanSame, Planned
<1>7. FramesFit'
  BY <1>1, <1>2, <1>3, <1>4 DEF PlanSame, FramesFit, Frames
<1>8. IteratorsFit'
  BY <1>1, <1>2, <1>3, <1>4 DEF PlanSame, IteratorsFit
<1>9. BoundFits'
  BY <1>1, <1>2, <1>3, <1>4 DEF PlanSame, BoundFits
<1>10. OpenFits' /\ SearchFits'
  BY <1>2 DEF OpenFits, SearchFits
<1> QED
  BY <1>6, <1>7, <1>8, <1>9, <1>10 DEF SearchInv

LEMMA BoundTypes ==
    ASSUME Plan, BoundFits
    PROVE  bound \in [Vars -> Nat]
<1>1. bound \in [Vars -> symbols \union {NULL}]
  BY DEF BoundFits
<1>2. symbols \union {NULL} \subseteq Nat
  BY DEF Plan, NULL
<1> QED
  BY <1>1, <1>2

\* At the last level the bindings are an answer, the only one there is to count.
LEMMA SolutionStep ==
    ASSUME Planned, Plan, CountFits, SearchInv, Solution
    PROVE  CountFits' /\ SearchInv'
<1> DEFINE n == Len(variables)
           W == ToSet(variables)
           cur == [v \in W |-> IF v \in unknowns THEN bound[v] ELSE query.given[v]]
<1>1. PlanSame
  BY PlanKept DEF Solution
<1>2. /\ it' = it /\ bound' = bound /\ stack' = stack /\ at' = at
      /\ solutions' = solutions + 1 /\ starved' = starved /\ pc = "enter" /\ pc' = "return"
      /\ Len(stack) = n
  BY DEF Solution
<1>3. FramesFit /\ IteratorsFit /\ BoundFits
  BY DEF SearchInv
<1>4. full' = full /\ matched' = matched /\ full = n /\ matched = n /\ n \in Nat \ {0} /\ n \in 0..n
  BY <1>2 DEF full, matched, Plan
<1>5. W = {variables[k] : k \in 1..n}
  BY DEF ToSet, Plan
<1>6. \A v \in unknowns \intersect W : v \in lower[n]
  BY <1>5, LowerStart
<1>7. \A i \in Patterns, c \in Columns : term[i][c] \in Vars => term[i][c] \in W
  BY <1>5 DEF Plan
<1>8. unknowns \subseteq Vars
  BY DEF unknowns
<1>9. ASSUME NEW i \in Patterns
      PROVE  AnswerRow(i, cur) \in rows[i] /\ \A c \in Columns : AnswerRow(i, cur)[c] = it[i].val[c]
  <2>1. it[i].depth = 3
    <3>1. it[i].depth = depthAt[i][n] /\ depthAt[i][n] \in 0..3
      BY <1>2, <1>3, <1>4, DepthFacts DEF IteratorsFit
    <3>2. 3 \in Columns /\ level[i][3] <= n
      <4>1. 3 \in Columns
        BY DEF Columns
      <4>2. term[i][3] \in unknowns => level[i][3] \in 1..n
        BY <4>1 DEF Plan
      <4>3. term[i][3] \notin unknowns => level[i][3] = 1
        <5>1. ~ Between(i, 3)
          BY DEF Between
        <5> QED
          BY <4>1, <5>1 DEF Plan
      <4>4. n \in Nat \ {0}
        BY <1>4
      <4> HIDE DEF n
      <4> QED
        BY <4>1, <4>2, <4>3, <4>4
    <3>3. 3 <= depthAt[i][n]
      BY <1>4, <3>2, DepthFacts
    <3> QED
      BY <3>1, <3>3
  <2>2. ASSUME NEW c \in Columns PROVE AnswerRow(i, cur)[c] = it[i].val[c]
    <3>1. c <= it[i].depth
      BY <2>1 DEF Columns
    <3>2. /\ term[i][c] \notin unknowns => it[i].val[c] = knownAs[term[i][c]]
          /\ term[i][c] \in lower[n] => it[i].val[c] = bound[term[i][c]]
      BY <1>2, <1>3, <1>4, <3>1 DEF IteratorsFit
    <3>3. AnswerRow(i, cur)[c] = IF term[i][c] \in Vars THEN cur[term[i][c]] ELSE term[i][c]
      BY DEF AnswerRow
    <3>4. term[i][c] \in symbols \union Vars
      BY DEF Plan
    <3> DEFINE t == term[i][c]
               x == it[i].val[c]
    <3>5. t \in Vars => cur[t] = IF t \in unknowns THEN bound[t] ELSE query.given[t]
      BY <1>7
    <3>6. t \in unknowns => t \in lower[n]
      BY <1>6, <1>7, <1>8
    <3>7. knownAs[t] = IF t \in Vars THEN query.given[t] ELSE t
      BY <3>4 DEF knownAs
    <3> HIDE DEF cur, t, x
    <3>8. (IF t \in Vars THEN cur[t] ELSE t) = x
      <4>1. CASE t \in unknowns
        BY <1>8, <3>2, <3>5, <3>6, <4>1 DEF t, x
      <4>2. CASE t \notin unknowns
        BY <3>2, <3>5, <3>7, <4>2 DEF t, x
      <4> QED
        BY <4>1, <4>2
    <3> QED
      BY <3>3, <3>8 DEF t, x
  <2>3. Good(it[i], rows[i]) /\ it[i] \in Iterators
    BY <1>3 DEF IteratorsFit
  <2>4. PICK r \in rows[i] : Agrees(r, it[i].val, 3)
    BY <2>1, <2>3 DEF Good
  <2>5. \A c \in Columns : r[c] = it[i].val[c]
    BY <2>4 DEF Agrees, Columns
  <2>6. r \in [Columns -> symbols]
    BY DEF Plan
  <2>7. AnswerRow(i, cur) = [c \in Columns |-> AnswerRow(i, cur)[c]]
    BY DEF AnswerRow
  <2> HIDE DEF cur
  <2>8. AnswerRow(i, cur) = r
    BY <2>2, <2>5, <2>6, <2>7
  <2> QED
    BY <2>2, <2>8
<1>10. ASSUME NEW v \in W PROVE cur[v] \in symbols /\ query.given[v] \in {NULL, cur[v]}
  <2>1. PICK k \in 1..n : variables[k] = v
    BY <1>5
  <2>2. v \in Vars
    BY <2>1 DEF Plan
  <2>3. CASE v \notin unknowns
    <3>1. query.given[v] \in symbols
      BY <2>2, <2>3 DEF unknowns, Plan
    <3> QED
      BY <2>3, <3>1
  <2>4. CASE v \in unknowns
    <3>1. PICK i \in Patterns, c \in Columns : variables[k] = term[i][c]
      BY DEF Plan
    <3>2. AnswerRow(i, cur) \in rows[i] /\ rows[i] \in SUBSET [Columns -> symbols]
      BY <1>9 DEF Plan
    <3>3. AnswerRow(i, cur)[c] \in symbols
      BY <3>2
    <3>4. AnswerRow(i, cur)[c] = cur[v]
      BY <2>1, <2>2, <3>1 DEF AnswerRow
    <3>5. query.given[v] = NULL
      BY <2>4 DEF unknowns
    <3> QED
      BY <3>3, <3>4, <3>5
  <2> QED
    BY <2>3, <2>4
<1>11. cur \in Answers
  <2>1. cur \in [W -> Symbols]
    <3>1. \A v \in W : cur[v] \in Symbols
      BY <1>10 DEF Plan
    <3>2. cur = [v \in W |-> cur[v]]
      OBVIOUS
    <3> HIDE DEF cur, W
    <3> QED
      BY <3>1, <3>2
  <2> HIDE DEF cur
  <2> QED
    BY <1>9, <1>10, <2>1, AnswerFacts
<1>12. Same(cur, bound, lower[n])
  <2>1. \A v \in lower[n] : v \in unknowns /\ v \in W
    <3>1. lower[n] \subseteq unknowns
      BY <1>4, LowerStart
    <3>2. \A v \in unknowns : (\E k \in 1..n : variables[k] = v) <=> v \in lower[n]
      BY LowerStart
    <3> QED
      BY <1>5, <3>1, <3>2
  <2> QED
    BY <2>1 DEF Same
<1>13. \A a \in Answers : Same(a, bound, lower[n]) => a = cur
  <2> TAKE a \in Answers
  <2> HAVE Same(a, bound, lower[n])
  <2>1. a \in [W -> Symbols] /\ \A v \in W : query.given[v] \in {NULL, a[v]}
    BY AnswerFacts
  <2>2. ASSUME NEW v \in W PROVE a[v] = cur[v]
    <3>1. CASE v \in unknowns
      <4>1. a[v] = bound[v]
        BY <1>6, <3>1 DEF Same
      <4> QED
        BY <3>1, <4>1
    <3>2. CASE v \notin unknowns
      <4>1. v \in Vars
        BY <1>5 DEF Plan
      <4>2. query.given[v] = a[v]
        BY <2>1, <3>2, <4>1 DEF unknowns
      <4> QED
        BY <3>2, <4>2
    <3> QED
      BY <3>1, <3>2
  <2>3. cur = [v \in W |-> cur[v]]
    OBVIOUS
  <2> HIDE DEF cur, W
  <2> QED
    BY <2>1, <2>2, <2>3
<1> HIDE DEF cur, W
<1>14. ~ Past(cur, bound, n, variables, lower)
  <2>1. bound \in [Vars -> Nat]
    BY <1>3, BoundTypes
  <2> QED
    BY <1>4, <1>12, <2>1, PastSteps
<1> DEFINE behind == Answers \ ahead
<1>15. /\ ahead = {a \in Answers : Past(a, bound, n, variables, lower) \/ Same(a, bound, lower[n])}
       /\ ahead' = {a \in Answers : Past(a, bound, n, variables, lower)}
  BY <1>1, <1>2, <1>4 DEF ahead, PlanSame
<1>16. Answers \ ahead' = behind \union {cur} /\ cur \notin behind
  BY <1>11, <1>12, <1>13, <1>14, <1>15
<1>17. IsFiniteSet(behind)
  BY AnswersFinite, FS_Difference DEF Planned
<1> HIDE DEF behind
<1>18. Cardinality(Answers \ ahead') = Cardinality(behind) + 1 /\ Cardinality(behind) \in Nat
  BY <1>16, <1>17, FS_AddElement, FS_CardinalityType
<1>19. CountFits'
  <2>1. solutions \in Nat /\ (IF starved THEN solutions <= Cardinality(behind) ELSE solutions = Cardinality(behind))
    BY DEF CountFits, behind
  <2>2. Answers' = Answers
    BY <1>1 DEF PlanSame
  <2>3. solutions' \in Nat
    BY <1>2, <2>1
  <2>4. IF starved THEN solutions' <= Cardinality(Answers \ ahead') ELSE solutions' = Cardinality(Answers \ ahead')
    BY <1>2, <1>18, <2>1
  <2> QED
    BY <1>2, <2>2, <2>3, <2>4 DEF CountFits
<1> HIDE DEF n
<1>20. FramesFit'
  BY <1>1, <1>2, <1>3, <1>4 DEF PlanSame, FramesFit, Frames
<1>21. IteratorsFit'
  BY <1>1, <1>2, <1>3, <1>4 DEF PlanSame, IteratorsFit
<1>22. BoundFits'
  BY <1>1, <1>2, <1>3, <1>4 DEF PlanSame, BoundFits
<1>23. OpenFits' /\ SearchFits'
  BY <1>2 DEF OpenFits, SearchFits
<1> QED
  BY <1>19, <1>20, <1>21, <1>22, <1>23 DEF SearchInv

\* Nothing is left of the pattern for this level.
LEMMA OpenNoMoreStep ==
    ASSUME Planned, Plan, CountFits, SearchInv, OpenNoMore
    PROVE  CountFits' /\ SearchInv'
<1> DEFINE L == Len(stack)
           D == depthAt[at][L]
           t == term[at][it[at].depth + 1]
<1>1. PlanSame
  BY PlanKept DEF OpenNoMore
<1>2. /\ it' = it /\ bound' = bound /\ stack' = stack /\ at' = at + 1
      /\ solutions' = solutions /\ starved' = starved /\ pc = "open" /\ pc' = "open"
      /\ at \in Patterns /\ ~ CanOpen(at)
  BY DEF OpenNoMore
<1>3. FramesFit /\ IteratorsFit /\ BoundFits /\ OpenFits
  BY DEF SearchInv
<1>4. full' = full /\ matched' = matched
  BY <1>2 DEF full, matched
<1>5. CountFits'
  <2>1. ahead' = ahead
    BY <1>1, <1>2, <1>4 DEF PlanSame, ahead
  <2> QED
    BY <1>1, <1>2, <2>1, CountKept DEF PlanSame
<1>6. FramesFit'
  BY <1>1, <1>2, <1>3, <1>4 DEF PlanSame, FramesFit, Frames
<1>7. IteratorsFit'
  BY <1>1, <1>2, <1>3, <1>4 DEF PlanSame, IteratorsFit
<1>8. BoundFits'
  BY <1>1, <1>2, <1>3, <1>4 DEF PlanSame, BoundFits
<1>9. /\ L \in 1..Len(variables) /\ it[at].depth \in 0..3 /\ D \in 0..3 /\ it[at].depth <= D
      /\ depthAt[at][L - 1] \in 0..3 /\ stack[L].opened[at] \in 0..3
      /\ depthAt[at][L - 1] + stack[L].opened[at] = it[at].depth
      /\ at \in activeAt[L] => it[at].depth < D
  BY <1>2, OpeningFacts
<1>10. (it[at].depth # 3 /\ Known(t) = NULL /\ t # variables[L]) => it[at].depth = D
  BY <1>2, OpeningFacts
<1>11. it[at].depth # 3 => Known(t) = NULL /\ t # variables[L]
  <2>1. it[at].depth # 3 => it[at].depth < 3
    BY <1>9
  <2>2. it[at].depth # 3 => Term(at, it[at].depth + 1) = t
    <3>1. it[at].depth # 3 => it[at].depth + 1 \in Columns
      BY <1>9 DEF Columns
    <3> QED
      BY <1>2, <3>1 DEF term
  <2> QED
    BY <1>2, <2>1, <2>2 DEF CanOpen, var_name
<1>12. it[at].depth = D /\ at \notin activeAt[L]
  BY <1>9, <1>10, <1>11
<1>13. stack[L].opened[at] = D - depthAt[at][L - 1]
  BY <1>9, <1>12
<1>14. \A i \in Patterns : /\ depthAt[i][L - 1] \in 0..3 /\ depthAt[i][L] \in 0..3
                           /\ depthAt[i][L - 1] <= depthAt[i][L]
                           /\ i \in activeAt[L] => depthAt[i][L - 1] < depthAt[i][L]
  <2> TAKE i \in Patterns
  <2>1. /\ depthAt[i][L - 1] \in 0..3 /\ depthAt[i][L] \in 0..3
        /\ depthAt[i][L - 1] <= depthAt[i][L]
        /\ i \in activeAt[L] => depthAt[i][L - 1] <= depthAt[i][L] - 1
    BY <1>9, LevelSteps
  <2> QED
    BY <2>1
<1>15. Patterns = 1..Len(query.goals) /\ Len(query.goals) \in Nat
  BY DEF Plan
<1>16. activeAt[L] \subseteq Patterns
  BY <1>9, ActiveFacts
<1>17. OpenFits'
  <2>1. ASSUME NEW i \in Patterns
        PROVE  /\ i < at + 1 => /\ it[i].depth = depthAt[i][L]
                                /\ stack[L].opened[i] = depthAt[i][L] - depthAt[i][L - 1]
               /\ i > at + 1 => it[i].depth = depthAt[i][L - 1] /\ stack[L].opened[i] = 0
               /\ i = at + 1 => /\ it[i].depth = depthAt[i][L - 1] + stack[L].opened[i] + 0
                                /\ it[i].depth <= depthAt[i][L]
                                /\ i \in activeAt[L] => it[i].depth < depthAt[i][L]
    <3>1. /\ i < at => /\ it[i].depth = depthAt[i][L]
                       /\ stack[L].opened[i] = depthAt[i][L] - depthAt[i][L - 1]
          /\ i > at => it[i].depth = depthAt[i][L - 1] /\ stack[L].opened[i] = 0
      BY <1>2, <1>3 DEF OpenFits
    <3>2. i < at \/ i = at \/ i > at
      BY <1>2, <1>15
    <3>3. i < at + 1 => i < at \/ i = at
      BY <1>2, <1>15
    <3>4. i >= at + 1 => i > at
      BY <1>2, <1>15
    <3> HIDE DEF L
    <3>5. i < at + 1 => /\ it[i].depth = depthAt[i][L]
                        /\ stack[L].opened[i] = depthAt[i][L] - depthAt[i][L - 1]
      BY <1>12, <1>13, <3>1, <3>3
    <3>6. i > at + 1 => it[i].depth = depthAt[i][L - 1] /\ stack[L].opened[i] = 0
      BY <1>2, <1>15, <3>1, <3>4
    <3>7. i = at + 1 => it[i].depth = depthAt[i][L - 1] /\ stack[L].opened[i] = 0
      BY <1>2, <1>15, <3>1, <3>4
    <3> QED
      BY <1>14, <3>5, <3>6, <3>7
  <2>2. ToSet(stack[L].active) = {i \in activeAt[L] : i < at + 1}
    <3>1. ToSet(stack[L].active) = {i \in activeAt[L] : i < at}
      BY <1>2, <1>3 DEF OpenFits
    <3>2. \A i \in activeAt[L] : i < at <=> i < at + 1
      BY <1>2, <1>12, <1>15, <1>16
    <3> QED
      BY <3>1, <3>2
  <2>3. /\ Distinct(stack[L].active)
        /\ \A i \in ToSet(stack[L].active) :
               /\ it[i].pos # EOF
               /\ \A r \in rows[i] : Agrees(r, it[i].val, it[i].depth - 1) => Deepest(it[i]) <= r[it[i].depth]
    BY <1>2, <1>3 DEF OpenFits
  <2>4. at + 1 \in 1..(Len(query.goals) + 1)
    BY <1>2, <1>15
  <2>5. Patterns' = Patterns /\ depthAt' = depthAt /\ activeAt' = activeAt /\ rows' = rows /\ query' = query
    BY <1>1 DEF PlanSame
  <2> QED
    BY <1>2, <2>1, <2>2, <2>3, <2>4, <2>5 DEF OpenFits
<1>18. SearchFits'
  BY <1>2 DEF SearchFits
<1> QED
  BY <1>5, <1>6, <1>7, <1>8, <1>17, <1>18 DEF SearchInv

LEMMA TopReplaced ==
    ASSUME NEW S, NEW s \in Seq(S), NEW g \in S, NEW n, n = Len(s), n # 0
    PROVE  LET z == [s EXCEPT ![n] = g]
           IN  /\ z \in Seq(S) /\ Len(z) = n /\ z[n] = g /\ z # <<>>
               /\ \A m \in 1..n : m # n => z[m] = s[m]
<1>1. n \in Nat \ {0} /\ s \in [1..n -> S]
  OBVIOUS
<1> DEFINE z == [s EXCEPT ![n] = g]
<1>2. z \in [1..n -> S] /\ z[n] = g /\ \A m \in 1..n : m # n => z[m] = s[m]
  BY <1>1
<1>3. z \in Seq(S) /\ Len(z) = n
  BY <1>1, <1>2
<1> HIDE DEF z
<1>4. z # <<>>
  BY <1>1, <1>3
<1> QED
  BY <1>2, <1>3, <1>4 DEF z

LEMMA RowsFacts ==
    ASSUME Plan, NEW i \in Patterns
    PROVE  /\ rows[i] = Rows(i) /\ rows[i] \in SUBSET Keys
           /\ \A r \in rows[i], c \in Columns : r[c] \in symbols /\ r[c] \in Nat \ {0}
<1>1. rows[i] = Rows(i) /\ rows[i] \in SUBSET [Columns -> symbols] /\ symbols \subseteq Nat \ {0}
  BY DEF rows, Plan
<1>2. [Columns -> symbols] \subseteq Keys
  BY <1>1 DEF Keys
<1> QED
  BY <1>1, <1>2

\* iterator_open looks for any value.
LEMMA OpenReaches ==
    ASSUME Plan, SearchInv, NEW i \in Patterns, it[i].depth # 3, NEW d, d = it[i].depth + 1
    PROVE  Reaches(it[i], rows[i], d, 0, iterator_open(i)) /\ d \in Columns /\ d - 1 = it[i].depth
<1>1. it[i] \in Iterators /\ Good(it[i], rows[i])
  BY DEF SearchInv, IteratorsFit
<1>2. it[i].depth \in 0..3
  BY <1>1 DEF Iterators
<1>3. d \in Columns /\ d - 1 = it[i].depth
  BY <1>2 DEF Columns
<1>4. iterator_open(i) = Arrive(it[i], SeekRow(i, d, 0), d)
  BY DEF iterator_open, NULL
<1>5. Reaches(it[i], rows[i], d, 0, Arrive(it[i], SeekRow(i, d, 0), d))
  BY <1>1, <1>3, RowsFacts, SeekReaches
<1> QED
  BY <1>3, <1>4, <1>5

\* The variable of the frame: the iterator takes the least value there is.
LEMMA OpenActiveStep ==
    ASSUME Planned, Plan, CountFits, SearchInv, OpenActive
    PROVE  CountFits' /\ SearchInv'
<1> DEFINE L == Len(stack)
           D == depthAt[at][L]
           d == it[at].depth
           t == term[at][d + 1]
           y == iterator_open(at).it
           f == stack[L]
           g == [opened |-> [f.opened EXCEPT ![at] = @ + 1], active |-> Append(f.active, at)]
<1>1. PlanSame
  BY PlanKept DEF OpenActive
<1>2. /\ bound' = bound /\ at' = at + 1
      /\ solutions' = solutions /\ starved' = starved /\ pc = "open" /\ pc' = "open"
      /\ at \in Patterns /\ CanOpen(at) /\ Known(Term(at, d + 1)) = NULL
      /\ iterator_open(at).ok /\ it' = [it EXCEPT ![at] = y]
      /\ stack' = [stack EXCEPT ![Len(stack)].opened[at] = @ + 1, ![Len(stack)].active = Append(@, at)]
  BY DEF OpenActive
<1>3. FramesFit /\ IteratorsFit /\ BoundFits /\ OpenFits
  BY DEF SearchInv
<1>4. L \in 1..Len(variables) /\ L \in Nat \ {0} /\ stack \in Seq(Frames) /\ f \in Frames /\ DOMAIN stack = 1..L
  BY <1>2, <1>3, StackFacts DEF FramesFit
<1>5. f = [opened |-> f.opened, active |-> f.active] /\ f.opened \in [Patterns -> 0..3] /\ f.active \in Seq(Patterns)
  BY <1>4 DEF Frames
<1>6. stack' = [stack EXCEPT ![L] = g]
  BY <1>2, <1>4, <1>5
<1>7. /\ it[at].depth \in 0..3 /\ D \in 0..3 /\ d <= D
      /\ depthAt[at][L - 1] \in 0..3 /\ f.opened[at] \in 0..3
      /\ depthAt[at][L - 1] + f.opened[at] = d
      /\ \A c \in Columns : c <= d /\ term[at][c] \in unknowns => term[at][c] \in lower[L - 1]
  BY <1>2, OpeningFacts
<1>8. d # 3
  BY <1>2 DEF CanOpen
<1>9. d + 1 \in Columns
  BY <1>7, <1>8 DEF Columns
<1>10. Known(t) = NULL /\ t = variables[L]
  <2>1. Term(at, d + 1) = t
    BY <1>2, <1>9 DEF term
  <2> QED
    BY <1>2, <2>1 DEF CanOpen, var_name
<1>11. at \in activeAt[L] /\ d + 1 = D /\ t \in unknowns
  BY <1>2, <1>8, <1>10, OpeningFacts
<1>12. Reaches(it[at], rows[at], d + 1, 0, iterator_open(at)) /\ (d + 1) - 1 = d
  BY <1>2, <1>8, OpenReaches
<1>13. /\ y \in Iterators /\ y.depth = d + 1 /\ Good(y, rows[at]) /\ y.pos # EOF
       /\ \A c \in Columns \ {d + 1} : y.val[c] = it[at].val[c]
       /\ \A r \in rows[at] : Agrees(r, it[at].val, d) => y.val[d + 1] <= r[d + 1]
  <2>1. \A r \in rows[at] : 0 <= r[d + 1]
    BY <1>2, <1>9, RowsFacts
  <2> HIDE DEF d
  <2> QED
    BY <1>2, <1>12, <2>1 DEF Reaches
<1>14. it \in [Patterns -> Iterators]
  BY <1>3 DEF IteratorsFit
<1>15. it'[at] = y /\ \A i \in Patterns : i # at => it'[i] = it[i]
  BY <1>2, <1>14
<1> HIDE DEF y
<1>16. g.opened \in [Patterns -> 0..3]
  <2>1. f.opened[at] + 1 \in 0..3
    BY <1>7, <1>8
  <2> QED
    BY <1>5, <2>1
<1>17. /\ g.active \in Seq(Patterns) /\ ToSet(g.active) = ToSet(f.active) \union {at}
       /\ g \in Frames
  <2>1. g.active \in Seq(Patterns)
    BY <1>2, <1>5
  <2>2. ToSet(g.active) = ToSet(f.active) \union {at}
    <3>1. DOMAIN g.active = 1..(Len(f.active) + 1) /\ DOMAIN f.active = 1..Len(f.active) /\ Len(f.active) \in Nat
      BY <1>5
    <3>2. /\ g.active[Len(f.active) + 1] = at
          /\ \A k \in 1..Len(f.active) : g.active[k] = f.active[k]
      BY <1>5
    <3>3. \A k : k \in 1..(Len(f.active) + 1) <=> k \in 1..Len(f.active) \/ k = Len(f.active) + 1
      BY <3>1
    <3> HIDE DEF g, f
    <3> QED
      BY <3>1, <3>2, <3>3 DEF ToSet
  <2>3. g = [opened |-> g.opened, active |-> g.active]
    OBVIOUS
  <2> HIDE DEF g, f
  <2>4. g \in Frames
    BY <1>16, <2>1, <2>3 DEF Frames
  <2> QED
    BY <2>1, <2>2, <2>4
<1>18. /\ stack' \in Seq(Frames) /\ Len(stack') = L /\ stack'[L] = g /\ stack' # <<>>
       /\ \A m \in 1..L : m # L => stack'[m] = stack[m]
  <2>1. L = Len(stack) /\ L # 0 /\ stack \in Seq(Frames) /\ g \in Frames
    BY <1>4, <1>17
  <2> HIDE DEF g, L
  <2> QED
    BY <1>6, <2>1, TopReplaced
<1>19. full' = full /\ matched' = matched /\ full = L - 1 /\ matched = L - 1
  BY <1>2, <1>18 DEF full, matched
<1>20. CountFits'
  <2>1. ahead' = ahead
    BY <1>1, <1>2, <1>19 DEF PlanSame, ahead
  <2> QED
    BY <1>1, <1>2, <2>1, CountKept DEF PlanSame
<1>21. FramesFit'
  <2> HIDE DEF L
  <2>1. \A m \in 1..(L - 1) : stack'[m] = stack[m]
    BY <1>4, <1>18
  <2>2. /\ Patterns' = Patterns /\ depthAt' = depthAt /\ activeAt' = activeAt /\ Frames' = Frames
        /\ variables' = variables
    BY <1>1 DEF PlanSame, Frames
  <2> QED
    <3>1. full' = L - 1 /\ full = L - 1 /\ L = Len(stack) /\ Len(stack') = L
      BY <1>18, <1>19 DEF L
    <3> HIDE DEF g, f, d, t, y
    <3>2. Len(stack) <= Len(variables)
      BY <1>3 DEF FramesFit
    <3>3. ASSUME NEW m \in 1..(L - 1)
          PROVE  /\ \A i \in Patterns : stack'[m].opened[i] = depthAt[i][m] - depthAt[i][m - 1]
                 /\ ToSet(stack'[m].active) = activeAt[m]
                 /\ Distinct(stack'[m].active)
      BY <1>3, <2>1, <3>1, <3>3 DEF FramesFit
    <3> QED
      BY <1>18, <2>2, <3>1, <3>2, <3>3 DEF FramesFit
<1>22. IteratorsFit'
  <2>1. it' \in [Patterns -> Iterators]
    BY <1>2, <1>13, <1>14
  <2>2. ASSUME NEW i \in Patterns
        PROVE  /\ Good(it'[i], rows[i])
               /\ \A c \in Columns : c <= it'[i].depth =>
                      /\ term[i][c] \notin unknowns => it'[i].val[c] = knownAs[term[i][c]]
                      /\ term[i][c] \in lower[L - 1] => it'[i].val[c] = bound[term[i][c]]
    <3>1. /\ Good(it[i], rows[i])
          /\ \A c \in Columns : c <= it[i].depth =>
                 /\ term[i][c] \notin unknowns => it[i].val[c] = knownAs[term[i][c]]
                 /\ term[i][c] \in lower[L - 1] => it[i].val[c] = bound[term[i][c]]
      BY <1>2, <1>3, <1>19 DEF IteratorsFit
    <3>2. CASE i = at
      <4>1. ASSUME NEW c \in Columns, c <= d + 1
            PROVE  /\ term[at][c] \notin unknowns => y.val[c] = knownAs[term[at][c]]
                   /\ term[at][c] \in lower[L - 1] => y.val[c] = bound[term[at][c]]
        <5>1. CASE c = d + 1
          <6>1. t \notin lower[L - 1]
            BY <1>4, <1>10, LowerFacts
          <6> QED
            BY <1>11, <5>1, <6>1
        <5>2. CASE c # d + 1
          <6>1. c <= d /\ y.val[c] = it[at].val[c]
            BY <1>7, <1>13, <4>1, <5>2 DEF Columns
          <6> QED
            BY <3>1, <3>2, <6>1
        <5> QED
          BY <5>1, <5>2
      <4> QED
        BY <1>13, <1>15, <3>2, <4>1
    <3>3. CASE i # at
      BY <1>15, <3>1, <3>3
    <3> QED
      BY <3>2, <3>3
  <2>3. Patterns' = Patterns /\ rows' = rows /\ term' = term /\ unknowns' = unknowns /\ knownAs' = knownAs /\ lower' = lower
    BY <1>1 DEF PlanSame
  <2> HIDE DEF L
  <2> QED
    BY <1>2, <1>19, <2>1, <2>2, <2>3 DEF IteratorsFit
<1>23. BoundFits'
  BY <1>1, <1>2, <1>3, <1>19 DEF PlanSame, BoundFits
<1>24. OpenFits'
  <2>1. \A i \in Patterns : /\ depthAt[i][L - 1] \in 0..3 /\ depthAt[i][L] \in 0..3
                            /\ depthAt[i][L - 1] <= depthAt[i][L]
                            /\ i \in activeAt[L] => depthAt[i][L - 1] < depthAt[i][L]
    <3> TAKE i \in Patterns
    <3>1. /\ depthAt[i][L - 1] \in 0..3 /\ depthAt[i][L] \in 0..3
          /\ depthAt[i][L - 1] <= depthAt[i][L]
          /\ i \in activeAt[L] => depthAt[i][L - 1] <= depthAt[i][L] - 1
      BY <1>4, LevelSteps
    <3> QED
      BY <3>1
  <2>2. Patterns = 1..Len(query.goals) /\ Len(query.goals) \in Nat /\ activeAt[L] \subseteq Patterns
    BY <1>4, ActiveFacts DEF Plan
  <2>3. /\ g.opened[at] = f.opened[at] + 1 /\ \A i \in Patterns : i # at => g.opened[i] = f.opened[i]
    BY <1>2, <1>5
  <2>4. ASSUME NEW i \in Patterns
        PROVE  /\ i < at + 1 => /\ it'[i].depth = depthAt[i][L]
                                /\ g.opened[i] = depthAt[i][L] - depthAt[i][L - 1]
               /\ i > at + 1 => it'[i].depth = depthAt[i][L - 1] /\ g.opened[i] = 0
               /\ i = at + 1 => /\ it'[i].depth = depthAt[i][L - 1] + g.opened[i] + 0
                                /\ it'[i].depth <= depthAt[i][L]
                                /\ i \in activeAt[L] => it'[i].depth < depthAt[i][L]
    <3>1. /\ i < at => /\ it[i].depth = depthAt[i][L]
                       /\ f.opened[i] = depthAt[i][L] - depthAt[i][L - 1]
          /\ i > at => it[i].depth = depthAt[i][L - 1] /\ f.opened[i] = 0
      BY <1>2, <1>3 DEF OpenFits
    <3> HIDE DEF L, g, f
    <3>2. CASE i = at
      <4>1. it'[i].depth = depthAt[i][L]
        BY <1>11, <1>13, <1>15, <3>2
      <4>2. g.opened[i] = depthAt[i][L] - depthAt[i][L - 1]
        BY <1>7, <1>11, <2>3, <3>2
      <4>3. ~ (i > at + 1) /\ i # at + 1
        BY <2>2, <3>2
      <4> QED
        BY <4>1, <4>2, <4>3
    <3>3. CASE i < at
      <4>1. i # at /\ ~ (i > at + 1) /\ i # at + 1
        BY <1>2, <2>2, <3>3
      <4> QED
        BY <1>15, <2>3, <3>1, <3>3, <4>1
    <3>4. CASE i > at
      <4>1. i # at /\ ~ (i < at + 1)
        BY <1>2, <2>2, <3>4
      <4>2. it'[i].depth = depthAt[i][L - 1] /\ g.opened[i] = 0
        BY <1>15, <2>3, <3>1, <3>4, <4>1
      <4> QED
        BY <2>1, <4>1, <4>2
    <3> QED
      BY <1>2, <2>2, <3>2, <3>3, <3>4
  <2>5. ToSet(f.active) = {i \in activeAt[L] : i < at} /\ at \notin ToSet(f.active)
    <3>1. ToSet(f.active) = {i \in activeAt[L] : i < at}
      BY <1>2, <1>3 DEF OpenFits
    <3>2. ~ (at < at)
      BY <1>2, <2>2
    <3> QED
      BY <3>1, <3>2
  <2>6. ToSet(g.active) = {i \in activeAt[L] : i < at + 1}
    <3>1. \A i \in activeAt[L] : (i < at \/ i = at) <=> i < at + 1
      BY <1>2, <2>2
    <3> HIDE DEF g, f
    <3> QED
      BY <1>11, <1>17, <2>5, <3>1
  <2>7. Distinct(g.active)
    <3>1. Distinct(f.active)
      BY <1>2, <1>3 DEF OpenFits
    <3>2. DOMAIN g.active = 1..(Len(f.active) + 1) /\ DOMAIN f.active = 1..Len(f.active) /\ Len(f.active) \in Nat
      BY <1>5
    <3>3. /\ g.active[Len(f.active) + 1] = at
          /\ \A k \in 1..Len(f.active) : g.active[k] = f.active[k] /\ f.active[k] \in ToSet(f.active)
      BY <1>5 DEF ToSet
    <3>4. \A k : k \in 1..(Len(f.active) + 1) <=> k \in 1..Len(f.active) \/ k = Len(f.active) + 1
      BY <3>2
    <3> HIDE DEF g, f
    <3> QED
      BY <2>5, <3>1, <3>2, <3>3, <3>4 DEF Distinct
  <2>8. ASSUME NEW i \in ToSet(g.active)
        PROVE  /\ it'[i].pos # EOF
               /\ \A r \in rows[i] : Agrees(r, it'[i].val, it'[i].depth - 1) => Deepest(it'[i]) <= r[it'[i].depth]
    <3>1. CASE i = at
      <4>1. ASSUME NEW r \in rows[at], Agrees(r, y.val, d) PROVE y.val[d + 1] <= r[d + 1]
        <5>1. \A c \in 1..d : c \in Columns \ {d + 1}
          BY <1>7 DEF Columns
        <5>2. Agrees(r, it[at].val, d)
          BY <1>13, <4>1, <5>1 DEF Agrees
        <5> QED
          BY <1>13, <5>2
      <4> HIDE DEF d
      <4> QED
        BY <1>12, <1>13, <1>15, <3>1, <4>1 DEF Deepest
    <3>2. CASE i # at
      <4>1. i \in ToSet(f.active) /\ i \in Patterns
        BY <1>17, <2>2, <2>6, <3>2
      <4>2. /\ it[i].pos # EOF
            /\ \A r \in rows[i] : Agrees(r, it[i].val, it[i].depth - 1) => Deepest(it[i]) <= r[it[i].depth]
        BY <1>2, <1>3, <4>1 DEF OpenFits
      <4> QED
        BY <1>15, <3>2, <4>1, <4>2
    <3> QED
      BY <3>1, <3>2
  <2>9. at + 1 \in 1..(Len(query.goals) + 1)
    BY <1>2, <2>2
  <2>10. Patterns' = Patterns /\ depthAt' = depthAt /\ activeAt' = activeAt /\ rows' = rows /\ query' = query
    BY <1>1 DEF PlanSame
  <2> HIDE DEF g, L, f
  <2>11. Len(stack') = L /\ stack'[Len(stack')] = g
    BY <1>18
  <2>12. /\ at' \in 1..(Len(query'.goals) + 1)
         /\ ToSet(g.active) = {i \in activeAt'[L] : i < at'}
         /\ \A i \in ToSet(g.active) :
                /\ it'[i].pos # EOF
                /\ \A r \in rows'[i] : Agrees(r, it'[i].val, it'[i].depth - 1) => Deepest(it'[i]) <= r[it'[i].depth]
    BY <1>2, <2>6, <2>8, <2>9, <2>10
  <2>13. \A i \in Patterns' :
             /\ i < at' => /\ it'[i].depth = depthAt'[i][L]
                           /\ g.opened[i] = depthAt'[i][L] - depthAt'[i][L - 1]
             /\ i > at' => it'[i].depth = depthAt'[i][L - 1] /\ g.opened[i] = 0
             /\ i = at' => /\ it'[i].depth = depthAt'[i][L - 1] + g.opened[i] + 0
                           /\ it'[i].depth <= depthAt'[i][L]
                           /\ i \in activeAt'[L] => it'[i].depth < depthAt'[i][L]
    BY <1>2, <2>4, <2>10
  <2>14. pc' = "open"
    BY <1>2
  <2> QED
    BY <2>7, <2>11, <2>12, <2>13, <2>14 DEF OpenFits
<1>25. SearchFits'
  BY <1>2 DEF SearchFits
<1> QED
  BY <1>20, <1>21, <1>22, <1>23, <1>24, <1>25 DEF SearchInv

\* A column whose value is known: the iterator takes the least value, and has
\* still to seek the one it has to hold.
LEMMA OpenKnownStep ==
    ASSUME Planned, Plan, CountFits, SearchInv, OpenKnown
    PROVE  CountFits' /\ SearchInv'
<1> DEFINE L == Len(stack)
           D == depthAt[at][L]
           d == it[at].depth
           t == term[at][d + 1]
           y == iterator_open(at).it
           f == stack[L]
<1>1. PlanSame
  BY PlanKept DEF OpenKnown
<1>2. /\ bound' = bound /\ at' = at /\ stack' = stack
      /\ solutions' = solutions /\ starved' = starved /\ pc = "open" /\ pc' = "seek"
      /\ at \in Patterns /\ CanOpen(at) /\ Known(Term(at, d + 1)) # NULL
      /\ iterator_open(at).ok /\ it' = [it EXCEPT ![at] = y]
  BY DEF OpenKnown
<1>3. FramesFit /\ IteratorsFit /\ BoundFits /\ OpenFits
  BY DEF SearchInv
<1>4. L \in 1..Len(variables) /\ L \in Nat \ {0}
  BY <1>2, <1>3, StackFacts DEF FramesFit
<1>7. /\ it[at].depth \in 0..3 /\ D \in 0..3 /\ d <= D
      /\ depthAt[at][L - 1] \in 0..3 /\ f.opened[at] \in 0..3
      /\ depthAt[at][L - 1] + f.opened[at] = d
      /\ \A c \in Columns : c <= d /\ term[at][c] \in unknowns => term[at][c] \in lower[L - 1]
  <2>1. pc = "open" /\ at \in Patterns
    BY <1>2
  <2>2. L = Len(stack) /\ D = depthAt[at][L] /\ d = it[at].depth /\ t = term[at][d + 1] /\ f = stack[L]
    OBVIOUS
  <2> HIDE DEF y, L, D, d, t, f
  <2> QED
    BY <2>1, <2>2, OpeningFacts
<1>8. d # 3
  BY <1>2 DEF CanOpen
<1>9. d + 1 \in Columns
  BY <1>7, <1>8 DEF Columns
<1>10. Known(t) # NULL
  <2>1. Term(at, d + 1) = t
    BY <1>2, <1>9 DEF term
  <2> QED
    BY <1>2, <2>1
<1>11. /\ t \notin unknowns /\ d + 1 <= D
       /\ at \in activeAt[L] => d + 1 < D
  <2>1. \A dd, ll, DD, tt : (/\ dd = d /\ ll = L /\ DD = D /\ tt = t /\ dd # 3 /\ Known(tt) # NULL)
                           => (/\ tt \notin unknowns /\ dd + 1 <= DD
                               /\ (at \in activeAt[ll] => dd + 1 < DD))
    BY <1>2, OpeningFacts
  <2> HIDE DEF d, t, L, D
  <2> QED
    BY <1>8, <1>10, <2>1
<1>12. Reaches(it[at], rows[at], d + 1, 0, iterator_open(at)) /\ (d + 1) - 1 = d
  BY <1>2, <1>8, OpenReaches
<1>13. /\ y \in Iterators /\ y.depth = d + 1 /\ Good(y, rows[at])
       /\ \A c \in Columns \ {d + 1} : y.val[c] = it[at].val[c]
  <2> HIDE DEF d
  <2> QED
    BY <1>2, <1>12 DEF Reaches
<1>14. it \in [Patterns -> Iterators]
  BY <1>3 DEF IteratorsFit
<1>15. it'[at] = y /\ \A i \in Patterns : i # at => it'[i] = it[i]
  BY <1>2, <1>14
<1> HIDE DEF y
<1>16. full' = full /\ matched' = matched /\ full = L - 1 /\ matched = L - 1
  BY <1>2 DEF full, matched
<1>17. CountFits'
  <2>1. ahead' = ahead
    BY <1>1, <1>2, <1>16 DEF PlanSame, ahead
  <2> QED
    BY <1>1, <1>2, <2>1, CountKept DEF PlanSame
<1>18. FramesFit'
  BY <1>1, <1>2, <1>3, <1>16 DEF PlanSame, FramesFit, Frames
<1>19. IteratorsFit'
  <2>1. it' \in [Patterns -> Iterators]
    BY <1>2, <1>13, <1>14
  <2>2. ASSUME NEW i \in Patterns
        PROVE  /\ Good(it'[i], rows[i])
               /\ \A c \in Columns : c <= it'[i].depth =>
                      /\ term[i][c] \notin unknowns /\ ~ (i = at /\ c = it'[i].depth) => it'[i].val[c] = knownAs[term[i][c]]
                      /\ term[i][c] \in lower[L - 1] => it'[i].val[c] = bound[term[i][c]]
    <3>1. /\ Good(it[i], rows[i])
          /\ \A c \in Columns : c <= it[i].depth =>
                 /\ term[i][c] \notin unknowns => it[i].val[c] = knownAs[term[i][c]]
                 /\ term[i][c] \in lower[L - 1] => it[i].val[c] = bound[term[i][c]]
      BY <1>2, <1>3, <1>16 DEF IteratorsFit
    <3>2. CASE i = at
      <4>1. ASSUME NEW c \in Columns, c <= d + 1
            PROVE  /\ term[at][c] \notin unknowns /\ c # d + 1 => y.val[c] = knownAs[term[at][c]]
                   /\ term[at][c] \in lower[L - 1] => y.val[c] = bound[term[at][c]]
        <5>1. CASE c = d + 1
          <6>1. t \notin lower[L - 1]
            <7>1. lower[L - 1] \subseteq unknowns
              BY <1>4, LowerFacts
            <7> QED
              BY <1>11, <7>1
          <6> QED
            BY <5>1, <6>1
        <5>2. CASE c # d + 1
          <6>1. c <= d /\ y.val[c] = it[at].val[c]
            BY <1>7, <1>13, <4>1, <5>2 DEF Columns
          <6> QED
            BY <3>1, <3>2, <6>1
        <5> QED
          BY <5>1, <5>2
      <4> QED
        BY <1>13, <1>15, <3>2, <4>1
    <3>3. CASE i # at
      BY <1>15, <3>1, <3>3
    <3> QED
      BY <3>2, <3>3
  <2>3. Patterns' = Patterns /\ rows' = rows /\ term' = term /\ unknowns' = unknowns /\ knownAs' = knownAs /\ lower' = lower
    BY <1>1 DEF PlanSame
  <2> HIDE DEF L
  <2> QED
    BY <1>2, <1>16, <2>1, <2>2, <2>3 DEF IteratorsFit
<1>20. BoundFits'
  BY <1>1, <1>2, <1>3, <1>16 DEF PlanSame, BoundFits
<1>21. OpenFits'
  <2>1. Patterns = 1..Len(query.goals) /\ Len(query.goals) \in Nat
    BY DEF Plan
  <2>2. ASSUME NEW i \in Patterns
        PROVE  /\ i < at => /\ it'[i].depth = depthAt[i][L]
                            /\ f.opened[i] = depthAt[i][L] - depthAt[i][L - 1]
               /\ i > at => it'[i].depth = depthAt[i][L - 1] /\ f.opened[i] = 0
               /\ i = at => /\ it'[i].depth = depthAt[i][L - 1] + f.opened[i] + 1
                            /\ it'[i].depth <= depthAt[i][L]
                            /\ i \in activeAt[L] => it'[i].depth < depthAt[i][L]
    <3>1. /\ i < at => /\ it[i].depth = depthAt[i][L]
                       /\ f.opened[i] = depthAt[i][L] - depthAt[i][L - 1]
          /\ i > at => it[i].depth = depthAt[i][L - 1] /\ f.opened[i] = 0
      BY <1>2, <1>3 DEF OpenFits
    <3> HIDE DEF L, f
    <3>2. CASE i = at
      <4>1. ~ (i < at) /\ ~ (i > at)
        BY <2>1, <3>2
      <4> QED
        BY <1>7, <1>11, <1>13, <1>15, <3>2, <4>1
    <3>3. CASE i # at
      BY <1>15, <3>1, <3>3
    <3> QED
      BY <3>2, <3>3
  <2>3. /\ ToSet(f.active) = {i \in activeAt[L] : i < at}
        /\ Distinct(f.active)
        /\ \A i \in ToSet(f.active) :
               /\ it[i].pos # EOF
               /\ \A r \in rows[i] : Agrees(r, it[i].val, it[i].depth - 1) => Deepest(it[i]) <= r[it[i].depth]
    BY <1>2, <1>3 DEF OpenFits
  <2>4. \A i \in ToSet(f.active) : it'[i] = it[i]
    <3>1. activeAt[L] \subseteq Patterns
      BY <1>4, ActiveFacts
    <3>2. ~ (at < at)
      BY <1>2, <2>1
    <3> QED
      BY <1>15, <2>3, <3>1, <3>2
  <2>5. Patterns' = Patterns /\ depthAt' = depthAt /\ activeAt' = activeAt /\ rows' = rows /\ query' = query
    BY <1>1 DEF PlanSame
  <2>6. at \in 1..(Len(query.goals) + 1)
    BY <1>2, <2>1
  <2>7. /\ at' \in 1..(Len(query'.goals) + 1)
        /\ ToSet(f.active) = {i \in activeAt'[L] : i < at'}
        /\ \A i \in ToSet(f.active) :
               /\ it'[i].pos # EOF
               /\ \A r \in rows'[i] : Agrees(r, it'[i].val, it'[i].depth - 1) => Deepest(it'[i]) <= r[it'[i].depth]
    BY <1>2, <2>3, <2>4, <2>5, <2>6
  <2>8. \A i \in Patterns' :
            /\ i < at' => /\ it'[i].depth = depthAt'[i][L]
                          /\ f.opened[i] = depthAt'[i][L] - depthAt'[i][L - 1]
            /\ i > at' => it'[i].depth = depthAt'[i][L - 1] /\ f.opened[i] = 0
            /\ i = at' => /\ it'[i].depth = depthAt'[i][L - 1] + f.opened[i] + 1
                          /\ it'[i].depth <= depthAt'[i][L]
                          /\ i \in activeAt'[L] => it'[i].depth < depthAt'[i][L]
    BY <1>2, <2>2, <2>5
  <2>9. pc' = "seek" /\ at' \in Patterns'
    BY <1>2, <2>5
  <2>10. Len(stack') = L /\ stack'[Len(stack')] = f
    BY <1>2
  <2> HIDE DEF L, f
  <2> QED
    BY <2>3, <2>7, <2>8, <2>9, <2>10 DEF OpenFits
<1>22. SearchFits'
  BY <1>2 DEF SearchFits
<1> QED
  BY <1>17, <1>18, <1>19, <1>20, <1>21, <1>22 DEF SearchInv

\* The pattern that seeks a value: the column is none of a variable to find.
LEMMA SeekingFacts ==
    ASSUME Planned, Plan, SearchInv, pc = "seek", NEW d, d = it[at].depth,
           NEW value, value = Known(Term(at, d)), NEW L, L = Len(stack)
    PROVE  /\ at \in Patterns /\ L \in 1..Len(variables) /\ L \in Nat \ {0} /\ full = L - 1 /\ matched = L - 1
           /\ d \in Columns /\ d <= depthAt[at][L] /\ depthAt[at][L - 1] \in 0..3 /\ depthAt[at][L] \in 0..3
           /\ stack[L] \in Frames /\ stack \in Seq(Frames)
           /\ stack[L].opened[at] \in 0..3 /\ d = depthAt[at][L - 1] + stack[L].opened[at] + 1
           /\ term[at][d] \notin unknowns /\ value = knownAs[term[at][d]] /\ value \in Nat \ {0}
           /\ level[at][d] = L
           /\ (at \in activeAt[L] => d < depthAt[at][L])
           /\ Reaches(it[at], rows[at], d, value, iterator_seek(at, value))
<1> DEFINE t == term[at][d]
           D == depthAt[at][L]
           e == depthAt[at][L - 1]
           o == stack[L].opened[at]
<1>1. FramesFit /\ IteratorsFit /\ BoundFits /\ OpenFits
  BY DEF SearchInv
<1>2. /\ L \in 1..Len(variables) /\ L \in Nat \ {0} /\ at \in Patterns
      /\ stack[L] \in Frames /\ stack \in Seq(Frames)
  <2>1. stack # <<>> /\ at \in Patterns /\ stack \in Seq(Frames)
    BY <1>1 DEF OpenFits, FramesFit
  <2>2. L \in 1..Len(variables) /\ L \in Nat /\ L # 0 /\ \A m \in 1..L : stack[m] \in Frames
    BY <1>1, <2>1, StackFacts
  <2>3. L \in 1..L
    BY <2>2
  <2> QED
    BY <2>1, <2>2, <2>3
<1>3. full = L - 1 /\ matched = L - 1
  BY DEF full, matched
<1>4. L - 1 \in 0..Len(variables) /\ L \in 0..Len(variables)
  BY <1>2, LowerFacts
<1>5. o \in 0..3
  BY <1>2 DEF Frames
<1>6. /\ e \in 0..3 /\ D \in 0..3
      /\ \A c \in Columns : c <= D <=> level[at][c] <= L
      /\ \A c \in Columns : c <= e <=> level[at][c] <= L - 1
  BY <1>2, <1>4, DepthFacts
<1>7. /\ d = e + o + 1 /\ d <= D
      /\ (at \in activeAt[L] => d < D)
  <2> HIDE DEF e, o, D
  <2>1. /\ it[at].depth = e + o + 1
        /\ it[at].depth <= D
        /\ (at \in activeAt[L] => it[at].depth < D)
    BY <1>1, <1>2 DEF OpenFits, e, o, D
  <2> QED
    BY <2>1
<1> HIDE DEF e, o, D
<1>8. d \in Columns /\ ~ (d <= e)
  BY <1>5, <1>6, <1>7 DEF Columns
<1>9. level[at][d] = L
  <2>1. level[at][d] \in Nat
    BY <1>2, <1>8, LevelFacts DEF Columns
  <2> QED
    BY <1>2, <1>6, <1>7, <1>8, <2>1
<1>10. t \notin unknowns
  <2> SUFFICES ASSUME t \in unknowns PROVE FALSE
    OBVIOUS
  <2>1. at \in activeAt[L]
    BY <1>2, <1>8, <1>9 DEF activeAt
  <2>2. d + 1 \in Columns /\ d < d + 1 /\ d + 1 <= D
    BY <1>6, <1>7, <1>8, <2>1 DEF Columns
  <2>3. level[at][d] < level[at][d + 1]
    BY <1>2, <1>8, <2>2 DEF Plan
  <2>4. level[at][d + 1] <= L /\ level[at][d + 1] \in Nat
    <3>1. level[at][d + 1] <= L
      BY <1>6, <2>2
    <3>2. level[at][d + 1] \in Nat
      BY <1>2, <2>2, LevelFacts DEF Columns
    <3> QED
      BY <3>1, <3>2
  <2> QED
    BY <1>2, <1>9, <2>3, <2>4
<1>11. Term(at, d) = t
  BY <1>2, <1>8 DEF term
<1>12. t \in symbols \union Vars /\ symbols \intersect Vars = {} /\ symbols \subseteq Nat \ {0}
  BY <1>2, <1>8 DEF Plan
<1>13. value = knownAs[t] /\ value \in symbols
  <2>1. CASE t \in Vars
    <3>1. query.given[t] \in symbols
      BY <1>10, <2>1 DEF Plan, unknowns
    <3>2. L = 1
      <4>1. ~ Between(at, d)
        BY <1>2, <1>8, <2>1 DEF Plan, Between
      <4> QED
        BY <1>2, <1>8, <1>9, <1>10, <4>1 DEF Plan
    <3>3. bound = query.given
      BY <1>1, <1>3, <3>2 DEF BoundFits
    <3> QED
      BY <1>11, <2>1, <3>1, <3>3 DEF Known, knownAs
  <2>2. CASE t \notin Vars
    BY <1>11, <1>12, <2>2 DEF Known, knownAs
  <2> QED
    BY <2>1, <2>2
<1>14. Reaches(it[at], rows[at], d, value, iterator_seek(at, value))
  <2>1. it[at] \in Iterators /\ Good(it[at], rows[at])
    BY <1>1, <1>2 DEF IteratorsFit
  <2>2. iterator_seek(at, value) = Arrive(it[at], SeekRow(at, d, value), d)
    BY DEF iterator_seek
  <2>3. value \in Nat
    BY <1>12, <1>13
  <2> HIDE DEF t
  <2> QED
    BY <1>2, <1>8, <2>1, <2>2, <2>3, RowsFacts, SeekReaches
<1> QED
  BY <1>2, <1>3, <1>5, <1>6, <1>7, <1>8, <1>9, <1>10, <1>12, <1>13, <1>14 DEF D, e, o

\* The iterator holds the value: its column is counted.
LEMMA SeekKnownStep ==
    ASSUME Planned, Plan, CountFits, SearchInv, SeekKnown
    PROVE  CountFits' /\ SearchInv'
<1> DEFINE L == Len(stack)
           d == it[at].depth
           value == Known(Term(at, d))
           a == iterator_seek(at, value)
           y == a.it
           f == stack[L]
           g == [opened |-> [f.opened EXCEPT ![at] = @ + 1], active |-> f.active]
<1>1. PlanSame
  BY PlanKept DEF SeekKnown
<1>2. /\ bound' = bound /\ at' = at
      /\ solutions' = solutions /\ starved' = starved /\ pc = "seek" /\ pc' = "open"
      /\ a.ok /\ iterator_key(y) = value /\ it' = [it EXCEPT ![at] = y]
      /\ stack' = [stack EXCEPT ![Len(stack)].opened[at] = @ + 1]
  BY DEF SeekKnown
<1>3. FramesFit /\ IteratorsFit /\ BoundFits /\ OpenFits
  BY DEF SearchInv
<1>4. /\ at \in Patterns /\ L \in 1..Len(variables) /\ L \in Nat \ {0} /\ full = L - 1 /\ matched = L - 1
      /\ d \in Columns /\ d <= depthAt[at][L] /\ depthAt[at][L - 1] \in 0..3 /\ depthAt[at][L] \in 0..3
      /\ f \in Frames /\ stack \in Seq(Frames)
      /\ f.opened[at] \in 0..3 /\ d = depthAt[at][L - 1] + f.opened[at] + 1
      /\ term[at][d] \notin unknowns /\ value = knownAs[term[at][d]]
      /\ (at \in activeAt[L] => d < depthAt[at][L])
      /\ Reaches(it[at], rows[at], d, value, a)
  <2>1. \A dd, vv, ll : dd = d /\ vv = value /\ ll = L =>
            /\ at \in Patterns /\ ll \in 1..Len(variables) /\ ll \in Nat \ {0} /\ full = ll - 1 /\ matched = ll - 1
            /\ dd \in Columns /\ dd <= depthAt[at][ll] /\ depthAt[at][ll - 1] \in 0..3 /\ depthAt[at][ll] \in 0..3
            /\ stack[ll] \in Frames /\ stack \in Seq(Frames)
            /\ stack[ll].opened[at] \in 0..3 /\ dd = depthAt[at][ll - 1] + stack[ll].opened[at] + 1
            /\ term[at][dd] \notin unknowns /\ vv = knownAs[term[at][dd]]
            /\ (at \in activeAt[ll] => dd < depthAt[at][ll])
            /\ Reaches(it[at], rows[at], dd, vv, iterator_seek(at, vv))
    BY <1>2, SeekingFacts
  <2> HIDE DEF d, value, L
  <2> QED
    BY <2>1 DEF a, f
<1>5. stack # <<>> /\ L # 0
  BY <1>4
<1>6. f = [opened |-> f.opened, active |-> f.active] /\ f.opened \in [Patterns -> 0..3] /\ f.active \in Seq(Patterns)
  BY <1>4 DEF Frames
<1>7. stack' = [stack EXCEPT ![L] = g]
  <2>1. [f EXCEPT !.opened[at] = @ + 1] = g
    <3> HIDE DEF f
    <3> QED
      BY <1>6
  <2> QED
    BY <1>2, <2>1
<1>8. g \in Frames
  <2>1. f.opened[at] + 1 \in 0..3
    <3> HIDE DEF d, f, L
    <3> QED
      BY <1>4 DEF Columns
  <2> QED
    BY <1>6, <2>1 DEF Frames
<1>9. /\ y \in Iterators /\ y.depth = d /\ Good(y, rows[at])
      /\ \A c \in Columns \ {d} : y.val[c] = it[at].val[c]
      /\ y.pos # EOF
  <2> HIDE DEF d, value, a
  <2> QED
    BY <1>2, <1>4 DEF Reaches, a
<1>10. y.val[d] = knownAs[term[at][d]]
  <2>1. d # 0
    BY <1>4 DEF Columns
  <2>2. iterator_key(y) = y.val[d]
    <3> HIDE DEF y, d
    <3> QED
      BY <1>9, <2>1 DEF iterator_key
  <2> QED
    BY <1>2, <1>4, <2>2
<1> HIDE DEF a, value
<1>11. it \in [Patterns -> Iterators]
  BY <1>3 DEF IteratorsFit
<1>12. it'[at] = y /\ \A i \in Patterns : i # at => it'[i] = it[i]
  BY <1>2, <1>4, <1>11
<1> HIDE DEF y
<1>13. /\ stack' \in Seq(Frames) /\ Len(stack') = L /\ stack'[L] = g /\ stack' # <<>>
       /\ \A m \in 1..L : m # L => stack'[m] = stack[m]
  <2>1. L = Len(stack) /\ L # 0 /\ stack \in Seq(Frames) /\ g \in Frames
    BY <1>4, <1>5, <1>8
  <2> HIDE DEF g, L
  <2> QED
    BY <1>7, <2>1, TopReplaced
<1>14. full' = L - 1 /\ matched' = L - 1
  BY <1>2, <1>13 DEF full, matched
<1>15. CountFits'
  <2>1. ahead' = ahead
    BY <1>1, <1>2, <1>4, <1>14 DEF PlanSame, ahead
  <2> QED
    BY <1>1, <1>2, <2>1, CountKept DEF PlanSame
<1>16. FramesFit'
  <2> HIDE DEF L
  <2>1. \A m \in 1..(L - 1) : stack'[m] = stack[m]
    BY <1>4, <1>13
  <2>2. /\ Patterns' = Patterns /\ depthAt' = depthAt /\ activeAt' = activeAt /\ Frames' = Frames
        /\ variables' = variables
    BY <1>1 DEF PlanSame, Frames
  <2>3. full' = L - 1 /\ full = L - 1 /\ L = Len(stack) /\ Len(stack') = L
    BY <1>4, <1>13, <1>14 DEF L
  <2> HIDE DEF g, f, d
  <2>4. Len(stack) <= Len(variables)
    BY <1>3 DEF FramesFit
  <2>5. ASSUME NEW m \in 1..(L - 1)
        PROVE  /\ \A i \in Patterns : stack'[m].opened[i] = depthAt[i][m] - depthAt[i][m - 1]
               /\ ToSet(stack'[m].active) = activeAt[m]
               /\ Distinct(stack'[m].active)
    BY <1>3, <2>1, <2>3, <2>5 DEF FramesFit
  <2> QED
    BY <1>13, <2>2, <2>3, <2>4, <2>5 DEF FramesFit
<1>17. IteratorsFit'
  <2>1. it' \in [Patterns -> Iterators]
    BY <1>2, <1>9, <1>11
  <2>2. ASSUME NEW i \in Patterns
        PROVE  /\ Good(it'[i], rows[i])
               /\ \A c \in Columns : c <= it'[i].depth =>
                      /\ term[i][c] \notin unknowns => it'[i].val[c] = knownAs[term[i][c]]
                      /\ term[i][c] \in lower[L - 1] => it'[i].val[c] = bound[term[i][c]]
    <3>1. /\ Good(it[i], rows[i])
          /\ \A c \in Columns : c <= it[i].depth =>
                 /\ term[i][c] \notin unknowns /\ ~ (i = at /\ c = it[i].depth) => it[i].val[c] = knownAs[term[i][c]]
                 /\ term[i][c] \in lower[L - 1] => it[i].val[c] = bound[term[i][c]]
      BY <1>2, <1>3, <1>4 DEF IteratorsFit
    <3>2. CASE i = at
      <4>1. ASSUME NEW c \in Columns, c <= d
            PROVE  /\ term[at][c] \notin unknowns => y.val[c] = knownAs[term[at][c]]
                   /\ term[at][c] \in lower[L - 1] => y.val[c] = bound[term[at][c]]
        <5>1. CASE c = d
          <6>1. lower[L - 1] \subseteq unknowns
            BY <1>4, LowerFacts
          <6> QED
            BY <1>4, <1>10, <5>1, <6>1
        <5>2. CASE c # d
          BY <1>9, <3>1, <3>2, <4>1, <5>2
        <5> QED
          BY <5>1, <5>2
      <4> QED
        BY <1>9, <1>12, <3>2, <4>1
    <3>3. CASE i # at
      BY <1>12, <3>1, <3>3
    <3> QED
      BY <3>2, <3>3
  <2>3. Patterns' = Patterns /\ rows' = rows /\ term' = term /\ unknowns' = unknowns /\ knownAs' = knownAs /\ lower' = lower
    BY <1>1 DEF PlanSame
  <2> HIDE DEF L, d, f, g
  <2>4. pc' = "open" /\ matched' = L - 1
    BY <1>2, <1>14
  <2> QED
    <3> SUFFICES /\ it' \in [Patterns' -> Iterators]
                 /\ \A i \in Patterns' :
                        /\ Good(it'[i], rows'[i])
                        /\ \A c \in Columns : c <= it'[i].depth =>
                               /\ term'[i][c] \notin unknowns' => it'[i].val[c] = knownAs'[term'[i][c]]
                               /\ term'[i][c] \in lower'[matched'] => it'[i].val[c] = bound'[term'[i][c]]
      BY <2>4 DEF IteratorsFit
    <3> QED
      BY <1>2, <2>1, <2>2, <2>3, <2>4
<1>18. BoundFits'
  BY <1>1, <1>2, <1>3, <1>4, <1>14 DEF PlanSame, BoundFits
<1>19. OpenFits'
  <2>1. Patterns = 1..Len(query.goals) /\ Len(query.goals) \in Nat
    BY DEF Plan
  <2>2. ASSUME NEW i \in Patterns
        PROVE  /\ i < at => /\ it'[i].depth = depthAt[i][L]
                            /\ g.opened[i] = depthAt[i][L] - depthAt[i][L - 1]
               /\ i > at => it'[i].depth = depthAt[i][L - 1] /\ g.opened[i] = 0
               /\ i = at => /\ it'[i].depth = depthAt[i][L - 1] + g.opened[i] + 0
                            /\ it'[i].depth <= depthAt[i][L]
                            /\ i \in activeAt[L] => it'[i].depth < depthAt[i][L]
    <3>1. /\ i < at => /\ it[i].depth = depthAt[i][L]
                       /\ f.opened[i] = depthAt[i][L] - depthAt[i][L - 1]
          /\ i > at => it[i].depth = depthAt[i][L - 1] /\ f.opened[i] = 0
      BY <1>2, <1>3 DEF OpenFits
    <3>2. /\ g.opened[at] = f.opened[at] + 1 /\ \A j \in Patterns : j # at => g.opened[j] = f.opened[j]
      BY <1>4, <1>6
    <3> HIDE DEF L, f, g, d
    <3>3. CASE i = at
      <4>1. ~ (i < at) /\ ~ (i > at)
        BY <2>1, <3>3
      <4>2. it'[at].depth = d /\ d = depthAt[at][L - 1] + (f.opened[at] + 1) + 0
        BY <1>4, <1>9, <1>12
      <4> QED
        BY <1>4, <3>2, <3>3, <4>1, <4>2
    <3>4. CASE i # at
      BY <1>12, <3>1, <3>2, <3>4
    <3> QED
      BY <3>3, <3>4
  <2>3. /\ ToSet(f.active) = {i \in activeAt[L] : i < at}
        /\ Distinct(f.active)
        /\ \A i \in ToSet(f.active) :
               /\ it[i].pos # EOF
               /\ \A r \in rows[i] : Agrees(r, it[i].val, it[i].depth - 1) => Deepest(it[i]) <= r[it[i].depth]
    BY <1>2, <1>3 DEF OpenFits
  <2>4. \A i \in ToSet(f.active) : it'[i] = it[i]
    <3>1. activeAt[L] \subseteq Patterns
      BY <1>4, ActiveFacts
    <3>2. ~ (at < at)
      <4>1. at \in 1..Len(query.goals) /\ Len(query.goals) \in Nat
        BY <1>4, <2>1, Zenon
      <4> HIDE DEF L, f, g, d
      <4> QED
        BY <4>1
    <3> QED
      BY <1>12, <2>3, <3>1, <3>2
  <2>5. Patterns' = Patterns /\ depthAt' = depthAt /\ activeAt' = activeAt /\ rows' = rows /\ query' = query
    BY <1>1 DEF PlanSame
  <2>6. at \in 1..(Len(query.goals) + 1)
    <3>1. at \in 1..Len(query.goals) /\ Len(query.goals) \in Nat
      BY <1>4, <2>1
    <3> HIDE DEF L, f, g, d
    <3> QED
      BY <3>1
  <2>7. /\ at' \in 1..(Len(query'.goals) + 1)
        /\ ToSet(g.active) = {i \in activeAt'[L] : i < at'}
        /\ Distinct(g.active)
        /\ \A i \in ToSet(g.active) :
               /\ it'[i].pos # EOF
               /\ \A r \in rows'[i] : Agrees(r, it'[i].val, it'[i].depth - 1) => Deepest(it'[i]) <= r[it'[i].depth]
    <3>1. g.active = f.active
      OBVIOUS
    <3> HIDE DEF g, f, L
    <3> QED
      BY <1>2, <2>3, <2>4, <2>5, <2>6, <3>1
  <2>8. \A i \in Patterns' :
            /\ i < at' => /\ it'[i].depth = depthAt'[i][L]
                          /\ g.opened[i] = depthAt'[i][L] - depthAt'[i][L - 1]
            /\ i > at' => it'[i].depth = depthAt'[i][L - 1] /\ g.opened[i] = 0
            /\ i = at' => /\ it'[i].depth = depthAt'[i][L - 1] + g.opened[i] + 0
                          /\ it'[i].depth <= depthAt'[i][L]
                          /\ i \in activeAt'[L] => it'[i].depth < depthAt'[i][L]
    BY <1>2, <2>2, <2>5
  <2>9. Len(stack') = L /\ stack'[Len(stack')] = g /\ pc' = "open"
    BY <1>2, <1>13
  <2> HIDE DEF L, g, f
  <2> QED
    BY <2>7, <2>8, <2>9 DEF OpenFits
<1>20. SearchFits'
  BY <1>2 DEF SearchFits
<1> QED
  BY <1>15, <1>16, <1>17, <1>18, <1>19, <1>20 DEF SearchInv

\* Where a pattern has no row to offer there is nothing to count.
LEMMA NothingToCount ==
    ASSUME CountFits, Answers = {}, Answers' = Answers, solutions' = solutions, starved' = starved
    PROVE  CountFits'
<1>1. ahead = {} /\ ahead' = {}
  BY DEF ahead
<1> QED
  BY <1>1, CountKept

\* A constant between two variables is found under every value of the first.
LEMMA BetweenFound ==
    ASSUME Planned, Plan, SearchInv, pc = "seek", Len(stack) # 1, NEW d, d = it[at].depth,
           NEW value, value = Known(Term(at, d)), NEW a, a = iterator_seek(at, value)
    PROVE  a.ok /\ iterator_key(a.it) = value
<1> DEFINE L == Len(stack)
           v == it[at].val
<1>1. /\ at \in Patterns /\ d \in Columns /\ level[at][d] = L
      /\ term[at][d] \notin unknowns /\ value = knownAs[term[at][d]] /\ value \in Nat \ {0}
      /\ Reaches(it[at], rows[at], d, value, a)
  BY SeekingFacts
<1>2. Between(at, d)
  BY <1>1 DEF Plan
<1>3. d = 2 /\ term[at][2] \notin Vars /\ \A r \in rows[at] : \E s \in rows[at] : s[1] = r[1] /\ s[2] = term[at][2]
  BY <1>1, <1>2 DEF Plan, Between
<1>4. value = term[at][2]
  <2>1. term[at][2] \in symbols \union Vars
    BY <1>1, <1>3 DEF Plan
  <2> QED
    BY <1>1, <1>3, <2>1 DEF knownAs
<1>5. it[at] \in Iterators /\ Good(it[at], rows[at])
  BY <1>1 DEF SearchInv, IteratorsFit
<1>6. PICK r \in rows[at] : Agrees(r, v, 2)
  BY <1>3, <1>5 DEF Good
<1>7. PICK s \in rows[at] : s[1] = v[1] /\ s[2] = value
  <2>1. r[1] = v[1]
    BY <1>6, AgreesMeans
  <2> QED
    BY <1>3, <1>4, <2>1
<1>8. Agrees(s, v, d - 1)
  <2>1. Agrees(s, v, 1)
    BY <1>7, AgreesMeans
  <2> QED
    BY <1>3, <2>1
<1>9. a.ok
  <2> SUFFICES ASSUME ~ a.ok PROVE FALSE
    OBVIOUS
  <2>1. s[d] < value
    BY <1>1, <1>7, <1>8 DEF Reaches
  <2>2. s[d] = value
    BY <1>3, <1>7
  <2>3. value \in Nat
    BY <1>1
  <2> QED
    BY <2>1, <2>2, <2>3
<1>10. /\ a.it \in Iterators /\ a.it.depth = d /\ a.it.pos # EOF
       /\ value <= a.it.val[d] /\ a.it.val[d] <= s[d]
  <2>1. /\ a.it \in Iterators /\ a.it.depth = d /\ a.it.pos # EOF /\ value <= a.it.val[d]
        /\ \A r1 \in rows[at] : Agrees(r1, v, d - 1) /\ value <= r1[d] => a.it.val[d] <= r1[d]
    BY <1>1, <1>9 DEF Reaches
  <2>2. s[d] = value
    BY <1>3, <1>7
  <2>3. value <= s[d]
    <3>1. value \in Nat
      BY <1>1
    <3> QED
      BY <2>2, <3>1
  <2> QED
    BY <1>8, <2>1, <2>3
<1>11. a.it.val[d] = value
  <2>1. a.it.val[d] \in Nat
    BY <1>1, <1>10 DEF Iterators, Keys
  <2>2. s[d] = value
    BY <1>3, <1>7
  <2>3. value <= a.it.val[d] /\ a.it.val[d] <= value
    BY <1>10, <2>2
  <2>4. value \in Nat
    BY <1>1
  <2> QED
    BY <2>1, <2>3, <2>4
<1>12. iterator_key(a.it) = value
  BY <1>3, <1>10, <1>11 DEF iterator_key
<1> QED
  BY <1>9, <1>12

\* A value that no row of the database has leaves nothing to count.
LEMMA SeekFailsStep ==
    ASSUME Planned, Plan, CountFits, SearchInv, SeekFails
    PROVE  CountFits' /\ stack' = <<>> /\ pc' = "return"
<1> DEFINE d == it[at].depth
           value == Known(Term(at, d))
           a == iterator_seek(at, value)
           v == it[at].val
<1>1. PlanSame
  BY PlanKept DEF SeekFails, Backtrack
<1>2. /\ stack' = Front(stack)
      /\ solutions' = solutions /\ starved' = starved /\ pc = "seek" /\ pc' = "return"
      /\ a.ok => iterator_key(a.it) # value
  BY DEF SeekFails, Backtrack
<1>3. FramesFit /\ IteratorsFit /\ BoundFits /\ OpenFits
  BY DEF SearchInv
<1>0. Len(stack) = 1
  BY <1>2, BetweenFound
<1>4. /\ at \in Patterns /\ matched = 0
      /\ d \in Columns /\ level[at][d] = 1
      /\ term[at][d] \notin unknowns /\ value = knownAs[term[at][d]] /\ value \in Nat \ {0}
      /\ Reaches(it[at], rows[at], d, value, a)
  <2>1. matched = 1 - 1 /\ at \in Patterns /\ d \in Columns
    BY <1>0, <1>2, SeekingFacts
  <2>2. level[at][d] = 1
    BY <1>0, <1>2, SeekingFacts
  <2>3. term[at][d] \notin unknowns /\ value = knownAs[term[at][d]] /\ value \in Nat \ {0}
    BY <1>2, SeekingFacts
  <2>4. Reaches(it[at], rows[at], d, value, a)
    BY <1>2, SeekingFacts
  <2> QED
    BY <2>1, <2>2, <2>3, <2>4
<1>5. stack' = <<>>
  <2>1. stack \in Seq(Frames) /\ stack # <<>>
    BY <1>2, <1>3 DEF FramesFit
  <2> QED
    BY <1>0, <1>2, <2>1, FrontFacts
<1>6. ASSUME NEW b \in Answers PROVE FALSE
  <2> DEFINE r == AnswerRow(at, b)
  <2>1. 0 \in 0..Len(variables) /\ lower[0] = {}
    BY LowerStart
  <2>2. Same(b, bound, lower[0])
    BY <2>1 DEF Same
  <2>3. Holds(v, bound, at, d, 0)
    <3>1. \A c \in Columns : c < d => c <= d /\ c # d
      BY <1>4 DEF Columns
    <3>2. \A c \in Columns : c < d =>
              (/\ term[at][c] \notin unknowns => v[c] = knownAs[term[at][c]]
               /\ term[at][c] \in unknowns => term[at][c] \in lower[0])
      <4> TAKE c \in Columns
      <4> HAVE c < d
      <4>1. term[at][c] \notin unknowns => v[c] = knownAs[term[at][c]]
        BY <1>2, <1>3, <1>4, <3>1 DEF IteratorsFit
      <4>2. term[at][c] \notin unknowns
        <5>1. term[at][c] \in unknowns => level[at][c] < level[at][d]
          BY <1>4 DEF Plan
        <5>2. level[at][c] \in Nat \ {0}
          BY <1>4, LevelFacts DEF Columns
        <5> QED
          BY <1>4, <5>1, <5>2
      <4> QED
        BY <4>1, <4>2
    <3> QED
      BY <2>1, <3>2 DEF Holds
  <2>4. r \in rows[at] /\ Agrees(r, v, d - 1)
    BY <1>4, <2>1, <2>2, <2>3, AnswerAgrees
  <2>5. r[d] = value
    <3>1. r[d] = IF term[at][d] \in Vars THEN b[term[at][d]] ELSE term[at][d]
      BY <1>4 DEF AnswerRow
    <3>2. term[at][d] \in symbols \union Vars
      BY <1>4 DEF Plan
    <3>3. term[at][d] \in Vars => query.given[term[at][d]] = b[term[at][d]]
      <4> HAVE term[at][d] \in Vars
      <4>1. term[at][d] \in ToSet(variables)
        BY <1>4, TermListed
      <4>2. query.given[term[at][d]] \in {NULL, b[term[at][d]]}
        BY <4>1, AnswerFacts
      <4>3. query.given[term[at][d]] # NULL
        BY <1>4 DEF unknowns
      <4> QED
        BY <4>2, <4>3
    <3>4. knownAs[term[at][d]] = IF term[at][d] \in Vars THEN query.given[term[at][d]] ELSE term[at][d]
      BY <3>2 DEF knownAs
    <3> QED
      BY <1>4, <3>1, <3>3, <3>4
  <2> HIDE DEF r, v, value, d, a
  <2>6. CASE a.ok
    <3>1. /\ a.it \in Iterators /\ a.it.depth = d /\ a.it.pos # EOF
          /\ value <= a.it.val[d] /\ a.it.val[d] <= r[d]
      <4>1. value <= r[d] /\ d \in Columns
        BY <1>4, <2>5
      <4>2. Agrees(r, it[at].val, d - 1)
        BY <2>4 DEF v
      <4> QED
        BY <1>4, <2>4, <2>6, <4>1, <4>2 DEF Reaches
    <3>2. a.it.val[d] \in Nat
      BY <1>4, <3>1 DEF Iterators, Keys
    <3>3. a.it.val[d] = value
      BY <1>4, <2>5, <3>1, <3>2
    <3>4. iterator_key(a.it) = value
      BY <1>4, <3>1, <3>3 DEF iterator_key, Columns
    <3> QED
      BY <1>2, <2>6, <3>4
  <2>7. CASE ~ a.ok
    <3>1. Agrees(r, it[at].val, d - 1)
      BY <2>4 DEF v
    <3>2. r[d] < value
      BY <1>4, <2>4, <2>7, <3>1 DEF Reaches
    <3> QED
      BY <1>4, <2>5, <3>2
  <2> QED
    BY <2>6, <2>7
<1> QED
  <2>1. Answers = {}
    BY <1>6
  <2>2. Answers' = Answers
    BY <1>1 DEF PlanSame
  <2> QED
    BY <1>2, <1>5, <2>1, <2>2, NothingToCount

\* Only the first column of an empty database cannot be opened.
LEMMA OpenFailsStep ==
    ASSUME Planned, Plan, CountFits, SearchInv, OpenFails
    PROVE  CountFits' /\ stack' = <<>> /\ pc' = "return"
<1> DEFINE d == it[at].depth
           L == Len(stack)
<1>1. PlanSame
  BY PlanKept DEF OpenFails, Backtrack
<1>2. /\ stack' = Front(stack)
      /\ solutions' = solutions /\ starved' = starved /\ pc = "open" /\ pc' = "return"
      /\ at \in Patterns /\ CanOpen(at) /\ ~ iterator_open(at).ok
  BY DEF OpenFails, Backtrack
<1>3. FramesFit /\ IteratorsFit /\ BoundFits /\ OpenFits
  BY DEF SearchInv
<1>4. it[at] \in Iterators /\ Good(it[at], rows[at]) /\ d \in 0..3
  BY <1>2, <1>3 DEF IteratorsFit, Iterators
<1>5. d # 3
  BY <1>2 DEF CanOpen
<1>6. Reaches(it[at], rows[at], d + 1, 0, iterator_open(at)) /\ (d + 1) - 1 = d /\ d + 1 \in Columns
  BY <1>2, <1>5, OpenReaches
<1>7. \A r \in rows[at] : ~ Agrees(r, it[at].val, d)
  <2>1. \A r \in rows[at] : Agrees(r, it[at].val, d) => r[d + 1] < 0
    <3> HIDE DEF d
    <3> QED
      BY <1>2, <1>6 DEF Reaches
  <2>2. \A r \in rows[at] : r[d + 1] \in Nat
    BY <1>2, <1>6, RowsFacts
  <2> QED
    BY <2>1, <2>2
<1>8. d = 0
  BY <1>4, <1>7 DEF Good
<1>9. rows[at] = {}
  BY <1>7, <1>8, AgreesMeans
<1>10. \A i \in Patterns : rows[i] = {}
  <2>1. query.facts = {}
    BY <1>2, <1>9 DEF rows, Rows
  <2> QED
    BY <2>1 DEF rows, Rows
<1>11. Answers = {}
  BY <1>2, <1>10, AnswerFacts
<1>12. L \in 1..Len(variables)
  BY <1>2, <1>3, StackFacts DEF FramesFit
<1>13. L = 1
  <2> SUFFICES ASSUME L # 1 PROVE FALSE
    OBVIOUS
  <2>1. 1 \in 1..Len(variables) /\ L - 1 \in 0..Len(variables) /\ L - 1 >= 1
    <3>1. Len(variables) \in Nat \ {0}
      BY DEF Plan
    <3> HIDE DEF L
    <3> QED
      BY <1>12, <3>1
  <2>2. PICK i \in Patterns, c \in Columns : variables[1] = term[i][c]
    BY <2>1 DEF Plan
  <2>3. level[i][c] <= L - 1
    <3>1. level[i][c] = 1
      <4>1. variables[1] \in Vars /\ ~ Between(i, c)
        BY <2>1, <2>2 DEF Plan, Between
      <4> QED
        BY <2>1, <2>2, <4>1 DEF Plan
    <3> QED
      BY <2>1, <3>1
  <2>4. c <= depthAt[i][L - 1] /\ depthAt[i][L - 1] \in 0..3
    BY <2>1, <2>3, DepthFacts
  <2>5. depthAt[i][L - 1] \in 1..3
    BY <2>4 DEF Columns
  <2>6. depthAt[i][L] \in 0..3 /\ depthAt[i][L - 1] <= depthAt[i][L]
    BY <1>12, LevelSteps
  <2>7. stack[L].opened[i] \in 0..3
    BY <1>12, <1>3, StackFacts DEF Frames
  <2>8. it[i].depth # 0
    <3>1. /\ i < at => it[i].depth = depthAt[i][L]
          /\ i > at => it[i].depth = depthAt[i][L - 1]
          /\ i = at => it[i].depth = depthAt[i][L - 1] + stack[L].opened[i] + 0
      BY <1>2, <1>3 DEF OpenFits
    <3>2. i < at \/ i > at \/ i = at
      BY <1>2 DEF Plan
    <3> HIDE DEF L
    <3> QED
      BY <2>5, <2>6, <2>7, <3>1, <3>2
  <2>9. Good(it[i], rows[i])
    BY <1>3 DEF IteratorsFit
  <2> QED
    BY <1>10, <2>8, <2>9 DEF Good
<1>14. stack' = <<>>
  <2>1. stack \in Seq(Frames) /\ stack # <<>>
    BY <1>2, <1>3 DEF FramesFit
  <2> QED
    BY <1>2, <1>13, <2>1, FrontFacts
<1> QED
  <2>1. Answers' = Answers
    BY <1>1 DEF PlanSame
  <2> QED
    BY <1>2, <1>11, <1>14, <2>1, NothingToCount

\* All columns of the frame are open: with no iterator to search its variable
\* has a value already.
LEMMA OpenedStep ==
    ASSUME Planned, Plan, CountFits, SearchInv, Opened
    PROVE  CountFits' /\ SearchInv'
<1> DEFINE L == Len(stack)
           f == stack[L]
<1>1. PlanSame
  BY PlanKept DEF Opened
<1>2. /\ it' = it /\ bound' = bound /\ stack' = stack /\ at' = at
      /\ solutions' = solutions /\ starved' = starved /\ pc = "open" /\ at \notin Patterns
      /\ pc' = IF f.active = <<>> THEN "enter" ELSE "search"
  BY DEF Opened, Top
<1>3. FramesFit /\ IteratorsFit /\ BoundFits /\ OpenFits
  BY DEF SearchInv
<1>4. L \in 1..Len(variables) /\ L \in Nat \ {0} /\ stack # <<>> /\ f \in Frames
  BY <1>2, <1>3, StackFacts DEF FramesFit
<1>5. full = L - 1 /\ matched = L - 1 /\ full' = L
  BY <1>2 DEF full, matched
<1>6. Patterns = 1..Len(query.goals) /\ Len(query.goals) \in Nat
  BY DEF Plan
<1>7. \A i \in Patterns : i < at
  BY <1>2, <1>3, <1>6 DEF OpenFits
<1>8. /\ \A i \in Patterns : /\ it[i].depth = depthAt[i][L]
                             /\ f.opened[i] = depthAt[i][L] - depthAt[i][L - 1]
      /\ ToSet(f.active) = {i \in activeAt[L] : i < at} /\ Distinct(f.active)
      /\ \A i \in ToSet(f.active) :
             /\ it[i].pos # EOF
             /\ \A r \in rows[i] : Agrees(r, it[i].val, it[i].depth - 1) => Deepest(it[i]) <= r[it[i].depth]
  BY <1>2, <1>3, <1>7 DEF OpenFits
<1>9. ToSet(f.active) = activeAt[L]
  <2>1. activeAt[L] \subseteq Patterns
    BY <1>4, ActiveFacts
  <2> QED
    BY <1>7, <1>8, <2>1
<1>10. f.active = <<>> <=> activeAt[L] = {}
  <2>1. f.active \in Seq(Patterns)
    BY <1>4 DEF Frames
  <2>2. f.active = <<>> <=> ToSet(f.active) = {}
    <3> HIDE DEF f
    <3>1. f.active # <<>> => f.active[1] \in ToSet(f.active)
      BY <2>1 DEF ToSet
    <3>2. f.active = <<>> => ToSet(f.active) = {}
      BY DEF ToSet
    <3> QED
      BY <3>1, <3>2
  <2> QED
    BY <1>9, <2>2
<1>11. f.active = <<>> => variables[L] \notin unknowns /\ lower[L] = lower[L - 1]
  BY <1>4, <1>10, ActiveFacts, LowerFacts
<1> DEFINE low(a) == Same(a, bound, lower[L - 1])
<1>12. ahead = {a \in Answers : Past(a, bound, L - 1, variables, lower) \/ low(a)}
  BY <1>2, <1>5 DEF ahead
<1>13. ahead' = ahead
  <2>1. CASE f.active = <<>>
    <3>1. matched' = L /\ pc' = "enter"
      BY <1>2, <2>1 DEF matched
    <3>2. ahead' = {a \in Answers : Past(a, bound, L, variables, lower) \/ Same(a, bound, lower[L])}
      BY <1>1, <1>2, <3>1 DEF ahead, PlanSame
    <3>3. \A a : Past(a, bound, L, variables, lower) <=> Past(a, bound, L - 1, variables, lower)
      BY <1>4, <1>11, <2>1, PastSteps
    <3> QED
      BY <1>11, <1>12, <2>1, <3>2, <3>3
  <2>2. CASE f.active # <<>>
    <3>1. matched' = L - 1 /\ pc' = "search"
      BY <1>2, <2>2 DEF matched
    <3>2. ahead' = {a \in Answers :
                        \/ Past(a, bound, L - 1, variables, lower)
                        \/ low(a) /\ \A i \in activeAt[L] : Deepest(it[i]) <= a[variables[L]]}
      BY <1>1, <1>2, <3>1 DEF ahead, PlanSame
    <3>3. ASSUME NEW a \in Answers, low(a), NEW i \in activeAt[L]
          PROVE  Deepest(it[i]) <= a[variables[L]]
      <4> DEFINE d == depthAt[i][L]
                 r == AnswerRow(i, a)
      <4>1. /\ it[i].depth = d /\ r \in rows[i] /\ Agrees(r, it[i].val, d - 1) /\ r[d] = a[variables[L]]
        BY <1>2, <1>4, <3>3, ActiveIterator DEF Settled
      <4> HIDE DEF r, d
      <4> QED
        BY <1>8, <1>9, <4>1
    <3> QED
      BY <1>12, <3>2, <3>3
  <2> QED
    BY <2>1, <2>2
<1>14. CountFits'
  BY <1>1, <1>2, <1>13, CountKept DEF PlanSame
<1>15. FramesFit'
  <2>1. ASSUME NEW m \in 1..L
        PROVE  /\ \A i \in Patterns : stack[m].opened[i] = depthAt[i][m] - depthAt[i][m - 1]
               /\ ToSet(stack[m].active) = activeAt[m]
               /\ Distinct(stack[m].active)
    <3>1. CASE m = L
      BY <1>8, <1>9, <3>1
    <3>2. CASE m # L
      <4>1. m \in 1..full
        BY <1>4, <1>5, <3>2
      <4> QED
        BY <1>3, <4>1 DEF FramesFit
    <3> QED
      BY <3>1, <3>2
  <2>2. /\ Patterns' = Patterns /\ depthAt' = depthAt /\ activeAt' = activeAt /\ Frames' = Frames
        /\ variables' = variables
    BY <1>1 DEF PlanSame, Frames
  <2> QED
    BY <1>2, <1>3, <1>4, <1>5, <2>1, <2>2 DEF FramesFit
<1>16. IteratorsFit'
  <2>1. matched' = L - 1 \/ (matched' = L /\ lower[L] = lower[L - 1])
    BY <1>2, <1>11 DEF matched
  <2>2. lower'[matched'] = lower[matched]
    BY <1>1, <1>5, <2>1 DEF PlanSame
  <2>3. /\ Patterns' = Patterns /\ rows' = rows /\ term' = term /\ unknowns' = unknowns /\ knownAs' = knownAs
        /\ depthAt' = depthAt
    BY <1>1 DEF PlanSame
  <2>4. \A i \in Patterns : it[i].depth = depthAt[i][Len(stack)]
    BY <1>8
  <2> QED
    BY <1>2, <1>3, <2>2, <2>3, <2>4 DEF IteratorsFit
<1>17. BoundFits'
  <2>1. lower[L - 1] \subseteq lower[L] /\ L # 0
    BY <1>4, LowerFacts
  <2>2. unknowns' = unknowns /\ lower' = lower /\ symbols' = symbols
    BY <1>1 DEF PlanSame
  <2> QED
    BY <1>2, <1>3, <1>5, <2>1, <2>2 DEF BoundFits
<1>18. OpenFits'
  BY <1>2 DEF OpenFits
<1>19. SearchFits'
  <2>1. CASE f.active = <<>>
    BY <1>2, <2>1 DEF SearchFits
  <2>2. CASE f.active # <<>>
    <3>1. pc' = "search" /\ activeAt' = activeAt
      BY <1>1, <1>2, <2>2 DEF PlanSame
    <3>2. \A i \in activeAt[L] : it[i].pos # EOF
      BY <1>8, <1>9
    <3> QED
      BY <1>2, <2>2, <3>1, <3>2 DEF SearchFits
  <2> QED
    BY <2>1, <2>2
<1> QED
  BY <1>14, <1>15, <1>16, <1>17, <1>18, <1>19 DEF SearchInv

\* The key of an iterator that takes part, and the frame's list of them.
LEMMA KeysOfActive ==
    ASSUME Planned, Plan, SearchInv, pc \in {"search", "leap", "return"}, stack # <<>>,
           NEW L, L = Len(stack), NEW active, active = stack[L].active, NEW N, N = Len(active)
    PROVE  /\ L \in 1..Len(variables) /\ L \in Nat \ {0} /\ full = L
           /\ stack[L] \in Frames /\ stack \in Seq(Frames)
           /\ active \in Seq(Patterns) /\ N \in Nat /\ DOMAIN active = 1..N
           /\ ToSet(active) = activeAt[L] /\ Distinct(active)
           /\ \A k \in 1..N : active[k] \in activeAt[L]
           /\ \A i \in activeAt[L] : \E k \in 1..N : active[k] = i
           /\ (active = <<>> <=> activeAt[L] = {}) /\ (active = <<>> <=> N = 0)
           /\ \A i \in activeAt[L] : /\ Key(i) \in Nat
                                     /\ Key(i) = NULL <=> it[i].pos = EOF
                                     /\ Key(i) # NULL => Key(i) = Deepest(it[i])
<1>1. FramesFit /\ IteratorsFit /\ BoundFits /\ OpenFits
  BY DEF SearchInv
<1>2. L \in 1..Len(variables) /\ L \in Nat \ {0} /\ stack[L] \in Frames /\ stack \in Seq(Frames)
  BY <1>1, StackFacts DEF FramesFit
<1>3. full = L /\ L \in 1..full
  BY <1>2 DEF full
<1>4. active \in Seq(Patterns)
  BY <1>2 DEF Frames
<1>5. N \in Nat /\ DOMAIN active = 1..N /\ (active = <<>> <=> N = 0)
  BY <1>4
<1>6. ToSet(active) = activeAt[L] /\ Distinct(active)
  BY <1>1, <1>3 DEF FramesFit
<1>7. ToSet(active) = {active[k] : k \in 1..N}
  BY <1>5 DEF ToSet
<1>8. /\ \A k \in 1..N : active[k] \in activeAt[L]
      /\ \A i \in activeAt[L] : \E k \in 1..N : active[k] = i
  BY <1>6, <1>7
<1>9. active = <<>> <=> activeAt[L] = {}
  BY <1>5, <1>8
<1>10. ASSUME NEW i \in activeAt[L]
       PROVE  /\ Key(i) \in Nat
              /\ Key(i) = NULL <=> it[i].pos = EOF
              /\ Key(i) # NULL => Key(i) = Deepest(it[i])
  <2> DEFINE d == depthAt[i][L]
  <2>1. d \in Columns /\ it[i].depth = d /\ it[i].val[d] \in Nat \ {0} /\ Deepest(it[i]) = it[i].val[d]
    BY ActiveIterator DEF Settled
  <2>2. Key(i) = IF it[i].pos = EOF THEN NULL ELSE it[i].val[d]
    BY <2>1 DEF Key, iterator_key, Columns
  <2> HIDE DEF d
  <2> QED
    BY <2>1, <2>2 DEF NULL
<1> QED
  BY <1>2, <1>3, <1>4, <1>5, <1>6, <1>8, <1>9, <1>10

\* The iterators in the order of their keys.
LEMMA SearchStep ==
    ASSUME Planned, Plan, CountFits, SearchInv, Search
    PROVE  CountFits' /\ SearchInv'
<1> DEFINE L == Len(stack)
           f == stack[L]
           active == f.active
           N == Len(active)
           out == Sorted(active)
           g == [opened |-> f.opened, active |-> out]
<1>1. PlanSame
  BY PlanKept DEF Search
<1>2. /\ it' = it /\ bound' = bound /\ at' = at /\ turn' = 0
      /\ solutions' = solutions /\ starved' = starved /\ pc = "search" /\ pc' = "leap"
      /\ \A i \in ToSet(active) : Key(i) # NULL
      /\ stack' = [stack EXCEPT ![Len(stack)].active = Sorted(@)]
  BY DEF Search, Top
<1>3. FramesFit /\ IteratorsFit /\ BoundFits /\ OpenFits /\ SearchFits
  BY DEF SearchInv
<1>4. stack # <<>> /\ active # <<>>
  BY <1>2, <1>3 DEF FramesFit, SearchFits
<1>5. /\ L \in 1..Len(variables) /\ L \in Nat \ {0} /\ full = L
      /\ f \in Frames /\ stack \in Seq(Frames)
      /\ active \in Seq(Patterns) /\ N \in Nat /\ DOMAIN active = 1..N
      /\ ToSet(active) = activeAt[L] /\ Distinct(active)
      /\ \A k \in 1..N : active[k] \in activeAt[L]
      /\ (active = <<>> <=> N = 0)
  <2> HIDE DEF out, g, f, N, active
  <2>1. active = stack[L].active /\ N = Len(active) /\ f = stack[L]
    BY DEF active, N, f
  <2> QED
    BY <1>2, <1>4, <2>1, KeysOfActive
<1>6. \A i \in activeAt[L] : Key(i) \in Nat /\ it[i].pos # EOF /\ Key(i) = Deepest(it[i])
  BY <1>2, <1>4, <1>5, KeysOfActive
<1>7. /\ out = [k \in 1..N |-> out[k]]
      /\ ToSet(out) = ToSet(active)
      /\ \A j, k \in 1..N : j <= k => Key(out[j]) <= Key(out[k])
      /\ Distinct(out)
  <2>1. active = [k \in 1..N |-> active[k]]
    <3> HIDE DEF f, N
    <3> QED
      BY <1>5
  <2>2. \A k \in 1..N : Key(active[k]) \in Nat
    BY <1>5, <1>6
  <2> HIDE DEF active, N
  <2> QED
    BY <1>5, <2>1, <2>2, SortedFacts
<1>8. f = [opened |-> f.opened, active |-> f.active] /\ f.opened \in [Patterns -> 0..3]
  BY <1>5 DEF Frames
<1> HIDE DEF out
<1>9. Len(out) = N /\ DOMAIN out = 1..N
  <2> HIDE DEF N
  <2> QED
    BY <1>5, <1>7, SequenceLength
<1>10. \A k \in 1..N : out[k] \in activeAt[L]
  BY <1>5, <1>7, <1>9 DEF ToSet
<1>11. out \in Seq(Patterns) /\ out # <<>>
  <2>1. activeAt[L] \subseteq Patterns
    BY <1>5, ActiveFacts
  <2>2. \A k \in 1..N : out[k] \in Patterns
    BY <1>10, <2>1
  <2> HIDE DEF N
  <2>3. out \in [1..N -> Patterns]
    BY <1>7, <2>2
  <2>4. N # 0
    BY <1>4, <1>5
  <2> QED
    BY <1>5, <1>9, <2>3, <2>4
<1>12. g \in Frames
  BY <1>8, <1>11 DEF Frames
<1>13. stack' = [stack EXCEPT ![L] = g]
  <2>1. [f EXCEPT !.active = Sorted(@)] = g
    <3>1. out = Sorted(f.active)
      BY DEF out
    <3> HIDE DEF f
    <3> QED
      BY <1>8, <3>1
  <2> QED
    BY <1>2, <2>1
<1>14. /\ stack' \in Seq(Frames) /\ Len(stack') = L /\ stack'[L] = g /\ stack' # <<>>
       /\ \A m \in 1..L : m # L => stack'[m] = stack[m]
  <2>1. L = Len(stack) /\ L # 0 /\ stack \in Seq(Frames) /\ g \in Frames
    BY <1>5, <1>12
  <2> HIDE DEF g, L
  <2> QED
    BY <1>13, <2>1, TopReplaced
<1>15. full' = L /\ matched' = L - 1 /\ matched = L - 1
  BY <1>2, <1>14 DEF full, matched
<1>16. CountFits'
  <2>1. ahead' = ahead
    BY <1>1, <1>2, <1>14, <1>15 DEF PlanSame, ahead
  <2> QED
    BY <1>1, <1>2, <2>1, CountKept DEF PlanSame
<1>17. FramesFit'
  <2>1. ASSUME NEW m \in 1..L
        PROVE  /\ \A i \in Patterns : stack'[m].opened[i] = depthAt[i][m] - depthAt[i][m - 1]
               /\ ToSet(stack'[m].active) = activeAt[m]
               /\ Distinct(stack'[m].active)
    <3>1. /\ \A i \in Patterns : stack[m].opened[i] = depthAt[i][m] - depthAt[i][m - 1]
          /\ ToSet(stack[m].active) = activeAt[m]
          /\ Distinct(stack[m].active)
      BY <1>3, <1>5 DEF FramesFit
    <3>2. CASE m = L
      <4>1. stack'[m].opened = stack[m].opened /\ stack'[m].active = out
        BY <1>14, <3>2
      <4> QED
        BY <1>5, <1>7, <3>1, <3>2, <4>1
    <3>3. CASE m # L
      BY <1>14, <3>1, <3>3
    <3> QED
      BY <3>2, <3>3
  <2>2. /\ Patterns' = Patterns /\ depthAt' = depthAt /\ activeAt' = activeAt /\ Frames' = Frames
        /\ variables' = variables
    BY <1>1 DEF PlanSame, Frames
  <2>3. Len(stack) <= Len(variables)
    BY <1>3 DEF FramesFit
  <2> HIDE DEF g
  <2> QED
    BY <1>2, <1>14, <1>15, <2>1, <2>2, <2>3 DEF FramesFit
<1>18. IteratorsFit'
  BY <1>1, <1>2, <1>3, <1>14, <1>15 DEF PlanSame, IteratorsFit
<1>19. BoundFits'
  BY <1>1, <1>2, <1>3, <1>5, <1>15 DEF PlanSame, BoundFits
<1>20. OpenFits'
  BY <1>2 DEF OpenFits
<1>21. SearchFits'
  <2>1. Len(stack') = L /\ stack'[Len(stack')].active = out
    BY <1>14
  <2>2. activeAt' = activeAt
    BY <1>1 DEF PlanSame
  <2>3. ASSUME NEW j \in 0..(N - 1), NEW k \in 0..(N - 1), j <= k
        PROVE  Deepest(it[out[1 + ((0 + j) % N)]]) <= Deepest(it[out[1 + ((0 + k) % N)]])
    <3> HIDE DEF N
    <3>1. (0 + j) % N = j /\ (0 + k) % N = k /\ 1 + j \in 1..N /\ 1 + k \in 1..N /\ 1 + j <= 1 + k
      BY <1>5, <2>3
    <3>2. Key(out[1 + j]) <= Key(out[1 + k])
      BY <1>7, <3>1
    <3> QED
      BY <1>6, <1>10, <3>1, <3>2
  <2>4. 0 \in 0..(N - 1)
    <3> HIDE DEF N
    <3> QED
      BY <1>4, <1>5
  <2> HIDE DEF L, N
  <2> QED
    BY <1>2, <1>6, <1>9, <1>11, <2>1, <2>2, <2>3, <2>4 DEF SearchFits
<1> QED
  BY <1>16, <1>17, <1>18, <1>19, <1>20, <1>21 DEF SearchInv

\* The iterators that a frame leaves to its caller.
Restored(moved, L) ==
    \A i \in Patterns :
        LET z == Closed(moved[i], stack[L].opened[i])
        IN  /\ z \in Iterators /\ Good(z, rows[i]) /\ z.depth = depthAt[i][L - 1]
            /\ \A c \in Columns : c <= depthAt[i][L - 1] => z.val[c] = it[i].val[c]

\* A frame that ends: what it leaves to be counted is what its caller has
\* still to look for.
LEMMA FinishStep ==
    ASSUME Planned, Plan, CountFits, SearchInv, pc \in {"search", "leap", "return"}, stack # <<>>,
           NEW moved, Finish(moved), NEW L, L = Len(stack),
           \A a \in ahead : Past(a, bound, L - 1, variables, lower),
           L # 1 => Restored(moved, L)
    PROVE  CountFits' /\ ((stack' = <<>> /\ pc' = "return") \/ SearchInv')
<1>1. PlanSame
  BY PlanKept DEF Finish
<1>2. /\ at' = at /\ turn' = turn
      /\ solutions' = solutions /\ starved' = starved /\ pc' = "return"
      /\ it' = [i \in Patterns |-> Closed(moved[i], stack[L].opened[i])]
      /\ bound' = [bound EXCEPT ![variables[L]] = NULL]
      /\ stack' = Front(stack)
  BY DEF Finish, Top, var_name
<1>3. FramesFit /\ IteratorsFit /\ BoundFits
  BY DEF SearchInv
<1>4. L \in 1..Len(variables) /\ L \in Nat \ {0} /\ full = L /\ stack \in Seq(Frames)
  BY KeysOfActive
<1>5. /\ stack' \in Seq(Frames) /\ Len(stack') = L - 1
      /\ \A m \in 1..(L - 1) : stack'[m] = stack[m]
      /\ stack' = <<>> <=> L = 1
  BY <1>2, <1>4, FrontFacts
<1>6. full' = L - 1 /\ matched' = L - 1
  BY <1>2, <1>5 DEF full, matched
<1>7. bound \in [Vars -> symbols \union {NULL}] /\ \A v \in unknowns : v \notin lower[L] => bound[v] = NULL
  BY <1>3, <1>4 DEF BoundFits
<1>8. /\ bound' \in [Vars -> symbols \union {NULL}]
      /\ \A v \in Vars : v # variables[L] => bound'[v] = bound[v]
      /\ bound'[variables[L]] = NULL
  <2>1. variables[L] \in Vars
    BY <1>4, LowerFacts
  <2> QED
    BY <1>2, <1>7, <2>1
<1>9. /\ lower[L - 1] \subseteq unknowns /\ unknowns \subseteq Vars
      /\ variables[L] \notin lower[L - 1]
      /\ L - 1 \in 0..Len(variables)
      /\ lower[L] \subseteq lower[L - 1] \union {variables[L]}
  <2>1. /\ lower[L - 1] \subseteq lower[L] /\ lower[L] \subseteq unknowns
        /\ variables[L] \notin lower[L - 1]
        /\ L - 1 \in 0..Len(variables)
    BY <1>4, LowerFacts
  <2>2. /\ variables[L] \in unknowns => lower[L] = lower[L - 1] \union {variables[L]}
        /\ variables[L] \notin unknowns => lower[L] = lower[L - 1]
    BY <1>4, LowerFacts
  <2> QED
    BY <2>1, <2>2 DEF unknowns
<1>10. Same(bound', bound, lower[L - 1])
  BY <1>8, <1>9 DEF Same
<1>11. ahead' = ahead
  <2>1. ahead' = {a \in Answers : Past(a, bound', L - 1, variables, lower)}
    BY <1>1, <1>2, <1>6 DEF ahead, PlanSame
  <2>2. \A a : Past(a, bound, L - 1, variables, lower) <=> Past(a, bound', L - 1, variables, lower)
    BY <1>9, <1>10, PastBelow
  <2>3. ASSUME NEW a \in Answers, Past(a, bound, L - 1, variables, lower) PROVE a \in ahead
    <3>1. Past(a, bound, L, variables, lower)
      BY <1>4, <2>3, PastSteps
    <3>2. matched = L \/ matched = L - 1
      BY DEF matched
    <3> QED
      BY <2>3, <3>1, <3>2 DEF ahead
  <2>4. ahead \subseteq Answers
    BY DEF ahead
  <2> QED
    BY <2>1, <2>2, <2>3, <2>4
<1>12. CountFits'
  BY <1>1, <1>2, <1>11, CountKept DEF PlanSame
<1>13. CASE L = 1
  BY <1>2, <1>5, <1>12, <1>13
<1>14. CASE L # 1
  <2>1. Restored(moved, L)
    BY <1>14
  <2>2. FramesFit'
    <3>1. ASSUME NEW m \in 1..(L - 1)
          PROVE  /\ \A i \in Patterns : stack'[m].opened[i] = depthAt[i][m] - depthAt[i][m - 1]
                 /\ ToSet(stack'[m].active) = activeAt[m]
                 /\ Distinct(stack'[m].active)
      <4>1. m \in 1..full
        BY <1>4
      <4> QED
        BY <1>3, <1>5, <4>1 DEF FramesFit
    <3>2. /\ Patterns' = Patterns /\ depthAt' = depthAt /\ activeAt' = activeAt /\ Frames' = Frames
          /\ variables' = variables
      BY <1>1 DEF PlanSame, Frames
    <3>3. Len(stack') <= Len(variables)
      BY <1>4, <1>5
    <3> QED
      BY <1>2, <1>5, <1>6, <3>1, <3>2, <3>3 DEF FramesFit
  <2>3. IteratorsFit'
    <3>1. \A i \in Patterns : it'[i] = Closed(moved[i], stack[L].opened[i])
      BY <1>2
    <3>2. \A i \in Patterns :
              /\ it'[i] \in Iterators /\ Good(it'[i], rows[i]) /\ it'[i].depth = depthAt[i][L - 1]
              /\ \A c \in Columns : c <= depthAt[i][L - 1] => it'[i].val[c] = it[i].val[c]
      BY <2>1, <3>1 DEF Restored
    <3>3. it' \in [Patterns -> Iterators]
      BY <1>2, <3>1, <3>2
    <3>4. ASSUME NEW i \in Patterns, NEW c \in Columns, c <= it'[i].depth
          PROVE  /\ term[i][c] \notin unknowns => it'[i].val[c] = knownAs[term[i][c]]
                 /\ term[i][c] \in lower[L - 1] => it'[i].val[c] = bound'[term[i][c]]
      <4>1. it'[i].val[c] = it[i].val[c] /\ c <= depthAt[i][L - 1]
        BY <3>2, <3>4
      <4>2. it[i].depth = depthAt[i][L]
        BY <1>3 DEF IteratorsFit
      <4>3. c <= it[i].depth
        <5>1. depthAt[i][L - 1] \in 0..3 /\ depthAt[i][L] \in 0..3 /\ depthAt[i][L - 1] <= depthAt[i][L]
          BY <1>4, LevelSteps
        <5> QED
          BY <4>1, <4>2, <5>1 DEF Columns
      <4>4. /\ term[i][c] \notin unknowns => it[i].val[c] = knownAs[term[i][c]]
            /\ term[i][c] \in lower[matched] => it[i].val[c] = bound[term[i][c]]
        BY <1>3, <4>3 DEF IteratorsFit
      <4>5. lower[L - 1] \subseteq lower[matched]
        <5>1. matched = L \/ matched = L - 1
          BY DEF matched
        <5>2. lower[L - 1] \subseteq lower[L]
          BY <1>4, LowerFacts
        <5> QED
          BY <5>1, <5>2
      <4> QED
        BY <1>10, <4>1, <4>4, <4>5 DEF Same
    <3>5. Patterns' = Patterns /\ rows' = rows /\ term' = term /\ unknowns' = unknowns /\ knownAs' = knownAs
          /\ lower' = lower /\ depthAt' = depthAt
      BY <1>1 DEF PlanSame
    <3> QED
      BY <1>2, <1>5, <1>6, <3>2, <3>3, <3>4, <3>5 DEF IteratorsFit
  <2>4. BoundFits'
    <3>1. ASSUME NEW v \in unknowns, v \notin lower[L - 1] PROVE bound'[v] = NULL
      <4>1. CASE v = variables[L]
        BY <1>8, <4>1
      <4>2. CASE v # variables[L]
        BY <1>7, <1>8, <1>9, <3>1, <4>2
      <4> QED
        BY <4>1, <4>2
    <3>2. unknowns' = unknowns /\ lower' = lower /\ symbols' = symbols
      BY <1>1 DEF PlanSame
    <3>3. L - 1 # 0
      BY <1>4, <1>14
    <3> QED
      BY <1>6, <1>8, <3>1, <3>2, <3>3 DEF BoundFits
  <2>5. OpenFits' /\ SearchFits'
    BY <1>2 DEF OpenFits, SearchFits
  <2> QED
    BY <1>12, <2>2, <2>3, <2>4, <2>5 DEF SearchInv
<1> QED
  BY <1>13, <1>14

\* iterator_up for the columns of a frame.
LEMMA RestoredUnmoved ==
    ASSUME Planned, Plan, SearchInv, pc \in {"search", "leap", "return"}, stack # <<>>,
           NEW L, L = Len(stack), NEW i \in Patterns, NEW z, z = Closed(it[i], stack[L].opened[i])
    PROVE  /\ z \in Iterators /\ Good(z, rows[i]) /\ z.depth = depthAt[i][L - 1]
           /\ z.val = it[i].val
<1>1. FramesFit /\ IteratorsFit
  BY DEF SearchInv
<1>2. L \in 1..Len(variables) /\ full = L /\ L \in 1..full
  <2>1. L \in 1..Len(variables) /\ full = L /\ L \in Nat \ {0}
    BY KeysOfActive
  <2> QED
    BY <2>1
<1>3. it[i].depth = depthAt[i][L] /\ stack[L].opened[i] = depthAt[i][L] - depthAt[i][L - 1]
  BY <1>1, <1>2 DEF FramesFit, IteratorsFit
<1>4. depthAt[i][L - 1] \in 0..3 /\ depthAt[i][L] \in 0..3 /\ depthAt[i][L - 1] <= depthAt[i][L]
  BY <1>2, LevelSteps
<1>5. it[i] \in Iterators /\ Good(it[i], rows[i]) /\ rows[i] \in SUBSET Keys
  BY <1>1, RowsFacts DEF IteratorsFit
<1>6. stack[L].opened[i] \in 0..it[i].depth
  BY <1>3, <1>4
<1>7. z \in Iterators /\ Good(z, rows[i])
  BY <1>5, <1>6, ClosedGood
<1>8. z.depth = it[i].depth - stack[L].opened[i] /\ z.val = it[i].val
  BY <1>5 DEF Closed, Iterators
<1> QED
  BY <1>3, <1>4, <1>7, <1>8

LEMMA RestoredAll ==
    ASSUME Planned, Plan, SearchInv, pc \in {"search", "leap", "return"}, stack # <<>>,
           NEW L, L = Len(stack)
    PROVE  Restored(it, L)
BY RestoredUnmoved DEF Restored

\* The same after a seek of one of them has failed.
LEMMA RestoredMoved ==
    ASSUME Planned, Plan, SearchInv, pc \in {"search", "leap", "return"}, stack # <<>>,
           NEW L, L = Len(stack), NEW j \in activeAt[L], NEW key, NEW a,
           Reaches(it[j], rows[j], depthAt[j][L], key, a), ~ a.ok
    PROVE  Restored([it EXCEPT ![j] = a.it], L)
<1> DEFINE moved == [it EXCEPT ![j] = a.it]
           n == stack[L].opened[j]
           d == depthAt[j][L]
           x == Closed(a.it, 1)
           y == Closed(a.it, n)
<1>1. FramesFit /\ IteratorsFit
  BY DEF SearchInv
<1>2. L \in 1..Len(variables) /\ full = L /\ L \in 1..full
  <2>1. L \in 1..Len(variables) /\ full = L /\ L \in Nat \ {0}
    BY KeysOfActive
  <2> QED
    BY <2>1
<1>3. j \in Patterns /\ d \in Columns /\ it[j].depth = d /\ n \in 1..d /\ rows[j] \in SUBSET Keys
  BY ActiveIterator DEF Settled
<1>4. x \in Iterators /\ Good(x, rows[j]) /\ x.val = it[j].val /\ x.depth = d - 1 /\ a.it.depth = d
  BY <1>3 DEF Reaches
<1>5. n = d - depthAt[j][L - 1] /\ depthAt[j][L - 1] \in 0..3
  BY <1>1, <1>2, <1>3, LevelSteps DEF FramesFit
<1> HIDE DEF n, d
<1>6. n - 1 \in 0..x.depth /\ n \in Nat
  BY <1>3, <1>4 DEF Columns
<1>7. y = Closed(x, n - 1)
  <2>1. x.depth = a.it.depth - 1
    BY <1>4
  <2>2. Closed(x, n - 1) = [x EXCEPT !.depth = x.depth - (n - 1)]
    BY DEF Closed
  <2>3. [[a.it EXCEPT !.depth = a.it.depth - 1] EXCEPT !.depth = x.depth - (n - 1)]
            = [a.it EXCEPT !.depth = x.depth - (n - 1)]
    OBVIOUS
  <2>4. x.depth - (n - 1) = a.it.depth - n
    BY <1>3, <1>4, <1>6 DEF Columns
  <2> QED
    BY <2>2, <2>3, <2>4 DEF Closed
<1> HIDE DEF x
<1>8. y \in Iterators /\ Good(y, rows[j])
  <2> HIDE DEF y
  <2> QED
    BY <1>3, <1>4, <1>6, <1>7, ClosedGood
<1>9. y.val = it[j].val /\ y.depth = depthAt[j][L - 1]
  <2>1. y.val = x.val /\ y.depth = x.depth - (n - 1)
    BY <1>4, <1>7 DEF Closed, Iterators
  <2>2. x.val = it[j].val /\ x.depth = d - 1 /\ d \in 1..3
    BY <1>3, <1>4 DEF Columns
  <2>3. n = d - depthAt[j][L - 1] /\ depthAt[j][L - 1] \in 0..3 /\ n \in Nat
    BY <1>5, <1>6
  <2>4. \A k \in 0..3 : n = d - k => (d - 1) - (n - 1) = k
    BY <2>2, <2>3
  <2>5. (d - 1) - (n - 1) = depthAt[j][L - 1]
    BY <2>3, <2>4
  <2> HIDE DEF y
  <2> QED
    BY <2>1, <2>2, <2>5
<1>10. \A i \in Patterns : moved[i] = IF i = j THEN a.it ELSE it[i]
  BY <1>1 DEF IteratorsFit
<1> HIDE DEF moved
<1>11. ASSUME NEW i \in Patterns, NEW z, z = Closed(moved[i], stack[L].opened[i])
       PROVE  /\ z \in Iterators /\ Good(z, rows[i]) /\ z.depth = depthAt[i][L - 1]
              /\ z.val = it[i].val
  <2>1. CASE i = j
    <3>1. z = y
      BY <1>3, <1>10, <1>11, <2>1 DEF n
    <3> HIDE DEF y
    <3> QED
      BY <1>8, <1>9, <2>1, <3>1
  <2>2. CASE i # j
    BY <1>10, <1>11, <2>2, RestoredUnmoved
  <2> QED
    BY <2>1, <2>2
<1>12. Restored(moved, L)
  BY <1>11 DEF Restored
<1> QED
  BY <1>12 DEF moved

\* The turns go round the iterators.
Round(t, j, N) == (t + j) % N

LEMMA CyclicFacts ==
    ASSUME NEW N \in Nat \ {0}, NEW t \in 0..(N - 1)
    PROVE  /\ (t + 0) % N = t
           /\ (t + 1) % N \in 0..(N - 1)
           /\ \A j \in 0..(N - 1) : (t + j) % N \in 0..(N - 1)
           /\ \A j \in 0..(N - 1) : (t + j) % N = t => j = 0
           /\ \A j \in 0..(N - 1) : j # N - 1 => /\ Round((t + 1) % N, j, N) = Round(t, j + 1, N)
                                                /\ j + 1 \in 0..(N - 1)
           /\ (((t + 1) % N) + (N - 1)) % N = t
           /\ N - 1 \in 0..(N - 1)
<1>1. \A x \in 0..(2 * N - 1) : x % N = IF x < N THEN x ELSE x - N
  OBVIOUS
<1>2. \A j \in 0..(N - 1) : (t + j) % N = IF t + j < N THEN t + j ELSE t + j - N
  <2> TAKE j \in 0..(N - 1)
  <2>1. t + j \in 0..(2 * N - 1)
    OBVIOUS
  <2> QED
    BY <1>1, <2>1
<1>3. (t + 1) % N = IF t + 1 < N THEN t + 1 ELSE 0
  <2>1. t + 1 \in 0..(2 * N - 1) /\ (~ (t + 1 < N) => t + 1 - N = 0)
    OBVIOUS
  <2> QED
    BY <1>1, <2>1
<1> DEFINE u == (t + 1) % N
<1>4. u \in 0..(N - 1)
  BY <1>3
<1>5. ASSUME NEW x \in 0..(N - 1)
      PROVE  \A j \in 0..(N - 1) : (x + j) % N = IF x + j < N THEN x + j ELSE x + j - N
  <2> TAKE j \in 0..(N - 1)
  <2>1. x + j \in 0..(2 * N - 1)
    OBVIOUS
  <2> QED
    BY <1>1, <2>1
<1>6. 0 \in 0..(N - 1) /\ N - 1 \in 0..(N - 1)
  OBVIOUS
<1>7. (t + 0) % N = t
  BY <1>2, <1>6
<1>8. \A j \in 0..(N - 1) : (t + j) % N \in 0..(N - 1)
  BY <1>2
<1>10. \A j \in 0..(N - 1) : (t + j) % N = t => j = 0
  BY <1>2
<1>11. ASSUME NEW j \in 0..(N - 1), j # N - 1
       PROVE  (u + j) % N = (t + (j + 1)) % N /\ j + 1 \in 0..(N - 1)
  <2>1. j + 1 \in 0..(N - 1)
    BY <1>11
  <2>2. (t + (j + 1)) % N = IF t + (j + 1) < N THEN t + (j + 1) ELSE t + (j + 1) - N
    BY <1>2, <2>1
  <2>3. (u + j) % N = IF u + j < N THEN u + j ELSE u + j - N
    <3> HIDE DEF u
    <3> QED
      BY <1>4, <1>5
  <2> DEFINE A == (u + j) % N
             B == (t + (j + 1)) % N
  <2>4. u = IF t + 1 < N THEN t + 1 ELSE 0
    BY <1>3
  <2> HIDE DEF A, B, u
  <2>5. A = B
    <3>1. A = IF u + j < N THEN u + j ELSE u + j - N
      BY <2>3 DEF A
    <3>2. B = IF t + (j + 1) < N THEN t + (j + 1) ELSE t + (j + 1) - N
      BY <2>2 DEF B
    <3> QED
      BY <1>11, <2>4, <3>1, <3>2
  <2> QED
    BY <2>1, <2>5 DEF A, B
<1>13. ASSUME NEW j \in 0..(N - 1), j # N - 1
       PROVE  Round(u, j, N) = Round(t, j + 1, N) /\ j + 1 \in 0..(N - 1)
  <2> HIDE DEF u
  <2> QED
    BY <1>11, <1>13 DEF Round
<1>12. (u + (N - 1)) % N = t
  <2>1. (u + (N - 1)) % N = IF u + (N - 1) < N THEN u + (N - 1) ELSE u + (N - 1) - N
    <3> HIDE DEF u
    <3> QED
      BY <1>4, <1>5, <1>6
  <2>2. u = IF t + 1 < N THEN t + 1 ELSE 0
    BY <1>3
  <2> DEFINE A == (u + (N - 1)) % N
  <2> HIDE DEF A, u
  <2>3. A = t
    BY <2>1, <2>2 DEF A
  <2> QED
    BY <2>3 DEF A
<1> QED
  BY <1>4, <1>6, <1>7, <1>8, <1>10, <1>12, <1>13

LEMMA RoundFacts ==
    ASSUME NEW N \in Nat \ {0}, NEW t \in 0..(N - 1)
    PROVE  /\ Round(t, 0, N) = t
           /\ \A j \in 0..(N - 1) : Round(t, j, N) \in 0..(N - 1)
           /\ \A k \in 0..(N - 1) : \E j \in 0..(N - 1) : Round(t, j, N) = k
<1>1. ASSUME NEW k \in 0..(N - 1) PROVE \E j \in 0..(N - 1) : Round(t, j, N) = k
  <2>1. PICK j : j = IF t <= k THEN k - t ELSE k - t + N
    OBVIOUS
  <2>2. \A x \in 0..(2 * N - 1) : x % N = IF x < N THEN x ELSE x - N
    OBVIOUS
  <2>3. j \in 0..(N - 1) /\ t + j \in 0..(2 * N - 1) /\ (IF t + j < N THEN t + j ELSE t + j - N) = k
    BY <2>1
  <2>4. Round(t, j, N) = k
    BY <2>2, <2>3 DEF Round
  <2> QED
    BY <2>3, <2>4
<1>2. Round(t, 0, N) = t /\ \A j \in 0..(N - 1) : Round(t, j, N) \in 0..(N - 1)
  BY CyclicFacts DEF Round
<1> QED
  BY <1>1, <1>2

\* The same, as a formula that can be applied to terms with definitions in them.
LEMMA RoundIs ==
    \A N, t : N \in Nat \ {0} /\ t \in 0..(N - 1) =>
        /\ Round(t, 0, N) = t
        /\ \A j \in 0..(N - 1) : Round(t, j, N) \in 0..(N - 1)
BY RoundFacts

\* A place that is reached going round from t.
Reached(t, k, N) == \E j \in 0..(N - 1) : Round(t, j, N) = k

\* Every place is reached.
LEMMA RoundReaches ==
    \A N, t, k : N \in Nat \ {0} /\ t \in 0..(N - 1) /\ k \in 0..(N - 1) => Reached(t, k, N)
BY RoundFacts DEF Reached

\* The iterator whose turn it is has the least key, and the one before it the
\* greatest.
LEMMA LeapFacts ==
    ASSUME Planned, Plan, SearchInv, pc = "leap", NEW L, L = Len(stack),
           NEW active, active = stack[L].active, NEW N, N = Len(active), NEW w, w = active[turn + 1]
    PROVE  /\ stack # <<>> /\ L \in 1..Len(variables) /\ L \in Nat \ {0} /\ N \in Nat \ {0}
           /\ turn \in 0..(N - 1) /\ w \in activeAt[L] /\ turn + 1 \in 1..N
           /\ Key(w) = Deepest(it[w]) /\ max_key \in Nat
           /\ \A i \in activeAt[L] : /\ Deepest(it[i]) \in Nat /\ it[i].pos # EOF
                                     /\ Deepest(it[w]) <= Deepest(it[i])
                                     /\ Deepest(it[i]) <= max_key
           /\ \E i \in activeAt[L] : max_key = Deepest(it[i])
           /\ (Key(w) # max_key => \E i \in activeAt[L] : i # w /\ max_key = Deepest(it[i]))
<1> DEFINE at_(j) == active[1 + Round(turn, j, N)]
<1>1. FramesFit /\ SearchFits
  BY DEF SearchInv
<1>2. stack # <<>> /\ active # <<>>
  BY <1>1 DEF FramesFit, SearchFits
<1>20. pc \in {"search", "leap", "return"}
  OBVIOUS
<1>3. /\ L \in 1..Len(variables) /\ L \in Nat \ {0} /\ N \in Nat
      /\ \A k \in 1..N : active[k] \in activeAt[L]
      /\ \A i \in activeAt[L] : \E k \in 1..N : active[k] = i
      /\ (active = <<>> <=> N = 0)
  <2>1. L \in 1..Len(variables) /\ L \in Nat \ {0} /\ N \in Nat
    BY <1>2, <1>20, KeysOfActive
  <2>2. \A k \in 1..N : active[k] \in activeAt[L]
    BY <1>2, <1>20, KeysOfActive
  <2>3. ASSUME NEW i \in activeAt[L] PROVE \E k \in 1..N : active[k] = i
    <3>1. ToSet(active) = activeAt[L] /\ DOMAIN active = 1..N
      BY <1>2, <1>20, KeysOfActive
    <3> QED
      BY <3>1 DEF ToSet
  <2>4. active = <<>> <=> N = 0
    BY <1>2, <1>20, KeysOfActive
  <2> QED
    BY <2>1, <2>2, <2>3, <2>4
<1>4. \A i \in activeAt[L] : /\ Key(i) \in Nat
                             /\ Key(i) = NULL <=> it[i].pos = EOF
                             /\ Key(i) # NULL => Key(i) = Deepest(it[i])
  BY <1>2, <1>20, KeysOfActive
<1>5. N \in Nat \ {0}
  BY <1>2, <1>3
<1>6. /\ \A i \in activeAt[L] : it[i].pos # EOF
      /\ turn \in 0..(N - 1)
      /\ \A j, k \in 0..(N - 1) : j <= k => Deepest(it[at_(j)]) <= Deepest(it[at_(k)])
  <2>1. Len(stack) = L /\ stack[L].active = active /\ Len(active) = N
    OBVIOUS
  <2> HIDE DEF at_
  <2>2. /\ \A i \in activeAt[L] : it[i].pos # EOF
        /\ turn \in 0..(N - 1)
        /\ \A j, k \in 0..(N - 1) : j <= k =>
               Deepest(it[active[1 + ((turn + j) % N)]]) <= Deepest(it[active[1 + ((turn + k) % N)]])
    BY <1>1, <2>1, Zenon DEF SearchFits
  <2> QED
    BY <2>2 DEF at_, Round
<1>7. \A i \in activeAt[L] : Key(i) = Deepest(it[i]) /\ Deepest(it[i]) \in Nat
  BY <1>4, <1>6
<1>8. /\ Round(turn, 0, N) = turn /\ 0 \in 0..(N - 1) /\ N - 1 \in 0..(N - 1)
      /\ \A k \in 0..(N - 1) : \E j \in 0..(N - 1) : Round(turn, j, N) = k
      /\ \A j \in 0..(N - 1) : Round(turn, j, N) \in 0..(N - 1)
  <2>1. 0 \in 0..(N - 1) /\ N - 1 \in 0..(N - 1)
    BY <1>5
  <2> QED
    <3>1. turn \in 0..(N - 1)
      BY <1>6
    <3> HIDE DEF at_
    <3>2. /\ Round(turn, 0, N) = turn
          /\ \A j \in 0..(N - 1) : Round(turn, j, N) \in 0..(N - 1)
      BY <1>5, <3>1, RoundIs
    <3>3. ASSUME NEW k \in 0..(N - 1) PROVE \E j \in 0..(N - 1) : Round(turn, j, N) = k
      <4>1. Reached(turn, k, N)
        BY <1>5, <3>1, RoundReaches
      <4> QED
        BY <4>1 DEF Reached
    <3> QED
      BY <2>1, <3>2, <3>3
<1>9. at_(0) = w /\ w \in activeAt[L] /\ turn + 1 \in 1..N
  <2>1. 1 + turn = turn + 1 /\ turn + 1 \in 1..N
    BY <1>5, <1>6
  <2> QED
    BY <1>3, <1>8, <2>1
<1>10. max_key = Deepest(it[at_(N - 1)]) /\ at_(N - 1) \in activeAt[L]
  <2>1. turn + N - 1 = turn + (N - 1)
    BY <1>5, <1>6
  <2>2. 1 + Round(turn, N - 1, N) \in 1..N
    <3>1. Round(turn, N - 1, N) \in 0..(N - 1)
      BY <1>8
    <3>2. \A x \in 0..(N - 1) : 1 + x \in 1..N
      BY <1>5
    <3> QED
      BY <3>1, <3>2
  <2>3. max_key = Key(at_(N - 1))
    BY <2>1 DEF max_key, Top, Round
  <2> QED
    BY <1>3, <1>7, <2>1, <2>2, <2>3
<1>11. ASSUME NEW i \in activeAt[L] PROVE \E j \in 0..(N - 1) : at_(j) = i
  <2>1. PICK k \in 1..N : active[k] = i
    BY <1>3
  <2>2. k - 1 \in 0..(N - 1) /\ 1 + (k - 1) = k
    BY <1>5
  <2>3. PICK j \in 0..(N - 1) : Round(turn, j, N) = k - 1
    BY <1>8, <2>2
  <2> QED
    BY <2>1, <2>2, <2>3
<1> HIDE DEF at_
<1>12. \A i \in activeAt[L] : Deepest(it[w]) <= Deepest(it[i]) /\ Deepest(it[i]) <= max_key
  <2> TAKE i \in activeAt[L]
  <2>1. PICK j \in 0..(N - 1) : at_(j) = i
    BY <1>11
  <2>2. 0 <= j /\ j <= N - 1
    BY <1>5
  <2> QED
    BY <1>6, <1>8, <1>9, <1>10, <2>1, <2>2
<1>13. Key(w) = Deepest(it[w]) /\ max_key \in Nat
  BY <1>7, <1>9, <1>10
<1>14. \A i \in activeAt[L] : /\ Deepest(it[i]) \in Nat /\ it[i].pos # EOF
                              /\ Deepest(it[w]) <= Deepest(it[i])
                              /\ Deepest(it[i]) <= max_key
  BY <1>6, <1>7, <1>12
<1>15. \E i \in activeAt[L] : max_key = Deepest(it[i])
  BY <1>10
<1>16. Key(w) # max_key => \E i \in activeAt[L] : i # w /\ max_key = Deepest(it[i])
  BY <1>10, <1>13
<1> QED
  BY <1>2, <1>3, <1>5, <1>6, <1>9, <1>13, <1>14, <1>15, <1>16

\* Nothing to search for: the frame's variable had its value before.
LEMMA NothingActiveStep ==
    ASSUME Planned, Plan, CountFits, SearchInv, NothingActive
    PROVE  CountFits' /\ ((stack' = <<>> /\ pc' = "return") \/ SearchInv')
<1> DEFINE L == Len(stack)
<1>1. stack # <<>> /\ pc = "return" /\ stack[L].active = <<>> /\ Finish(it)
  BY DEF NothingActive, Top
<1>2. L \in 1..Len(variables) /\ activeAt[L] = {}
  BY <1>1, KeysOfActive
<1>3. variables[L] \notin unknowns
  BY <1>2, ActiveFacts
<1>4. \A a \in ahead : Past(a, bound, L, variables, lower)
  BY <1>1 DEF ahead, matched
<1>5. \A a \in ahead : Past(a, bound, L - 1, variables, lower)
  BY <1>2, <1>3, <1>4, PastSteps
<1>6. Restored(it, L)
  BY <1>1, RestoredAll
<1> HIDE DEF L
<1> QED
  BY <1>1, <1>5, <1>6, FinishStep DEF L

LEMMA BeyondAt ==
    ASSUME NEW r, NEW v, NEW d \in Columns, Agrees(r, v, d - 1), v[d] < r[d]
    PROVE  Beyond(r, v, d)
<1>1. d \in 1..d
  BY DEF Columns
<1> QED
  BY <1>1 DEF Beyond, Agrees

\* An iterator past the last row has no answer left: the search ends.
LEMMA SearchEndsStep ==
    ASSUME Planned, Plan, CountFits, SearchInv, SearchEnds
    PROVE  CountFits' /\ ((stack' = <<>> /\ pc' = "return") \/ SearchInv')
<1> DEFINE L == Len(stack)
<1>1. /\ pc = "search" /\ Finish(it)
      /\ \E i \in ToSet(stack[L].active) : Key(i) = NULL
  BY DEF SearchEnds, Top
<1>2. FramesFit /\ SearchFits /\ pc \in {"search", "leap", "return"}
  BY <1>1 DEF SearchInv
<1>3. stack # <<>>
  BY <1>1, <1>2 DEF FramesFit
<1>4. L \in 1..Len(variables) /\ ToSet(stack[L].active) = activeAt[L]
  BY <1>2, <1>3, KeysOfActive
<1>5. \A i \in activeAt[L] : Key(i) = NULL <=> it[i].pos = EOF
  BY <1>2, <1>3, KeysOfActive
<1>6. PICK i \in activeAt[L] : it[i].pos = EOF
  BY <1>1, <1>4, <1>5
<1>7. PICK j \in activeAt[L] : Deepest(it[i]) < Deepest(it[j])
  BY <1>1, <1>2, <1>6 DEF SearchFits
<1>8. ASSUME NEW a \in ahead PROVE Past(a, bound, L - 1, variables, lower)
  <2>1. matched = L - 1 /\ a \in Answers
    BY <1>1 DEF matched, ahead
  <2>2. CASE Past(a, bound, matched, variables, lower)
    BY <2>1, <2>2
  <2>3. CASE /\ Same(a, bound, lower[matched])
             /\ \A k \in activeAt[L] : Deepest(it[k]) <= a[variables[L]]
    <3> DEFINE d == depthAt[i][L]
               r == AnswerRow(i, a)
    <3>1. /\ d \in Columns /\ it[i].depth = d /\ Good(it[i], rows[i])
          /\ it[i].val[d] \in Nat /\ Deepest(it[i]) = it[i].val[d]
      BY <1>2, <1>3, ActiveIterator DEF Settled
    <3>2. r \in rows[i] /\ Agrees(r, it[i].val, d - 1) /\ r[d] = a[variables[L]]
      <4>1. Same(a, bound, lower[L - 1]) /\ a \in Answers
        BY <2>1, <2>3
      <4>2. \A a1 \in Answers : Same(a1, bound, lower[L - 1]) =>
                /\ AnswerRow(i, a1) \in rows[i]
                /\ Agrees(AnswerRow(i, a1), it[i].val, d - 1)
                /\ AnswerRow(i, a1)[d] = a1[variables[L]]
        BY <1>2, <1>3, ActiveIterator DEF Settled
      <4> QED
        BY <4>1, <4>2
    <3>3. Deepest(it[j]) \in Nat
      <4>1. it[j].val[depthAt[j][L]] \in Nat \ {0} /\ Deepest(it[j]) = it[j].val[depthAt[j][L]]
        BY <1>2, <1>3, ActiveIterator DEF Settled
      <4> QED
        BY <4>1
    <3>4. a[variables[L]] \in Nat
      BY <1>4, <2>1, AnswerTypes
    <3>5. Deepest(it[j]) <= a[variables[L]]
      BY <2>3
    <3> HIDE DEF d, r
    <3>6. it[i].val[d] < r[d]
      BY <1>7, <3>1, <3>2, <3>3, <3>4, <3>5
    <3>7. Beyond(r, it[i].val, d)
      BY <3>1, <3>2, <3>6, BeyondAt
    <3> QED
      BY <1>6, <3>1, <3>2, <3>7 DEF Good
  <2> QED
    BY <1>1, <2>2, <2>3 DEF ahead
<1>9. Restored(it, L)
  BY <1>2, <1>3, RestoredAll
<1> HIDE DEF L
<1> QED
  BY <1>1, <1>2, <1>3, <1>8, <1>9, FinishStep DEF L

\* iterator_seek, for an iterator that takes part.
LEMMA LeapReaches ==
    ASSUME Planned, Plan, SearchInv, pc \in {"search", "leap", "return"}, stack # <<>>,
           NEW w \in activeAt[Len(stack)], NEW key \in Nat
    PROVE  Reaches(it[w], rows[w], depthAt[w][Len(stack)], key, iterator_seek(w, key))
<1> DEFINE d == depthAt[w][Len(stack)]
<1>1. /\ d \in Columns /\ it[w].depth = d /\ it[w] \in Iterators /\ Good(it[w], rows[w])
      /\ rows[w] = Rows(w) /\ rows[w] \in SUBSET Keys
  BY ActiveIterator DEF Settled
<1>2. iterator_seek(w, key) = Arrive(it[w], SeekRow(w, d, key), d)
  BY <1>1 DEF iterator_seek
<1> HIDE DEF d
<1>3. Reaches(it[w], rows[w], d, key, Arrive(it[w], SeekRow(w, d, key), d))
  BY <1>1, SeekReaches
<1> QED
  BY <1>2, <1>3 DEF d

\* iterator_next.
LEMMA AdvanceReaches ==
    ASSUME Planned, Plan, SearchInv, pc \in {"search", "leap", "return"}, stack # <<>>,
           NEW w \in activeAt[Len(stack)]
    PROVE  Reaches(it[w], rows[w], depthAt[w][Len(stack)], Deepest(it[w]) + 1, iterator_next(w))
<1> DEFINE d == depthAt[w][Len(stack)]
<1>1. /\ d \in Columns /\ it[w].depth = d /\ it[w] \in Iterators /\ Good(it[w], rows[w])
      /\ rows[w] = Rows(w) /\ rows[w] \in SUBSET Keys /\ Deepest(it[w]) = it[w].val[d]
  BY ActiveIterator DEF Settled
<1>2. it[w].depth # 0
  BY <1>1 DEF Columns
<1> HIDE DEF d
<1>3. Reaches(it[w], Rows(w), it[w].depth, it[w].val[it[w].depth] + 1, iterator_next(w))
  BY <1>1, <1>2, NextReaches
<1> QED
  BY <1>1, <1>3 DEF d


\* An iterator that takes part has moved on in its column.
LEMMA MovedFacts ==
    ASSUME Planned, Plan, SearchInv, pc \in {"leap", "return"}, pc' \in {"search", "leap"}, stack # <<>>,
           NEW L, L = Len(stack), NEW w \in activeAt[L], NEW key, NEW a,
           Reaches(it[w], rows[w], depthAt[w][L], key, a), a.ok,
           it' = [it EXCEPT ![w] = a.it], bound' = bound, stack' = stack, PlanSame
    PROVE  /\ FramesFit' /\ IteratorsFit' /\ BoundFits' /\ OpenFits'
           /\ \A i \in Patterns : it'[i] = IF i = w THEN a.it ELSE it[i]
           /\ key <= Deepest(it'[w]) /\ Deepest(it'[w]) \in Nat /\ it'[w].pos # EOF
           /\ \A b \in Answers : Same(b, bound, lower[L - 1]) /\ key <= b[variables[L]] =>
                                     Deepest(it'[w]) <= b[variables[L]]
<1> DEFINE d == depthAt[w][L]
<1>1. FramesFit /\ IteratorsFit /\ BoundFits
  BY DEF SearchInv
<1>2. L \in 1..Len(variables) /\ full = L
  BY KeysOfActive
<1>3. full' = L /\ matched' = L - 1 /\ (matched = L \/ matched = L - 1)
  BY DEF full, matched
<1>4. FramesFit'
  <2>1. Frames' = Frames
    BY DEF PlanSame, Frames
  <2> QED
    BY <1>1, <1>2, <1>3, <2>1 DEF FramesFit, PlanSame
<1>5. BoundFits'
  BY <1>1, <1>2, <1>3 DEF BoundFits, PlanSame
<1>6. OpenFits'
  BY DEF OpenFits
<1>7. \A i \in Patterns : it'[i] = IF i = w THEN a.it ELSE it[i]
  BY <1>1 DEF IteratorsFit
<1>8. /\ w \in Patterns /\ d \in Columns /\ it[w].depth = d
      /\ rows[w] \in SUBSET Keys
      /\ term[w][d] = variables[L] /\ variables[L] \in unknowns
  BY ActiveIterator DEF Settled
<1>9. /\ a.it \in Iterators /\ a.it.depth = d /\ Good(a.it, rows[w]) /\ a.it.pos # EOF
      /\ \A c \in Columns \ {d} : a.it.val[c] = it[w].val[c]
      /\ key <= a.it.val[d]
      /\ \A r \in rows[w] : Agrees(r, it[w].val, d - 1) /\ key <= r[d] => a.it.val[d] <= r[d]
  BY DEF Reaches
<1>10. Deepest(it'[w]) = a.it.val[d] /\ a.it.val[d] \in Nat
  <2>1. it'[w] = a.it
    BY <1>7, <1>8
  <2>2. a.it.val \in Keys
    BY <1>9 DEF Iterators
  <2> HIDE DEF d
  <2> QED
    BY <1>8, <1>9, <2>1, <2>2 DEF Deepest, Keys
<1>11. variables[L] \notin lower[L - 1] /\ lower[L - 1] \subseteq lower[L]
  BY <1>2, LowerFacts
<1>12. lower[L - 1] \subseteq lower[matched]
  BY <1>3, <1>11
<1> HIDE DEF d
<1>13. it' \in [Patterns -> Iterators]
  BY <1>1, <1>9 DEF IteratorsFit
<1>14. ASSUME NEW i \in Patterns
       PROVE  /\ Good(it'[i], rows[i])
              /\ it'[i].depth = depthAt[i][L]
              /\ \A c \in Columns : c <= it'[i].depth =>
                     /\ term[i][c] \notin unknowns => it'[i].val[c] = knownAs[term[i][c]]
                     /\ term[i][c] \in lower[L - 1] => it'[i].val[c] = bound[term[i][c]]
  <2>1. /\ Good(it[i], rows[i])
        /\ it[i].depth = depthAt[i][L]
        /\ \A c \in Columns : c <= it[i].depth =>
               /\ term[i][c] \notin unknowns => it[i].val[c] = knownAs[term[i][c]]
               /\ term[i][c] \in lower[matched] => it[i].val[c] = bound[term[i][c]]
    BY <1>1 DEF IteratorsFit
  <2>2. CASE i # w
    BY <1>7, <1>12, <2>1, <2>2
  <2>3. CASE i = w
    <3>1. it'[i] = a.it /\ it'[i].depth = d /\ it[i].depth = d
      BY <1>7, <1>8, <1>9, <2>3
    <3>2. Good(it'[i], rows[i]) /\ it'[i].depth = depthAt[i][L]
      BY <1>9, <2>3, <3>1 DEF d
    <3>3. ASSUME NEW c \in Columns, c <= it'[i].depth
          PROVE  /\ term[i][c] \notin unknowns => it'[i].val[c] = knownAs[term[i][c]]
                 /\ term[i][c] \in lower[L - 1] => it'[i].val[c] = bound[term[i][c]]
      <4>1. CASE c = d
        BY <1>8, <1>11, <2>3, <4>1
      <4>2. CASE c # d
        <5>1. it'[i].val[c] = it[i].val[c] /\ c <= it[i].depth
          BY <1>9, <2>3, <3>1, <3>3, <4>2
        <5> QED
          BY <1>12, <2>1, <5>1
      <4> QED
        BY <4>1, <4>2
    <3> QED
      BY <3>2, <3>3
  <2> QED
    BY <2>2, <2>3
<1>15. IteratorsFit'
  BY <1>3, <1>13, <1>14 DEF IteratorsFit, PlanSame
<1>16. ASSUME NEW b \in Answers, Same(b, bound, lower[L - 1]), key <= b[variables[L]]
       PROVE  Deepest(it'[w]) <= b[variables[L]]
  <2>1. /\ AnswerRow(w, b) \in rows[w]
        /\ Agrees(AnswerRow(w, b), it[w].val, d - 1)
        /\ AnswerRow(w, b)[d] = b[variables[L]]
    <3>1. Settled /\ d = depthAt[w][L]
      BY DEF Settled, d
    <3>2. AnswerRow(w, b) \in rows[w]
      BY <1>16, <3>1, ActiveIterator
    <3>3. Agrees(AnswerRow(w, b), it[w].val, d - 1)
      BY <1>16, <3>1, ActiveIterator
    <3>4. AnswerRow(w, b)[d] = b[variables[L]]
      BY <1>16, <3>1, ActiveIterator
    <3> QED
      BY <3>2, <3>3, <3>4
  <2> QED
    BY <1>9, <1>10, <1>16, <2>1
<1> QED
  BY <1>4, <1>5, <1>6, <1>7, <1>8, <1>9, <1>10, <1>15, <1>16


\* The column of the frame's variable in the trie of a pattern.
LEMMA ColumnOf ==
    ASSUME Plan, NEW L \in 1..Len(variables), variables[L] \in unknowns,
           NEW i \in Patterns, NEW c \in Columns, term[i][c] = variables[L]
    PROVE  i \in activeAt[L] /\ c = depthAt[i][L]
<1> DEFINE d == depthAt[i][L]
<1>1. level[i][c] = L
  <2>1. level[i][c] \in 1..Len(variables) /\ variables[level[i][c]] = term[i][c]
    BY DEF Plan
  <2> QED
    BY <2>1 DEF Plan
<1>2. i \in activeAt[L]
  BY <1>1 DEF activeAt
<1>3. d \in Columns /\ term[i][d] = variables[L] /\ level[i][d] = L
  BY <1>2, LevelSteps
<1>4. \A e, f \in Columns : e < f /\ term[i][e] \in unknowns => level[i][e] < level[i][f]
  BY DEF Plan
<1> HIDE DEF d
<1>5. ~ (c < d) /\ ~ (d < c)
  <2>1. ~ (L < L)
    BY DEF Plan
  <2> QED
    BY <1>1, <1>3, <1>4, <2>1
<1>6. c = d
  BY <1>3, <1>5 DEF Columns
<1> QED
  BY <1>2, <1>6 DEF d

\* All the iterators hold the same value: it is the variable's.
LEMMA MatchStep ==
    ASSUME Planned, Plan, CountFits, SearchInv, Match
    PROVE  CountFits' /\ SearchInv'
<1> DEFINE L == Len(stack)
           v == variables[L]
           K == max_key
           w == Turn
<1>1. PlanSame
  BY PlanKept DEF Match
<1>2. /\ pc = "leap" /\ pc' = "enter" /\ Key(w) = K
      /\ bound' = [bound EXCEPT ![v] = K]
      /\ it' = it /\ stack' = stack /\ at' = at
      /\ solutions' = solutions /\ starved' = starved
  BY DEF Match, var_name
<1>3. FramesFit /\ IteratorsFit /\ BoundFits
  BY DEF SearchInv
<1>4. w = stack[L].active[turn + 1]
  BY DEF Turn, Top
<1> HIDE DEF w, K
<1>5. /\ stack # <<>> /\ L \in 1..Len(variables) /\ L \in Nat \ {0}
      /\ w \in activeAt[L] /\ Key(w) = Deepest(it[w]) /\ K \in Nat
      /\ \A i \in activeAt[L] : /\ Deepest(it[i]) \in Nat
                                /\ Deepest(it[w]) <= Deepest(it[i])
                                /\ Deepest(it[i]) <= K
  BY <1>2, <1>4, LeapFacts DEF K
<1>6. \A i \in activeAt[L] : Deepest(it[i]) = K
  BY <1>2, <1>5
<1>7. K \in symbols /\ v \in unknowns
  <2>1. it[w].val[depthAt[w][L]] \in symbols /\ Deepest(it[w]) = it[w].val[depthAt[w][L]] /\ v \in unknowns
    BY <1>2, <1>5, ActiveIterator DEF Settled
  <2> QED
    BY <1>5, <1>6, <2>1
<1>8. full = L /\ full' = L /\ matched = L - 1 /\ matched' = L
  BY <1>2 DEF full, matched
<1>9. /\ v \in Vars /\ v \notin lower[L - 1] /\ lower[L] = lower[L - 1] \union {v} /\ v \in lower[L]
      /\ lower[L - 1] \subseteq unknowns /\ unknowns \subseteq Vars /\ L - 1 \in 0..Len(variables)
  BY <1>5, <1>7, LowerFacts DEF unknowns
<1>10. bound \in [Vars -> symbols \union {NULL}] /\ \A x \in unknowns : x \notin lower[L] => bound[x] = NULL
  BY <1>3, <1>8 DEF BoundFits
<1> HIDE DEF v, L
<1>11. /\ bound' \in [Vars -> symbols \union {NULL}]
       /\ bound'[v] = K /\ \A x \in Vars : x # v => bound'[x] = bound[x]
  BY <1>2, <1>7, <1>9, <1>10
<1>12. Same(bound', bound, lower[L - 1])
  BY <1>9, <1>11 DEF Same
<1>13. ASSUME NEW a \in Answers
       PROVE  Past(a, bound', L, variables, lower) \/ Same(a, bound', lower[L]) <=>
                  \/ Past(a, bound, L - 1, variables, lower)
                  \/ Same(a, bound, lower[L - 1]) /\ \A i \in activeAt[L] : Deepest(it[i]) <= a[v]
  <2>1. /\ Past(a, bound, L - 1, variables, lower) <=> Past(a, bound', L - 1, variables, lower)
        /\ Same(a, bound, lower[L - 1]) <=> Same(a, bound', lower[L - 1])
    BY <1>9, <1>12, PastBelow
  <2>2. Past(a, bound', L, variables, lower) <=>
            \/ Past(a, bound', L - 1, variables, lower)
            \/ Same(a, bound', lower[L - 1]) /\ K < a[v]
    BY <1>5, <1>7, <1>11, PastSteps DEF v
  <2>3. Same(a, bound', lower[L]) <=> Same(a, bound', lower[L - 1]) /\ a[v] = K
    BY <1>9, <1>11 DEF Same
  <2>4. a[v] \in Nat
    BY <1>5, AnswerTypes DEF v
  <2>5. (\A i \in activeAt[L] : Deepest(it[i]) <= a[v]) <=> K <= a[v]
    BY <1>5, <1>6
  <2>6. K <= a[v] <=> K < a[v] \/ a[v] = K
    BY <1>5, <2>4
  <2> QED
    BY <2>1, <2>2, <2>3, <2>5, <2>6
<1>14. CountFits'
  <2>1. ahead' = {a \in Answers : Past(a, bound', L, variables, lower) \/ Same(a, bound', lower[L])}
    BY <1>1, <1>2, <1>8 DEF ahead, PlanSame, L
  <2>2. ahead = {a \in Answers : \/ Past(a, bound, L - 1, variables, lower)
                                 \/ Same(a, bound, lower[L - 1]) /\ \A i \in activeAt[L] : Deepest(it[i]) <= a[v]}
    BY <1>2, <1>8 DEF ahead, L, v
  <2>3. ahead' = ahead
    BY <1>13, <2>1, <2>2
  <2> QED
    BY <1>1, <1>2, <2>3, CountKept DEF PlanSame
<1>15. FramesFit'
  <2>1. Frames' = Frames
    BY <1>1 DEF PlanSame, Frames
  <2> QED
    BY <1>1, <1>2, <1>3, <1>8, <2>1 DEF FramesFit, PlanSame
<1>16. IteratorsFit'
  <2>1. ASSUME NEW i \in Patterns, NEW c \in Columns, c <= it[i].depth, term[i][c] \in lower[L]
        PROVE  it[i].val[c] = bound'[term[i][c]]
    <3>1. CASE term[i][c] = v
      <4>1. i \in activeAt[L] /\ c = depthAt[i][L]
        BY <1>5, <1>7, <3>1, ColumnOf DEF v
      <4>2. it[i].depth = depthAt[i][L]
        BY <1>2, <1>3 DEF IteratorsFit, L
      <4> QED
        BY <1>6, <1>11, <3>1, <4>1, <4>2 DEF Deepest
    <3>2. CASE term[i][c] # v
      <4>1. term[i][c] \in lower[L - 1]
        BY <1>9, <2>1, <3>2
      <4>2. it[i].val[c] = bound[term[i][c]]
        BY <1>3, <1>8, <2>1, <4>1 DEF IteratorsFit
      <4> QED
        BY <1>12, <4>1, <4>2 DEF Same
    <3> QED
      BY <3>1, <3>2
  <2>2. /\ Patterns' = Patterns /\ rows' = rows /\ term' = term /\ unknowns' = unknowns /\ knownAs' = knownAs
        /\ lower' = lower /\ depthAt' = depthAt
    BY <1>1 DEF PlanSame
  <2> QED
    BY <1>2, <1>3, <1>8, <2>1, <2>2 DEF IteratorsFit
<1>17. BoundFits'
  <2>1. ASSUME NEW x \in unknowns, x \notin lower[L] PROVE bound'[x] = NULL
    BY <1>9, <1>10, <1>11, <2>1
  <2>2. L # 0
    BY <1>5
  <2> QED
    BY <1>1, <1>8, <1>11, <2>1, <2>2 DEF BoundFits, PlanSame
<1>18. OpenFits' /\ SearchFits'
  BY <1>2 DEF OpenFits, SearchFits
<1> QED
  BY <1>14, <1>15, <1>16, <1>17, <1>18 DEF SearchInv


\* The turns after a leap: those of the others as they were, then the one that
\* has leapt.
LEMMA RoundSteps ==
    ASSUME NEW N \in Nat \ {0}, NEW t \in 0..(N - 1), NEW u, u = (t + 1) % N
    PROVE  /\ u \in 0..(N - 1)
           /\ Round(u, N - 1, N) = t
           /\ \A j \in 0..(N - 1) : j # N - 1 => /\ Round(u, j, N) = Round(t, j + 1, N)
                                                /\ j + 1 \in 0..(N - 1)
                                                /\ Round(t, j + 1, N) # t
<1>1. u \in 0..(N - 1)
  BY CyclicFacts
<1>2. Round(u, N - 1, N) = t
  BY CyclicFacts DEF Round
<1>3. ASSUME NEW j \in 0..(N - 1), j # N - 1
      PROVE  Round(u, j, N) = Round(t, j + 1, N) /\ j + 1 \in 0..(N - 1) /\ Round(t, j + 1, N) # t
  <2>1. j + 1 \in 0..(N - 1) /\ j + 1 # 0
    BY <1>3
  <2>2. Round((t + 1) % N, j, N) = Round(t, j + 1, N)
    BY <1>3, CyclicFacts
  <2>3. \A i \in 0..(N - 1) : (t + i) % N = t => i = 0
    BY CyclicFacts
  <2>4. Round(u, j, N) = Round(t, j + 1, N)
    BY <2>2
  <2>5. \A i \in 0..(N - 1) : Round(t, i, N) = t => i = 0
    BY <2>3 DEF Round
  <2> QED
    BY <2>1, <2>4, <2>5
<1> QED
  BY <1>1, <1>2, <1>3

\* The iterator with the least key leaps to the greatest: no answer between.
LEMMA LeapStep ==
    ASSUME Planned, Plan, CountFits, SearchInv, Leap
    PROVE  CountFits' /\ SearchInv'
<1> DEFINE L == Len(stack)
           active == stack[L].active
           N == Len(active)
           v == variables[L]
           K == max_key
           w == Turn
           a == iterator_seek(w, K)
<1>1. PlanSame
  BY PlanKept DEF Leap
<1>2. /\ pc = "leap" /\ pc' = "leap" /\ Key(w) # K /\ a.ok
      /\ it' = [it EXCEPT ![w] = a.it] /\ turn' = (turn + 1) % N
      /\ bound' = bound /\ stack' = stack /\ at' = at
      /\ solutions' = solutions /\ starved' = starved
  BY DEF Leap, Top
<1>3. w = active[turn + 1]
  BY DEF Turn, Top
<1> HIDE DEF w, K
<1>4. /\ stack # <<>> /\ L \in 1..Len(variables) /\ N \in Nat \ {0}
      /\ turn \in 0..(N - 1) /\ w \in activeAt[L]
      /\ K \in Nat
      /\ \A i \in activeAt[L] : /\ Deepest(it[i]) \in Nat /\ it[i].pos # EOF
                                /\ Deepest(it[w]) <= Deepest(it[i])
                                /\ Deepest(it[i]) <= K
  BY <1>2, <1>3, LeapFacts DEF K
<1>5. PICK x \in activeAt[L] : x # w /\ K = Deepest(it[x])
  BY <1>2, <1>3, LeapFacts DEF K
<1>6. Reaches(it[w], rows[w], depthAt[w][L], K, a)
  BY <1>2, <1>4, LeapReaches
<1> HIDE DEF a
<1>7. /\ FramesFit' /\ IteratorsFit' /\ BoundFits' /\ OpenFits'
      /\ \A i \in Patterns : it'[i] = IF i = w THEN a.it ELSE it[i]
      /\ K <= Deepest(it'[w]) /\ Deepest(it'[w]) \in Nat /\ it'[w].pos # EOF
      /\ \A b \in Answers : Same(b, bound, lower[L - 1]) /\ K <= b[v] => Deepest(it'[w]) <= b[v]
  BY <1>1, <1>2, <1>4, <1>6, MovedFacts
<1>8. activeAt[L] \subseteq Patterns
  BY <1>4, ActiveFacts
<1>9. \A i \in activeAt[L] : i # w => it'[i] = it[i]
  BY <1>7, <1>8
<1>10. matched = L - 1 /\ matched' = L - 1
  BY <1>2 DEF matched
<1> HIDE DEF v, active, N
<1>11. ASSUME NEW b \in Answers, Same(b, bound, lower[L - 1])
       PROVE  (\A i \in activeAt[L] : Deepest(it'[i]) <= b[v]) <=> \A i \in activeAt[L] : Deepest(it[i]) <= b[v]
  <2>1. b[v] \in Nat
    BY <1>4, AnswerTypes DEF v
  <2>2. ASSUME \A i \in activeAt[L] : Deepest(it'[i]) <= b[v], NEW i \in activeAt[L]
        PROVE  Deepest(it[i]) <= b[v]
    <3>1. CASE i # w
      BY <1>9, <2>2, <3>1
    <3>2. CASE i = w
      <4>1. Deepest(it'[w]) <= b[v] /\ K <= Deepest(it'[w]) /\ Deepest(it[w]) <= K
        BY <1>4, <1>7, <2>2
      <4> QED
        BY <1>4, <1>7, <2>1, <3>2, <4>1
    <3> QED
      BY <3>1, <3>2
  <2>3. ASSUME \A i \in activeAt[L] : Deepest(it[i]) <= b[v], NEW i \in activeAt[L]
        PROVE  Deepest(it'[i]) <= b[v]
    <3>1. CASE i # w
      BY <1>9, <2>3, <3>1
    <3>2. CASE i = w
      <4>1. K <= b[v]
        BY <1>5, <2>3
      <4> QED
        BY <1>7, <1>11, <3>2, <4>1
    <3> QED
      BY <3>1, <3>2
  <2> QED
    BY <2>2, <2>3
<1>12. CountFits'
  <2>1. ahead' = {b \in Answers : \/ Past(b, bound, L - 1, variables, lower)
                                  \/ Same(b, bound, lower[L - 1]) /\ \A i \in activeAt[L] : Deepest(it'[i]) <= b[v]}
    BY <1>1, <1>2, <1>10 DEF ahead, PlanSame, v
  <2>2. ahead = {b \in Answers : \/ Past(b, bound, L - 1, variables, lower)
                                 \/ Same(b, bound, lower[L - 1]) /\ \A i \in activeAt[L] : Deepest(it[i]) <= b[v]}
    BY <1>2, <1>10 DEF ahead, v
  <2>3. ahead' = ahead
    BY <1>11, <2>1, <2>2
  <2> QED
    BY <1>1, <1>2, <2>3, CountKept DEF PlanSame
<1>13. SearchFits'
  <2> DEFINE u == (turn + 1) % N
             old(j) == active[1 + Round(turn, j, N)]
             new(j) == active[1 + Round(u, j, N)]
  <2>1. /\ u \in 0..(N - 1)
        /\ Round(u, N - 1, N) = turn
        /\ \A j \in 0..(N - 1) : j # N - 1 => /\ Round(u, j, N) = Round(turn, j + 1, N)
                                             /\ j + 1 \in 0..(N - 1)
                                             /\ Round(turn, j + 1, N) # turn
    <3>1. N \in Nat \ {0} /\ turn \in 0..(N - 1)
      BY <1>4
    <3> HIDE DEF old, new
    <3> QED
      BY <3>1, RoundSteps
  <2>2. \A j \in 0..(N - 1) : Round(turn, j, N) \in 0..(N - 1)
    <3>1. N \in Nat \ {0} /\ turn \in 0..(N - 1)
      BY <1>4
    <3> QED
      BY <3>1, RoundIs
  <2>3. \A k \in 0..(N - 1) : 1 + k \in 1..N /\ (1 + k = 1 + turn <=> k = turn)
    BY <1>4
  <2>4. /\ active # <<>>
        /\ \A j, k \in 0..(N - 1) : j <= k => Deepest(it[old(j)]) <= Deepest(it[old(k)])
    BY <1>2 DEF SearchInv, SearchFits, Round, active, N
  <2>5. DOMAIN active = 1..N /\ Distinct(active) /\ \A k \in 1..N : active[k] \in activeAt[L]
    <3>1. Planned /\ Plan /\ SearchInv /\ pc \in {"search", "leap", "return"} /\ stack # <<>>
      BY <1>2, <1>4
    <3>2. L = Len(stack) /\ active = stack[L].active /\ N = Len(active)
      BY DEF active, N, L
    <3> HIDE DEF old, new, L
    <3> QED
      BY <3>1, <3>2, KeysOfActive
  <2>6. turn + 1 = 1 + turn /\ N - 1 \in 0..(N - 1)
    BY <1>4
  <2> HIDE DEF u
  <2>7. new(N - 1) = w
    BY <1>3, <2>1, <2>6
  <2>8. ASSUME NEW j \in 0..(N - 1), j # N - 1
        PROVE  new(j) = old(j + 1) /\ new(j) # w /\ new(j) \in activeAt[L] /\ j + 1 \in 0..(N - 1)
    <3>1. Round(u, j, N) = Round(turn, j + 1, N) /\ j + 1 \in 0..(N - 1) /\ Round(turn, j + 1, N) # turn
      BY <2>1, <2>8
    <3>2. /\ 1 + Round(turn, j + 1, N) \in 1..N /\ 1 + Round(turn, j + 1, N) # 1 + turn
          /\ 1 + turn \in 1..N
      BY <1>4, <2>2, <2>3, <3>1
    <3> QED
      BY <1>3, <2>5, <2>6, <3>1, <3>2 DEF Distinct
  <2> HIDE DEF new, old
  <2>9. ASSUME NEW j \in 0..(N - 1), NEW k \in 0..(N - 1), j <= k
        PROVE  Deepest(it'[new(j)]) <= Deepest(it'[new(k)])
    <3>1. CASE k = N - 1 /\ j = N - 1
      BY <1>7, <2>7, <3>1
    <3>2. CASE k = N - 1 /\ j # N - 1
      <4>1. it'[new(j)] = it[new(j)] /\ Deepest(it[new(j)]) <= K /\ Deepest(it[new(j)]) \in Nat
        BY <1>4, <1>9, <2>8, <3>2
      <4> QED
        BY <1>4, <1>7, <2>7, <3>2, <4>1
    <3>3. CASE k # N - 1
      <4>1. j # N - 1 /\ j + 1 <= k + 1
        BY <1>4, <2>9, <3>3
      <4>2. it'[new(j)] = it[old(j + 1)] /\ it'[new(k)] = it[old(k + 1)]
        BY <1>9, <2>8, <3>3, <4>1
      <4> QED
        BY <2>4, <2>8, <3>3, <4>1, <4>2
    <3> QED
      BY <3>1, <3>2, <3>3
  <2>10. \A i \in activeAt[L] : it'[i].pos # EOF
    BY <1>4, <1>7, <1>9
  <2>11. turn' = u /\ activeAt' = activeAt
    BY <1>1, <1>2 DEF PlanSame, u
  <2> QED
    BY <1>2, <2>1, <2>4, <2>9, <2>10, <2>11 DEF SearchFits, Round, active, N, new
<1> QED
  BY <1>7, <1>12, <1>13 DEF SearchInv


\* The iterator has no value as great: the search ends.
LEMMA LeapFailsStep ==
    ASSUME Planned, Plan, CountFits, SearchInv, LeapFails
    PROVE  CountFits' /\ ((stack' = <<>> /\ pc' = "return") \/ SearchInv')
<1> DEFINE L == Len(stack)
           v == variables[L]
           K == max_key
           w == Turn
           d == depthAt[w][L]
           a == iterator_seek(w, K)
<1>1. pc = "leap" /\ Key(w) # K /\ ~ a.ok /\ Finish([it EXCEPT ![w] = a.it])
  BY DEF LeapFails
<1>2. w = stack[L].active[turn + 1] /\ pc \in {"search", "leap", "return"}
  BY <1>1 DEF Turn, Top
<1> HIDE DEF w, K
<1>3. stack # <<>> /\ L \in 1..Len(variables) /\ w \in activeAt[L] /\ K \in Nat
  BY <1>1, <1>2, LeapFacts DEF K
<1>4. PICK x \in activeAt[L] : x # w /\ K = Deepest(it[x])
  BY <1>1, <1>2, LeapFacts DEF K
<1>5. Reaches(it[w], rows[w], d, K, a)
  BY <1>1, <1>3, LeapReaches
<1> HIDE DEF a
<1>6. matched = L - 1
  BY <1>1 DEF matched
<1>7. ASSUME NEW b \in ahead PROVE Past(b, bound, L - 1, variables, lower)
  <2>1. b \in Answers
    BY DEF ahead
  <2>2. CASE Same(b, bound, lower[L - 1]) /\ \A i \in activeAt[L] : Deepest(it[i]) <= b[v]
    <3>1. /\ AnswerRow(w, b) \in rows[w]
          /\ Agrees(AnswerRow(w, b), it[w].val, d - 1)
          /\ AnswerRow(w, b)[d] = b[v]
      <4>1. Settled
        BY <1>2 DEF Settled
      <4>2. AnswerRow(w, b) \in rows[w]
        BY <1>3, <2>1, <2>2, <4>1, ActiveIterator
      <4>3. Agrees(AnswerRow(w, b), it[w].val, d - 1)
        BY <1>3, <2>1, <2>2, <4>1, ActiveIterator
      <4>4. AnswerRow(w, b)[d] = b[v]
        BY <1>3, <2>1, <2>2, <4>1, ActiveIterator
      <4> QED
        BY <4>2, <4>3, <4>4
    <3>2. K <= b[v]
      BY <1>4, <2>2
    <3>3. b[v] \in Nat
      BY <1>3, <2>1, AnswerTypes
    <3>4. AnswerRow(w, b)[d] < K
      BY <1>1, <1>5, <3>1 DEF Reaches
    <3> HIDE DEF v, d
    <3> QED
      BY <1>3, <3>1, <3>2, <3>3, <3>4
  <2> QED
    BY <1>1, <1>6, <2>2 DEF ahead
<1>8. Restored([it EXCEPT ![w] = a.it], L)
  BY <1>1, <1>2, <1>3, <1>5, RestoredMoved
<1> HIDE DEF L
<1> QED
  BY <1>1, <1>2, <1>3, <1>7, <1>8, FinishStep DEF L

\* When the frame below has returned, the iterators hold the value that has
\* been searched.
LEMMA ReturnFacts ==
    ASSUME Planned, Plan, SearchInv, pc = "return", stack # <<>>, NEW L, L = Len(stack),
           stack[L].active # <<>>, NEW w, w = stack[L].active[1]
    PROVE  /\ L \in 1..Len(variables) /\ w \in activeAt[L] /\ variables[L] \in unknowns
           /\ bound[variables[L]] \in Nat
           /\ \A i \in activeAt[L] : Deepest(it[i]) = bound[variables[L]]
           /\ \A b \in Answers : b \in ahead =>
                  \/ Past(b, bound, L - 1, variables, lower)
                  \/ Same(b, bound, lower[L - 1]) /\ bound[variables[L]] + 1 <= b[variables[L]]
           /\ \A b \in Answers : /\ Past(b, bound, L - 1, variables, lower) => b \in ahead
                                 /\ Same(b, bound, lower[L - 1]) /\ bound[variables[L]] < b[variables[L]] => b \in ahead
<1> DEFINE v == variables[L]
<1>1. FramesFit /\ IteratorsFit /\ BoundFits /\ pc \in {"search", "leap", "return"}
  BY DEF SearchInv
<1>2. L \in 1..Len(variables)
  BY <1>1, KeysOfActive
<1>3. \A k \in 1..Len(stack[L].active) : stack[L].active[k] \in activeAt[L]
  BY <1>1, KeysOfActive
<1>4. Len(stack[L].active) \in Nat /\ (stack[L].active = <<>> <=> Len(stack[L].active) = 0)
  BY <1>1, KeysOfActive
<1>5. w \in activeAt[L]
  BY <1>3, <1>4
<1>6. v \in unknowns
  BY <1>2, <1>5, ActiveFacts
<1>7. v \in lower[L] /\ matched = L
  BY <1>2, <1>6, LowerFacts DEF matched
<1>8. bound[v] \in Nat
  BY <1>1, <1>6, BoundTypes DEF unknowns
<1>9. ASSUME NEW i \in activeAt[L] PROVE Deepest(it[i]) = bound[v]
  <2>1. /\ i \in Patterns /\ depthAt[i][L] \in Columns /\ it[i].depth = depthAt[i][L]
        /\ Deepest(it[i]) = it[i].val[depthAt[i][L]]
        /\ term[i][depthAt[i][L]] = v
    BY <1>1, ActiveIterator DEF Settled
  <2>2. depthAt[i][L] <= it[i].depth
    BY <2>1 DEF Columns
  <2> QED
    BY <1>1, <1>7, <2>1, <2>2 DEF IteratorsFit
<1>10. ASSUME NEW b \in Answers
       PROVE  b \in ahead <=> \/ Past(b, bound, L - 1, variables, lower)
                              \/ Same(b, bound, lower[L - 1]) /\ bound[v] < b[v]
  <2>1. b \in ahead <=> Past(b, bound, L, variables, lower)
    BY <1>7 DEF ahead
  <2> QED
    BY <1>2, <1>6, <2>1, PastSteps
<1>11. \A b \in Answers : b[v] \in Nat
  BY <1>2, AnswerTypes
<1> HIDE DEF v
<1>12. \A b \in Answers : bound[v] < b[v] <=> bound[v] + 1 <= b[v]
  BY <1>8, <1>11
<1>13. \A b \in Answers : b \in ahead =>
                  \/ Past(b, bound, L - 1, variables, lower)
                  \/ Same(b, bound, lower[L - 1]) /\ bound[v] + 1 <= b[v]
  BY <1>10, <1>12
<1>14. \A b \in Answers : /\ Past(b, bound, L - 1, variables, lower) => b \in ahead
                          /\ Same(b, bound, lower[L - 1]) /\ bound[v] < b[v] => b \in ahead
  BY <1>10
<1> QED
  BY <1>2, <1>5, <1>6, <1>8, <1>9, <1>13, <1>14 DEF v

\* The first iterator goes on to its next value.
LEMMA AdvanceStep ==
    ASSUME Planned, Plan, CountFits, SearchInv, Advance
    PROVE  CountFits' /\ SearchInv'
<1> DEFINE L == Len(stack)
           v == variables[L]
           w == stack[L].active[1]
           a == iterator_next(w)
           k == bound[v]
<1>1. PlanSame
  BY PlanKept DEF Advance
<1>2. /\ pc = "return" /\ stack # <<>> /\ stack[L].active # <<>> /\ pc' = "search" /\ a.ok
      /\ it' = [it EXCEPT ![w] = a.it]
      /\ bound' = bound /\ stack' = stack /\ at' = at /\ turn' = turn
      /\ solutions' = solutions /\ starved' = starved
  BY DEF Advance, Top
<1> HIDE DEF w
<1>3. /\ L \in 1..Len(variables) /\ w \in activeAt[L] /\ v \in unknowns /\ k \in Nat
      /\ \A i \in activeAt[L] : Deepest(it[i]) = k
  BY <1>2, ReturnFacts DEF w
<1>4. \A b \in Answers : b \in ahead =>
          \/ Past(b, bound, L - 1, variables, lower)
          \/ Same(b, bound, lower[L - 1]) /\ k + 1 <= b[v]
  BY <1>2, ReturnFacts DEF w
<1>5. \A b \in Answers : /\ Past(b, bound, L - 1, variables, lower) => b \in ahead
                         /\ Same(b, bound, lower[L - 1]) /\ k < b[v] => b \in ahead
  BY <1>2, ReturnFacts DEF w
<1>6. Reaches(it[w], rows[w], depthAt[w][L], k + 1, a)
  <2>1. Reaches(it[w], rows[w], depthAt[w][L], Deepest(it[w]) + 1, a)
    BY <1>2, <1>3, AdvanceReaches
  <2> QED
    BY <1>3, <2>1
<1> HIDE DEF a, k
<1>7. /\ FramesFit' /\ IteratorsFit' /\ BoundFits' /\ OpenFits'
      /\ \A i \in Patterns : it'[i] = IF i = w THEN a.it ELSE it[i]
      /\ k + 1 <= Deepest(it'[w]) /\ Deepest(it'[w]) \in Nat /\ it'[w].pos # EOF
      /\ \A b \in Answers : Same(b, bound, lower[L - 1]) /\ k + 1 <= b[v] => Deepest(it'[w]) <= b[v]
  BY <1>1, <1>2, <1>3, <1>6, MovedFacts
<1>8. activeAt[L] \subseteq Patterns
  BY <1>3, ActiveFacts
<1>9. \A i \in activeAt[L] : i # w => it'[i] = it[i]
  BY <1>7, <1>8
<1>10. matched' = L - 1 /\ activeAt' = activeAt
  BY <1>1, <1>2 DEF matched, PlanSame
<1> HIDE DEF v
<1>11. ASSUME NEW b \in Answers, Same(b, bound, lower[L - 1])
       PROVE  (\A i \in activeAt[L] : Deepest(it'[i]) <= b[v]) <=> k + 1 <= b[v]
  <2>1. b[v] \in Nat
    BY <1>3, AnswerTypes DEF v
  <2>2. ASSUME \A i \in activeAt[L] : Deepest(it'[i]) <= b[v] PROVE k + 1 <= b[v]
    <3>1. Deepest(it'[w]) <= b[v]
      BY <1>3, <2>2
    <3> QED
      BY <1>3, <1>7, <2>1, <3>1
  <2>3. ASSUME k + 1 <= b[v], NEW i \in activeAt[L] PROVE Deepest(it'[i]) <= b[v]
    <3>1. CASE i = w
      BY <1>7, <1>11, <2>3, <3>1
    <3>2. CASE i # w
      <4>1. Deepest(it'[i]) = k
        BY <1>3, <1>9, <3>2
      <4> QED
        BY <1>3, <2>1, <2>3, <4>1
    <3> QED
      BY <3>1, <3>2
  <2> QED
    BY <2>2, <2>3
<1>12. CountFits'
  <2>1. ahead' = {b \in Answers : \/ Past(b, bound, L - 1, variables, lower)
                                  \/ Same(b, bound, lower[L - 1]) /\ \A i \in activeAt[L] : Deepest(it'[i]) <= b[v]}
    BY <1>1, <1>2, <1>10 DEF ahead, PlanSame, v
  <2>2. \A b \in Answers : k + 1 <= b[v] => k < b[v]
    <3>1. \A b \in Answers : b[v] \in Nat
      BY <1>3, AnswerTypes DEF v
    <3> QED
      BY <1>3, <3>1
  <2>3. ahead \subseteq Answers
    BY DEF ahead
  <2>4. ahead' = ahead
    BY <1>4, <1>5, <1>11, <2>1, <2>2, <2>3
  <2> QED
    BY <1>1, <1>2, <2>4, CountKept DEF PlanSame
<1>13. SearchFits'
  <2>1. ASSUME NEW i \in activeAt[L], it'[i].pos = EOF PROVE Deepest(it'[i]) < Deepest(it'[w])
    <3>1. i # w
      BY <1>7, <2>1
    <3>2. Deepest(it'[i]) = k
      BY <1>3, <1>9, <3>1
    <3> QED
      BY <1>3, <1>7, <3>2
  <2> QED
    BY <1>2, <1>3, <1>10, <2>1 DEF SearchFits
<1> QED
  BY <1>7, <1>12, <1>13 DEF SearchInv

\* It has none left: the search of the frame ends.
LEMMA ExhaustedStep ==
    ASSUME Planned, Plan, CountFits, SearchInv, Exhausted
    PROVE  CountFits' /\ ((stack' = <<>> /\ pc' = "return") \/ SearchInv')
<1> DEFINE L == Len(stack)
           v == variables[L]
           w == stack[L].active[1]
           d == depthAt[w][L]
           a == iterator_next(w)
           k == bound[v]
<1>1. /\ pc = "return" /\ stack # <<>> /\ stack[L].active # <<>> /\ ~ a.ok
      /\ Finish([it EXCEPT ![w] = a.it])
  BY DEF Exhausted, Top
<1>2. pc \in {"search", "leap", "return"}
  BY <1>1
<1> HIDE DEF w
<1>3. /\ L \in 1..Len(variables) /\ w \in activeAt[L] /\ v \in unknowns /\ k \in Nat
      /\ \A i \in activeAt[L] : Deepest(it[i]) = k
  BY <1>1, ReturnFacts DEF w
<1>4. \A b \in Answers : b \in ahead =>
          \/ Past(b, bound, L - 1, variables, lower)
          \/ Same(b, bound, lower[L - 1]) /\ k + 1 <= b[v]
  BY <1>1, ReturnFacts DEF w
<1>5. Reaches(it[w], rows[w], d, k + 1, a)
  <2>1. Reaches(it[w], rows[w], d, Deepest(it[w]) + 1, a)
    BY <1>1, <1>3, AdvanceReaches
  <2> QED
    BY <1>3, <2>1
<1> HIDE DEF a, k
<1>6. ASSUME NEW b \in ahead PROVE Past(b, bound, L - 1, variables, lower)
  <2>1. b \in Answers
    BY DEF ahead
  <2>2. CASE Same(b, bound, lower[L - 1]) /\ k + 1 <= b[v]
    <3>1. /\ AnswerRow(w, b) \in rows[w]
          /\ Agrees(AnswerRow(w, b), it[w].val, d - 1)
          /\ AnswerRow(w, b)[d] = b[v]
      BY <1>1, <1>3, <2>1, <2>2, ActiveIterator DEF Settled
    <3>2. b[v] \in Nat
      BY <1>3, <2>1, AnswerTypes
    <3>3. AnswerRow(w, b)[d] < k + 1
      BY <1>1, <1>5, <3>1 DEF Reaches
    <3> HIDE DEF v, d
    <3> QED
      BY <1>3, <2>2, <3>1, <3>2, <3>3
  <2> QED
    BY <1>4, <2>1, <2>2
<1>7. Restored([it EXCEPT ![w] = a.it], L)
  BY <1>1, <1>2, <1>3, <1>5, RestoredMoved
<1> HIDE DEF L
<1> QED
  BY <1>1, <1>2, <1>6, <1>7, FinishStep DEF L


-----------------------------------------------------------------------------
(* The theorems *)

Started ==
    /\ Planned /\ Fits
    /\ it = [i \in Patterns |-> [depth |-> 0, val |-> [c \in Columns |-> NULL], pos |-> EOF]]
    /\ bound = query.given
    /\ stack = <<>>
    /\ solutions = 0
    /\ starved = FALSE
    /\ pc = "enter"

\* Before the first frame every answer is ahead.
LEMMA StartedFits ==
    ASSUME Started
    PROVE  CountFits /\ SearchInv
<1>1. Planned /\ Plan
  BY PlanHolds DEF Started
<1>2. /\ it = [i \in Patterns |-> [depth |-> 0, val |-> [c \in Columns |-> NULL], pos |-> EOF]]
      /\ bound = query.given
      /\ stack = <<>>
      /\ solutions = 0 /\ starved = FALSE /\ pc = "enter"
  BY DEF Started
<1>3. full = 0 /\ matched = 0 /\ Len(stack) = 0
  BY <1>2 DEF full, matched
<1>4. 0 \in 0..Len(variables) /\ lower[0] = {}
  BY <1>1, LowerStart
<1>5. CountFits
  <2>1. \A a \in Answers : Same(a, bound, lower[matched])
    BY <1>3, <1>4 DEF Same
  <2>2. ahead = Answers
    BY <1>2, <2>1 DEF ahead
  <2>3. Answers \ ahead = {} /\ Cardinality({}) = 0
    BY <2>2, FS_EmptySet
  <2> QED
    BY <1>2, <2>3 DEF CountFits
<1>6. FramesFit
  <2>1. Len(variables) \in Nat
    BY <1>1 DEF Plan
  <2>2. stack \in Seq(Frames) /\ Len(stack) <= Len(variables)
    BY <1>2, <1>3, <2>1
  <2> QED
    BY <1>2, <1>3, <2>2 DEF FramesFit
<1>7. IteratorsFit
  <2> DEFINE x == [depth |-> 0, val |-> [c \in Columns |-> NULL], pos |-> EOF]
  <2>1. x.depth = 0 /\ x.pos = EOF /\ \A i \in Patterns : it[i] = x
    BY <1>2
  <2>2. x \in Iterators
    <3>1. [c \in Columns |-> NULL] \in Keys
      BY DEF Keys, NULL
    <3> QED
      BY <3>1 DEF Iterators
  <2> HIDE DEF x
  <2>3. \A i \in Patterns : Good(it[i], rows[i])
    <3>1. \A r : ~ Beyond(r, x.val, 0)
      BY BeyondMeans
    <3> QED
      BY <2>1, <3>1 DEF Good
  <2>4. it \in [Patterns -> Iterators]
    BY <1>2, <2>2 DEF x
  <2>5. \A i \in Patterns : depthAt[i][0] = 0
    BY <1>1, <1>4, DepthFacts
  <2>6. \A c \in Columns : ~ (c <= 0)
    BY DEF Columns
  <2> QED
    BY <1>2, <1>3, <2>1, <2>3, <2>4, <2>5, <2>6 DEF IteratorsFit
<1>8. BoundFits
  <2>1. query.given \in [Vars -> Symbols \union {NULL}]
    BY <1>1, LftjAssumption DEF LftjAssumption, Planned
  <2>2. \A v \in Vars : query.given[v] \in symbols \union {NULL}
    BY <1>1 DEF Plan
  <2>3. bound \in [Vars -> symbols \union {NULL}]
    BY <1>2, <2>1, <2>2
  <2> QED
    BY <1>2, <1>3, <2>3 DEF BoundFits, unknowns
<1>9. OpenFits /\ SearchFits
  BY <1>2 DEF OpenFits, SearchFits
<1> QED
  BY <1>5, <1>6, <1>7, <1>8, <1>9 DEF SearchInv

LEMMA StartedNext ==
    (Started => CountFits /\ SearchInv)'
<1>1. Started => CountFits /\ SearchInv
  BY StartedFits
<1> QED
  BY <1>1, PTL

LEMMA StartStep ==
    ASSUME LftjInv, Start
    PROVE  LftjInv'
<1>1. /\ pc = "start" /\ pc' = "enter" /\ Constants \subseteq symbols
      /\ variables' = CollectVars
      /\ cols' = [i \in Patterns |-> trie_candidate_cols[BestCandidate(query.goals[i], CollectVars)]]
      /\ query' = query /\ symbols' = symbols /\ it' = it /\ bound' = bound /\ stack' = stack
      /\ solutions' = solutions /\ starved' = starved
  BY DEF Start
<1>2. /\ query \in Calls /\ symbols \subseteq Symbols
      /\ \A f \in query.facts, c \in Columns : f[c] \in symbols
      /\ it = [i \in Patterns |-> [depth |-> 0, val |-> [c \in Columns |-> NULL], pos |-> EOF]]
      /\ bound = query.given /\ stack = <<>> /\ solutions = 0 /\ starved = FALSE
  BY <1>1 DEF LftjInv
<1>3. Patterns' = Patterns /\ Constants' = Constants /\ CollectVars' = CollectVars
  <2>1. query' = query
    BY <1>1
  <2>2. Patterns' = Patterns
    BY <2>1 DEF Patterns
  <2>3. Constants' = Constants
    BY <2>1, <2>2 DEF Constants
  <2>4. CollectVars' = CollectVars
    BY <2>1 DEF CollectVars
  <2> QED
    BY <2>2, <2>3, <2>4
<1>4. Planned'
  BY <1>1, <1>2, <1>3 DEF Planned
<1>5. Fits' => Started'
  BY <1>1, <1>2, <1>3, <1>4 DEF Started
<1>6. Fits' => CountFits' /\ SearchInv'
  BY <1>5, StartedNext
<1>7. Exact'
  BY <1>1 DEF Exact
<1> QED
  BY <1>1, <1>2, <1>4, <1>6, <1>7 DEF LftjInv

\* A constant that no fact holds has no answers.
LEMMA NotInternedStep ==
    ASSUME LftjInv, NotInterned
    PROVE  LftjInv'
<1>1. PlanSame /\ Fits' = Fits
  BY PlanKept DEF NotInterned
<1>2. /\ pc = "start" /\ pc' = "done" /\ ~ (Constants \subseteq symbols)
      /\ solutions' = solutions /\ starved' = starved
  BY DEF NotInterned
<1>3. solutions = 0 /\ starved = FALSE /\ \A f \in query.facts, c \in Columns : f[c] \in symbols
  BY <1>2 DEF LftjInv
<1>4. PICK i \in Patterns, c \in Columns : query.goals[i][c] \notin Vars /\ query.goals[i][c] \notin symbols
  BY <1>2 DEF Constants
<1>5. ASSUME NEW a \in Answers PROVE FALSE
  <2>1. Instance(query.goals[i], a) \in query.facts
    BY DEF Answers
  <2>2. Instance(query.goals[i], a)[c] = query.goals[i][c]
    BY <1>4 DEF Instance
  <2> QED
    BY <1>3, <1>4, <2>1, <2>2
<1>6. Cardinality(Answers) = 0
  BY <1>5, FS_EmptySet
<1>7. Exact'
  BY <1>1, <1>2, <1>3, <1>6 DEF Exact, PlanSame
<1> QED
  BY <1>1, <1>2, <1>7 DEF LftjInv, PlanSame

\* At the end nothing is ahead.
LEMMA DoneStep ==
    ASSUME LftjInv, Done
    PROVE  LftjInv'
<1>1. PlanSame /\ Fits' = Fits
  BY PlanKept DEF Done
<1>2. /\ pc = "return" /\ pc' = "done" /\ stack = <<>>
      /\ solutions' = solutions /\ starved' = starved
  BY DEF Done
<1>3. ASSUME Fits PROVE IF starved THEN solutions <= Cardinality(Answers) ELSE solutions = Cardinality(Answers)
  <2>1. Planned /\ CountFits
    BY <1>2, <1>3 DEF LftjInv
  <2>2. Plan
    BY <1>3, <2>1, PlanHolds
  <2>3. matched = 0
    BY <1>2 DEF matched
  <2>4. ahead = {}
    BY <1>2, <2>2, <2>3, PastSteps DEF ahead
  <2>5. Answers \ ahead = Answers
    BY <2>4
  <2> QED
    BY <2>1, <2>5 DEF CountFits
<1>4. Exact'
  BY <1>1, <1>2, <1>3 DEF Exact, PlanSame
<1> QED
  BY <1>1, <1>2, <1>4 DEF LftjInv, PlanSame

LEMMA OutOfMemoryStep ==
    ASSUME LftjInv, OutOfMemory
    PROVE  LftjInv'
<1>1. /\ query' = query /\ symbols' = symbols /\ pc' = "done" /\ solutions' = Failed
  BY DEF OutOfMemory
<1>2. Exact'
  BY <1>1 DEF Exact
<1> QED
  BY <1>1, <1>2 DEF LftjInv

\* The steps of the search.
LEMMA KeepsInv ==
    ASSUME LftjInv, pc \notin {"start", "done"}, ~ (stack = <<>> /\ pc = "return"),
           UNCHANGED <<query, symbols, variables, cols>>, pc' \notin {"start", "done"},
           Planned /\ Plan /\ CountFits /\ SearchInv =>
               CountFits' /\ ((stack' = <<>> /\ pc' = "return") \/ SearchInv')
    PROVE  LftjInv'
<1>1. PlanSame /\ Planned' = Planned /\ Fits' = Fits
  BY PlanKept
<1>2. Planned
  BY DEF LftjInv
<1>3. Fits => Plan /\ CountFits /\ SearchInv
  BY <1>2, PlanHolds DEF LftjInv
<1>4. Exact'
  BY DEF Exact
<1> QED
  BY <1>1, <1>2, <1>3, <1>4 DEF LftjInv, PlanSame

LEMMA StutterStep ==
    ASSUME LftjInv, UNCHANGED vars
    PROVE  LftjInv'
<1>1. PlanSame /\ Planned' = Planned /\ Fits' = Fits
  BY PlanKept DEF vars
<1>2. /\ it' = it /\ bound' = bound /\ stack' = stack /\ pc' = pc /\ at' = at /\ turn' = turn
      /\ solutions' = solutions /\ starved' = starved
  BY DEF vars
<1>3. full' = full /\ matched' = matched
  BY <1>2 DEF full, matched
<1>4. ahead' = ahead
  BY <1>1, <1>2, <1>3 DEF ahead, PlanSame
<1>5. CountFits' = CountFits
  BY <1>1, <1>2, <1>4 DEF CountFits, PlanSame
<1>6. FramesFit => FramesFit'
  BY <1>1, <1>2, <1>3 DEF FramesFit, Frames, PlanSame
<1>7. IteratorsFit => IteratorsFit'
  BY <1>1, <1>2, <1>3 DEF IteratorsFit, PlanSame
<1>8. BoundFits => BoundFits'
  BY <1>1, <1>2, <1>3 DEF BoundFits, PlanSame
<1>9. OpenFits => OpenFits'
  BY <1>1, <1>2 DEF OpenFits, PlanSame
<1>10. SearchFits => SearchFits'
  BY <1>1, <1>2 DEF SearchFits, PlanSame
<1>11. SearchInv => SearchInv'
  BY <1>6, <1>7, <1>8, <1>9, <1>10 DEF SearchInv
<1>12. Exact => Exact'
  BY <1>1, <1>2 DEF Exact, PlanSame
<1> QED
  BY <1>1, <1>2, <1>5, <1>11, <1>12 DEF LftjInv, PlanSame


LEMMA InitHolds == Init => LftjInv
<1> SUFFICES ASSUME Init
             PROVE  LftjInv
  OBVIOUS
<1>1. /\ query \in Calls /\ pc = "start" /\ symbols \subseteq Symbols
      /\ \A f \in query.facts, c \in Columns : f[c] \in symbols
      /\ it = [i \in Patterns |-> [depth |-> 0, val |-> [c \in Columns |-> NULL], pos |-> EOF]]
      /\ bound = query.given /\ stack = <<>> /\ solutions = 0 /\ starved = FALSE
  BY DEF Init
<1>2. Exact
  BY <1>1 DEF Exact
<1> QED
  BY <1>1, <1>2 DEF LftjInv

\* The steps of the search are steps of a frame.
LEMMA FrameSteps ==
    ASSUME LftjInv, \/ Solution \/ Enter \/ Starve \/ OpenKnown \/ SeekKnown \/ OpenFails \/ SeekFails
                    \/ OpenActive \/ OpenNoMore \/ Opened \/ Search \/ SearchEnds \/ Match \/ Leap
                    \/ LeapFails \/ Advance \/ Exhausted \/ NothingActive
    PROVE  LftjInv'
<1>1. CASE Solution
  BY <1>1, SolutionStep, KeepsInv DEF Solution
<1>2. CASE Enter
  BY <1>2, EnterStep, KeepsInv DEF Enter
<1>3. CASE Starve
  BY <1>3, StarveStep, KeepsInv DEF Starve
<1>4. CASE OpenKnown
  BY <1>4, OpenKnownStep, KeepsInv DEF OpenKnown
<1>5. CASE SeekKnown
  BY <1>5, SeekKnownStep, KeepsInv DEF SeekKnown
<1>6. CASE OpenFails
  BY <1>6, OpenFailsStep, KeepsInv DEF OpenFails, Backtrack
<1>7. CASE SeekFails
  BY <1>7, SeekFailsStep, KeepsInv DEF SeekFails, Backtrack
<1>8. CASE OpenActive
  BY <1>8, OpenActiveStep, KeepsInv DEF OpenActive
<1>9. CASE OpenNoMore
  BY <1>9, OpenNoMoreStep, KeepsInv DEF OpenNoMore
<1>10. CASE Opened
  BY <1>10, OpenedStep, KeepsInv DEF Opened
<1>11. CASE Search
  BY <1>11, SearchStep, KeepsInv DEF Search
<1>12. CASE SearchEnds
  BY <1>12, SearchEndsStep, KeepsInv DEF SearchEnds, Finish
<1>13. CASE Match
  BY <1>13, MatchStep, KeepsInv DEF Match
<1>14. CASE Leap
  BY <1>14, LeapStep, KeepsInv DEF Leap
<1>15. CASE LeapFails
  BY <1>15, LeapFailsStep, KeepsInv DEF LeapFails, Finish
<1>16. CASE Advance
  BY <1>16, AdvanceStep, KeepsInv DEF Advance
<1>17. CASE Exhausted
  BY <1>17, ExhaustedStep, KeepsInv DEF Exhausted, Finish
<1>18. CASE NothingActive
  BY <1>18, NothingActiveStep, KeepsInv DEF NothingActive, Finish
<1> QED
  BY <1>1, <1>2, <1>3, <1>4, <1>5, <1>6, <1>7, <1>8, <1>9, <1>10, <1>11, <1>12, <1>13, <1>14, <1>15,
     <1>16, <1>17, <1>18

\* The invariant of the search: what has been counted is what is not ahead.
THEOREM LftjInvHolds == Spec => []LftjInv
<1>1. LftjInv /\ [Next]_vars => LftjInv'
  <2> SUFFICES ASSUME LftjInv, [Next]_vars
               PROVE  LftjInv'
    OBVIOUS
  <2>1. CASE Start
    BY <2>1, StartStep
  <2>2. CASE NotInterned
    BY <2>2, NotInternedStep
  <2>3. CASE OutOfMemory
    BY <2>3, OutOfMemoryStep
  <2>4. CASE Done
    BY <2>4, DoneStep
  <2>5. CASE UNCHANGED vars
    BY <2>5, StutterStep
  <2> QED
    BY <2>1, <2>2, <2>3, <2>4, <2>5, FrameSteps DEF Next
<1> QED
  BY InitHolds, <1>1, PTL DEF Spec

\* Leapfrog triejoin counts every answer of a query that fits its tries once:
\* seeks that jump over rows, positions that deeper variables leave behind, and
\* iterators closed on the way back lose no answer and repeat none.  So it does for
\* ?a friend ?b, as long as no subject lacks the predicate.
THEOREM LftjExactHolds == Spec => []Exact
<1>1. LftjInv => Exact
  BY DEF LftjInv
<1> QED
  BY LftjInvHolds, <1>1, PTL
=============================================================================
