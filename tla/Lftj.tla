-------------------------------- MODULE Lftj --------------------------------
(***************************************************************************)
(* facts_lftj_solve of lib/lftj.c: the solutions of a conjunction of       *)
(* triple patterns by leapfrog triejoin over the three tries of the        *)
(* hexastore.                                                              *)
(*                                                                         *)
(* Symbols are their ids.  A trie is the set of the facts' rows in its     *)
(* column order, and a radix tree iterator a row of it: what matters of    *)
(* raxSeek and raxNext is the order of the rows.  The recursion of         *)
(* lftj_solve_rec is a stack with one frame for each variable; a step is   *)
(* one column opened, one seek of the leapfrog search, or one return.      *)
(***************************************************************************)
EXTENDS Integers, Sequences, FiniteSets, SequencesExt

CONSTANTS
    Symbols,    \* the ids
    Vars,       \* names of variables
    Calls       \* [facts, goals, given]: the database, the patterns, and the
                \* values that bindings hold already

NULL == 0

Failed == -1

Columns == 1..3

Triples(S) == [Columns -> S]

ASSUME LftjAssumption ==
    /\ Symbols \subseteq Nat \ {NULL}
    /\ Symbols \intersect Vars = {}
    /\ \A q \in Calls : /\ IsFiniteSet(q.facts)
                        /\ q.facts \subseteq Triples(Symbols)
                        /\ q.goals \in Seq(Triples(Symbols \union Vars)) \ {<<>>}
                        /\ q.given \in [Vars -> Symbols \union {NULL}]

VARIABLES
    query,      \* the call
    symbols,    \* the symbol table, which other stores may share
    variables,  \* the query's variables in the order of the search
    cols,       \* the columns of each pattern's trie
    it,         \* an iterator for each pattern: depth, values, and the row it is at
    bound,      \* the slots of the bindings
    stack,      \* frames of lftj_solve_rec: levels opened, and active iterators
    pc,         \* where the top frame is
    at,         \* the pattern whose columns are being opened
    turn,       \* the iterator whose turn it is in leapfrog_search
    solutions,  \* the result
    starved     \* a frame found no memory

vars == <<query, symbols, variables, cols, it, bound, stack, pc, at, turn, solutions, starved>>

Patterns == DOMAIN query.goals

\* trie_spo, trie_pos and trie_osp.
trie_candidate_cols == << <<1, 2, 3>>, <<2, 3, 1>>, <<3, 1, 2>> >>

\* Past the last row.
EOF == <<>>

TypeOK ==
    /\ query \in Calls
    /\ symbols \subseteq Symbols
    /\ ToSet(variables) \subseteq Vars
    /\ ToSet(cols) \subseteq ToSet(trie_candidate_cols)
    /\ it \in [Patterns -> [depth : 0..3, val : Triples(Symbols \union {NULL}),
                            pos : Triples(Symbols) \union {EOF}]]
    /\ bound \in [Vars -> Symbols \union {NULL}]
    /\ \A n \in DOMAIN stack : /\ stack[n].opened \in [Patterns -> 0..3]
                               /\ ToSet(stack[n].active) \subseteq Patterns
    /\ pc \in {"start", "enter", "open", "seek", "search", "leap", "return", "done"}
    /\ at \in 1..(Len(query.goals) + 1)
    /\ turn \in Nat
    /\ solutions \in Nat \union {Failed}
    /\ starved \in BOOLEAN

Init ==
    /\ query \in Calls
    /\ symbols \in {S \in SUBSET Symbols : \A f \in query.facts, c \in Columns : f[c] \in S}
    /\ variables = <<>>
    /\ cols = <<>>
    /\ it = [i \in Patterns |-> [depth |-> 0, val |-> [c \in Columns |-> NULL], pos |-> EOF]]
    /\ bound = query.given
    /\ stack = <<>>
    /\ pc = "start"
    /\ at = 1
    /\ turn = 0
    /\ solutions = 0
    /\ starved = FALSE

-----------------------------------------------------------------------------
(* The plan: an order of the variables, and a trie for each pattern *)

Constants == {query.goals[i][c] : i \in Patterns, c \in Columns} \ Vars

\* The variables in the order in which the patterns mention them first.
CollectVars ==
    LET Term(n) == query.goals[1 + (n \div 3)][1 + (n % 3)]
        first == {n \in 0..(3 * Len(query.goals) - 1) : Term(n) \in Vars /\ \A m \in 0..(n - 1) : Term(m) # Term(n)}
    IN  [k \in 1..Cardinality(first) |->
            Term(CHOOSE n \in first : Cardinality({m \in first : m <= n}) = k)]

Priority(v, order) == CHOOSE n \in DOMAIN order : order[n] = v

InOrder(f, columns) == [c \in Columns |-> f[columns[c]]]

\* The trie's columns meet the variables in their order.
IsValid(goal, columns, order) ==
    \A c, d \in Columns :
        c < d /\ goal[columns[c]] \in Vars /\ goal[columns[d]] \in Vars
            => Priority(goal[columns[c]], order) <= Priority(goal[columns[d]], order)

ConstantsBeforeVars(goal, columns) ==
    Cardinality({c \in Columns : \A d \in 1..c : goal[columns[d]] \notin Vars})

\* The first of the valid tries with the most leading constants; trie_spo when
\* none is valid.
BestCandidate(goal, order) ==
    LET valid == {n \in 1..3 : IsValid(goal, trie_candidate_cols[n], order)}
        Consts(n) == ConstantsBeforeVars(goal, trie_candidate_cols[n])
    IN  IF valid = {} THEN 1
        ELSE CHOOSE n \in valid : \A m \in valid : Consts(n) > Consts(m) \/ (Consts(n) = Consts(m) /\ n <= m)

-----------------------------------------------------------------------------
(* Iterators *)

Rows(i) == {InOrder(f, cols[i]) : f \in query.facts}

\* Lexicographic, as the big-endian keys of the tries.
Before(a, b) == \E c \in Columns : a[c] < b[c] /\ \A d \in 1..(c - 1) : a[d] = b[d]

FirstOf(rows) == IF rows = {} THEN EOF ELSE CHOOSE r \in rows : \A o \in rows : o = r \/ Before(r, o)

\* The row agrees with the iterator in the columns above d.
Under(x, row, d) == row # EOF /\ \A c \in 1..(d - 1) : row[c] = x.val[c]

\* An iterator at a row: it takes the value of column d if the row is under
\* the values above it, and reports failure otherwise.
Arrive(x, row, d) ==
    IF Under(x, row, d)
    THEN [ok |-> TRUE, it |-> [depth |-> d, val |-> [x.val EXCEPT ![d] = row[d]], pos |-> row]]
    ELSE [ok |-> FALSE, it |-> [x EXCEPT !.pos = row]]

\* raxSeek ">=" with the values above column d and key in it.
SeekRow(i, d, key) ==
    LET from == [c \in Columns |-> IF c < d THEN it[i].val[c] ELSE IF c = d THEN key ELSE NULL]
    IN  FirstOf({r \in Rows(i) : ~ Before(r, from)})

iterator_key(x) == IF x.pos = EOF \/ x.depth = 0 THEN NULL ELSE x.val[x.depth]

iterator_open(i) == Arrive(it[i], SeekRow(i, it[i].depth + 1, NULL), it[i].depth + 1)

iterator_seek(i, key) == Arrive(it[i], SeekRow(i, it[i].depth, key), it[i].depth)

\* Mutation: goes on from the row after the one it is at.
NextSkips(i) ==
    LET x == it[i]
        ahead == {r \in Rows(i) : x.pos # EOF /\ Before(x.pos, r)}
    IN  Arrive(x, FirstOf({r \in ahead : x.depth = 3 \/ ~ Under(x, r, x.depth) \/ r[x.depth] # x.val[x.depth]}),
               x.depth)

\* The deepest level goes to the next row; the others go on from the row they
\* are at, wherever deeper levels have left it, to one with another value.
iterator_next(i) ==
    LET x == it[i]
        ahead == {r \in Rows(i) : x.pos # EOF /\ (Before(x.pos, r) \/ (x.depth < 3 /\ r = x.pos))}
    IN  Arrive(x, FirstOf({r \in ahead : x.depth = 3 \/ ~ Under(x, r, x.depth) \/ r[x.depth] # x.val[x.depth]}),
               x.depth)

-----------------------------------------------------------------------------
(* lftj_solve_rec *)

Top == stack[Len(stack)]

\* The variable of the top frame.
var_name == variables[Len(stack)]

\* iterator_up for every level that a frame has counted.
Closed(x, levels) == [x EXCEPT !.depth = x.depth - levels]

\* A constant of the query that is no symbol of the table has no solutions.
Start ==
    /\ pc = "start"
    /\ Constants \subseteq symbols
    /\ LET order == CollectVars
       IN  /\ variables' = order
           /\ cols' = [i \in Patterns |-> trie_candidate_cols[BestCandidate(query.goals[i], order)]]
    /\ pc' = "enter"
    /\ UNCHANGED <<query, symbols, it, bound, stack, at, turn, solutions, starved>>

NotInterned ==
    /\ pc = "start"
    /\ ~ (Constants \subseteq symbols)
    /\ pc' = "done"
    /\ UNCHANGED <<query, symbols, variables, cols, it, bound, stack, at, turn, solutions, starved>>

\* No memory for the tables of the call.
OutOfMemory ==
    /\ pc = "start"
    /\ solutions' = Failed
    /\ pc' = "done"
    /\ UNCHANGED <<query, symbols, variables, cols, it, bound, stack, at, turn, starved>>

Solution ==
    /\ pc = "enter"
    /\ Len(stack) = Len(variables)
    /\ solutions' = solutions + 1
    /\ pc' = "return"
    /\ UNCHANGED <<query, symbols, variables, cols, it, bound, stack, at, turn, starved>>

Enter ==
    /\ pc = "enter"
    /\ Len(stack) < Len(variables)
    /\ stack' = Append(stack, [opened |-> [i \in Patterns |-> 0], active |-> <<>>])
    /\ at' = 1
    /\ pc' = "open"
    /\ UNCHANGED <<query, symbols, variables, cols, it, bound, turn, solutions, starved>>

\* No memory for the frame: it returns 0 as if it had found nothing.  Once in a
\* call, to bound the model.
Starve ==
    /\ pc = "enter"
    /\ Len(stack) < Len(variables)
    /\ ~ starved
    /\ starved' = TRUE
    /\ pc' = "return"
    /\ UNCHANGED <<query, symbols, variables, cols, it, bound, stack, at, turn, solutions>>

\* The term in column d of the pattern's trie, and the value it is known to
\* have: a constant, or a binding that the table knows.
Term(i, d) == query.goals[i][cols[i][d]]

Known(t) == IF t \notin Vars THEN t ELSE IF bound[t] \in symbols THEN bound[t] ELSE NULL

\* The pattern has a column left that this frame can open.
CanOpen(i) ==
    /\ it[i].depth < 3
    /\ LET t == Term(i, it[i].depth + 1) IN Known(t) # NULL \/ t = var_name

\* A column with a known value: the iterator has to hold it.
OpenKnown ==
    /\ pc = "open"
    /\ at \in Patterns
    /\ CanOpen(at)
    /\ Known(Term(at, it[at].depth + 1)) # NULL
    /\ iterator_open(at).ok
    /\ it' = [it EXCEPT ![at] = iterator_open(at).it]
    /\ pc' = "seek"
    /\ UNCHANGED <<query, symbols, variables, cols, bound, stack, at, turn, solutions, starved>>

SeekKnown ==
    LET value == Known(Term(at, it[at].depth))
        r == iterator_seek(at, value)
    IN  /\ pc = "seek"
        /\ r.ok
        /\ iterator_key(r.it) = value
        /\ it' = [it EXCEPT ![at] = r.it]
        /\ stack' = [stack EXCEPT ![Len(stack)].opened[at] = @ + 1]
        /\ pc' = "open"
        /\ UNCHANGED <<query, symbols, variables, cols, bound, at, turn, solutions, starved>>

\* backtrack_temp: the levels that the frame has counted are closed again,
\* with the pattern's iterator at moved.
Backtrack(moved) ==
    /\ it' = [i \in Patterns |-> Closed(IF i = at THEN moved ELSE it[i], Top.opened[i])]
    /\ stack' = Front(stack)
    /\ pc' = "return"
    /\ UNCHANGED <<query, symbols, variables, cols, bound, at, turn, solutions, starved>>

OpenFails ==
    /\ pc = "open"
    /\ at \in Patterns
    /\ CanOpen(at)
    /\ ~ iterator_open(at).ok
    /\ Backtrack(iterator_open(at).it)

\* The level is open, but the frame has not counted it.
SeekFails ==
    LET value == Known(Term(at, it[at].depth))
        r == iterator_seek(at, value)
    IN  /\ pc = "seek"
        /\ r.ok => iterator_key(r.it) # value
        /\ Backtrack(r.it)

\* The variable of the frame: its iterator takes part in the search.
OpenActive ==
    /\ pc = "open"
    /\ at \in Patterns
    /\ CanOpen(at)
    /\ Known(Term(at, it[at].depth + 1)) = NULL
    /\ iterator_open(at).ok
    /\ it' = [it EXCEPT ![at] = iterator_open(at).it]
    /\ stack' = [stack EXCEPT ![Len(stack)].opened[at] = @ + 1,
                              ![Len(stack)].active = Append(@, at)]
    /\ at' = at + 1
    /\ UNCHANGED <<query, symbols, variables, cols, bound, pc, turn, solutions, starved>>

\* A variable of a later frame, or nothing left of the pattern.
OpenNoMore ==
    /\ pc = "open"
    /\ at \in Patterns
    /\ ~ CanOpen(at)
    /\ at' = at + 1
    /\ UNCHANGED <<query, symbols, variables, cols, it, bound, stack, pc, turn, solutions, starved>>

Opened ==
    /\ pc = "open"
    /\ at \notin Patterns
    /\ pc' = IF Top.active = <<>> THEN "enter" ELSE "search"
    /\ UNCHANGED <<query, symbols, variables, cols, it, bound, stack, at, turn, solutions, starved>>

\* iterator_up for what the frame has opened, with the iterators moved to where
\* they are, and back to the caller.
Finish(moved) ==
    /\ it' = [i \in Patterns |-> Closed(moved[i], Top.opened[i])]
    /\ bound' = [bound EXCEPT ![var_name] = NULL]
    /\ stack' = Front(stack)
    /\ pc' = "return"
    /\ UNCHANGED <<query, symbols, variables, cols, at, turn, solutions, starved>>

Key(i) == iterator_key(it[i])

\* sort_iterators; one that has no key ends the search.
Sorted(active) ==
    LET NotAfter(a, b) == Key(active[a]) < Key(active[b]) \/ (Key(active[a]) = Key(active[b]) /\ a <= b)
    IN  [k \in DOMAIN active |->
            active[CHOOSE n \in DOMAIN active : Cardinality({m \in DOMAIN active : NotAfter(m, n)}) = k]]

Search ==
    /\ pc = "search"
    /\ \A i \in ToSet(Top.active) : Key(i) # NULL
    /\ stack' = [stack EXCEPT ![Len(stack)].active = Sorted(@)]
    /\ turn' = 0
    /\ pc' = "leap"
    /\ UNCHANGED <<query, symbols, variables, cols, it, bound, at, solutions, starved>>

SearchEnds ==
    /\ pc = "search"
    /\ \E i \in ToSet(Top.active) : Key(i) = NULL
    /\ Finish(it)

Turn == Top.active[turn + 1]

max_key == LET n == Len(Top.active) IN Key(Top.active[1 + ((turn + n - 1) % n)])

Match ==
    /\ pc = "leap"
    /\ Key(Turn) = max_key
    /\ bound' = [bound EXCEPT ![var_name] = max_key]
    /\ pc' = "enter"
    /\ UNCHANGED <<query, symbols, variables, cols, it, stack, at, turn, solutions, starved>>

\* Mutation: seeks the key that the iterator has.
LeapInPlace ==
    /\ pc = "leap"
    /\ Key(Turn) # max_key
    /\ it' = [it EXCEPT ![Turn] = iterator_seek(Turn, Key(Turn)).it]
    /\ turn' = (turn + 1) % Len(Top.active)
    /\ UNCHANGED <<query, symbols, variables, cols, bound, stack, pc, at, solutions, starved>>

Leap ==
    /\ pc = "leap"
    /\ Key(Turn) # max_key
    /\ iterator_seek(Turn, max_key).ok
    /\ it' = [it EXCEPT ![Turn] = iterator_seek(Turn, max_key).it]
    /\ turn' = (turn + 1) % Len(Top.active)
    /\ UNCHANGED <<query, symbols, variables, cols, bound, stack, pc, at, solutions, starved>>

LeapFails ==
    /\ pc = "leap"
    /\ Key(Turn) # max_key
    /\ ~ iterator_seek(Turn, max_key).ok
    /\ Finish([it EXCEPT ![Turn] = iterator_seek(Turn, max_key).it])

\* The frame below has returned: the first active iterator moves on.
Advance ==
    /\ pc = "return"
    /\ stack # <<>>
    /\ Top.active # <<>>
    /\ iterator_next(Top.active[1]).ok
    /\ it' = [it EXCEPT ![Top.active[1]] = iterator_next(Top.active[1]).it]
    /\ pc' = "search"
    /\ UNCHANGED <<query, symbols, variables, cols, bound, stack, at, turn, solutions, starved>>

Exhausted ==
    /\ pc = "return"
    /\ stack # <<>>
    /\ Top.active # <<>>
    /\ ~ iterator_next(Top.active[1]).ok
    /\ Finish([it EXCEPT ![Top.active[1]] = iterator_next(Top.active[1]).it])

NothingActive ==
    /\ pc = "return"
    /\ stack # <<>>
    /\ Top.active = <<>>
    /\ Finish(it)

Done ==
    /\ pc = "return"
    /\ stack = <<>>
    /\ pc' = "done"
    /\ UNCHANGED <<query, symbols, variables, cols, it, bound, stack, at, turn, solutions, starved>>

Next ==
    \/ Start \/ NotInterned \/ OutOfMemory \/ Solution \/ Enter \/ Starve
    \/ OpenKnown \/ SeekKnown \/ OpenFails \/ SeekFails \/ OpenActive \/ OpenNoMore \/ Opened
    \/ Search \/ SearchEnds \/ Match \/ Leap \/ LeapFails
    \/ Advance \/ Exhausted \/ NothingActive \/ Done

Spec == Init /\ [][Next]_vars

\* facts_lftj_solve is one call: its thread goes on with it.
FairSpec == Spec /\ WF_vars(Next)

-----------------------------------------------------------------------------
(* Properties *)

\* The answers by definition: the values of the query's variables that agree
\* with the bindings given and make every pattern a fact.
Instance(goal, a) == [c \in Columns |-> IF goal[c] \in Vars THEN a[goal[c]] ELSE goal[c]]

Answers ==
    {a \in [ToSet(CollectVars) -> Symbols] :
        /\ \A v \in DOMAIN a : query.given[v] \in {NULL, a[v]}
        /\ \A i \in Patterns : Instance(query.goals[i], a) \in query.facts}

\* Every value of the first column has a row with value k after it.
Everywhere(k, i) == \A r \in Rows(i) : \E s \in Rows(i) : s[1] = r[1] /\ s[2] = k

\* The queries whose tries fit.  In the trie chosen for each pattern the terms
\* that are known before the search come first, and then variables in their
\* order, each of them once.  A constant may stand between two variables, as in
\* ?a friend ?b, if the search finds it under every value of the first one.
Fits ==
    LET Unknown(t) == t \in Vars /\ query.given[t] = NULL
        InTurn(s, t) == Unknown(t) /\ Priority(s, variables) < Priority(t, variables)
    IN  /\ CollectVars # <<>>
        /\ \A v \in Vars : query.given[v] \in symbols \union {NULL}
        /\ \A i \in DOMAIN cols :
               LET row == InOrder(query.goals[i], cols[i])
               IN  /\ Unknown(row[1]) => /\ InTurn(row[1], row[2]) \/ (row[2] \notin Vars /\ Everywhere(row[2], i))
                                         /\ InTurn(row[1], row[3])
                   /\ Unknown(row[2]) => InTurn(row[2], row[3])

\* Leapfrog triejoin counts every answer of such a query once: seeks that jump
\* over rows, positions that deeper variables leave behind, and iterators
\* closed on the way back lose no answer and repeat none.  A frame without
\* memory only loses answers.
Exact ==
    pc = "done" /\ solutions # Failed /\ Fits =>
        IF starved THEN solutions <= Cardinality(Answers) ELSE solutions = Cardinality(Answers)

\* The same count for every join, as the test of a join states it
\* (t/00util/test/check_triejoin.c:127).
ExactJoin == pc = "done" /\ solutions # Failed /\ ~ starved => solutions = Cardinality(Answers)

\* The search ends for every query, those included that it answers wrongly.
Terminates == <>(pc = "done")
=============================================================================
