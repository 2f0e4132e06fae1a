------------------------------- MODULE Query --------------------------------
(***************************************************************************)
(* A SPARQL query over the store: facts_sparql of lib/sparql.c once the    *)
(* text is parsed, facts_with_checked, facts_with_cursor_next and          *)
(* facts_with_cursor_destroy of lib/facts.c, and below them the cursors    *)
(* over the three tries.                                                   *)
(*                                                                         *)
(* The search is a nested loop with one level for each pattern.  Every     *)
(* level keeps a cursor and a copy of the patterns that remain, in which   *)
(* the variables bound so far are replaced by their values; going back to  *)
(* a level continues its cursor.  A cursor is a position in one trie, and  *)
(* each cursor that has not ended holds the reader lock once more.         *)
(*                                                                         *)
(* Symbols are their ids, and a row of a trie is the number that its       *)
(* 24-byte key spells.  The query runs outside a transaction; a writer is  *)
(* another thread, which gets in when the query's thread holds no reader   *)
(* lock.  A step is one pass of a loop.                                    *)
(***************************************************************************)
EXTENDS Hexastore, Sequences, SequencesExt

CONSTANTS
    Names,      \* the place of each id's text in the order of strcmp
    Var,        \* variables, the names of the bindings
    Facts,      \* the triples a writer may add
    Asked,      \* the triples of the queries: sequences of [s, p, o, negated]
    Modifiers,  \* [ask, limit, offset, sort_var, sort_desc]; a negative offset counts as 0
    NoVar,      \* no variable: a pointer that is NULL
    Interned,   \* how often each symbol may have been interned without a fact
    Starving    \* the allocations that may fail: see the actions

NULL == 0

ASSUME QueryAssumption ==
    /\ IsFiniteSet(Symbols) /\ Symbols = 1..Cardinality(Symbols)
    /\ Names \in [Symbols -> Nat \ {0}]
    /\ IsFiniteSet(Var) /\ NoVar \notin Var /\ Var \intersect Symbols = {}
    /\ Facts \subseteq [Columns -> Symbols]
    /\ Asked \subseteq Seq([s : Symbols \union Var, p : Symbols \union Var, o : Symbols \union Var, negated : BOOLEAN])
    /\ \A mod \in Modifiers : mod.ask \in BOOLEAN /\ mod.limit \in Int /\ mod.offset \in Nat /\ mod.sort_desc \in BOOLEAN
    /\ Interned \subseteq [Symbols -> Nat]
    /\ Starving \subseteq {"spo", "pos", "osp", "index", "open", "sort_var", "collect", "negate"}

VARIABLES
    facts,      \* the store's hash index
    hexastore,  \* its tries
    interned,   \* per symbol, its uses by queries, which are never released
    depth,      \* how often the query's thread holds the reader lock
    bindings,   \* the variables' values
    c,          \* the s_facts_with_cursor
    pc,         \* where facts_with_cursor_next is; "ready" between calls
    call,       \* its locals: a match to skip, and the modifiers set aside
    asked,      \* history: the query, [triples, mod]
    answers,    \* history: the bindings at each return of 1
    ended,      \* history: a call has returned 0
    starved     \* history: a negated level found no memory

vars == <<facts, hexastore, interned, depth, bindings, c, pc, call, asked, answers, ended, starved>>

Unbound == [v \in Var |-> NULL]

-----------------------------------------------------------------------------
(* The tries and their cursors *)

EOF == -1

\* The first fact at or above a key in a trie.
Seek(index, key) ==
    LET rows == {encode_triple_key(f, index) : f \in hexastore[index]}
        above == {k \in rows : k >= key}
    IN  IF above = {} THEN EOF ELSE CHOOSE k \in above : \A other \in above : k <= other

Fact(index, key) == CHOOSE f \in hexastore[index] : encode_triple_key(f, index) = key

\* A symbol is in the table when a fact or a query uses it.
usage(a) == interned[a] + Cardinality({use \in facts \X Columns : use[1][use[2]] = a})

\* The trie whose first columns are the pattern's constants.
TrieFor(var) ==
    IF (\A n \in Columns : (var[n] = NoVar) = (var[1] = NoVar)) \/ (var[1] = NoVar /\ var[3] # NoVar) THEN "spo"
    ELSE IF var[2] = NoVar THEN "pos" ELSE "osp"

\* facts_with_spo on a pattern: a cursor over the range of keys it matches, or
\* one that has ended when a constant is no symbol.
facts_with_spo(pattern) ==
    LET var == [n \in Columns |-> IF pattern[n] \in Var THEN pattern[n] ELSE NoVar]
        index == TrieFor(var)
        Bound(blank) == [n \in Columns |-> IF var[n] = NoVar THEN pattern[n] ELSE blank]
        known == \A n \in Columns : var[n] = NoVar => usage(pattern[n]) > 0
    IN  [index |-> index,
         var |-> var,
         it |-> IF known THEN Seek(index, encode_triple_key(Bound(P_FIRST), index)) ELSE EOF,
         end_key |-> encode_triple_key(Bound(P_LAST), index),
         started |-> IF known THEN 0 ELSE 2]

\* What facts_cursor_next does to a cursor.
Moved(cursor) ==
    [cursor EXCEPT !.started = 1,
                   !.it = IF cursor.started = 0 \/ @ = EOF THEN @ ELSE Seek(cursor.index, @ + 1)]

Finds(cursor) ==
    /\ cursor.started # 2
    /\ Moved(cursor).it # EOF
    /\ Moved(cursor).it <= cursor.end_key

stopped(cursor) == [cursor EXCEPT !.started = 2]

facts_cursor_next(cursor) ==
    IF Finds(cursor) THEN Moved(cursor) ELSE stopped(cursor)

\* Mutation: the end of a cursor leaves its variables at the last fact.
KeepBindings(cursor, b) ==
    LET f == Fact(cursor.index, Moved(cursor).it)
    IN  [v \in Var |->
            LET places == {n \in Columns : cursor.var[n] = v}
            IN  IF Finds(cursor) /\ places # {}
                THEN f[CHOOSE n \in places : \A m \in places : m <= n]
                ELSE b[v]]

\* What it does to the bindings: it writes the columns one after the other, and
\* NULL when the range ends.
NextBindings(cursor, b) ==
    LET f == Fact(cursor.index, Moved(cursor).it)
    IN  [v \in Var |->
            LET places == {n \in Columns : cursor.var[n] = v}
            IN  IF cursor.started = 2 \/ places = {} THEN b[v]
                ELSE IF Finds(cursor) THEN f[CHOOSE n \in places : \A m \in places : m <= n] ELSE NULL]

\* The reader lock that a cursor holds.
Held(cursor) == IF cursor.started = 2 THEN 0 ELSE 1

-----------------------------------------------------------------------------
(* From the query's triples to the levels *)

Pattern(t) == <<t.s, t.p, t.o, t.negated>>

\* compile_sparql_to_spec puts the positive triples of a subject together, where
\* its first one stands; spec_expand repeats the subject for each.
Expanded(triples) ==
    LET SameGroup(m, n) == m = n \/ (~triples[m].negated /\ ~triples[n].negated /\ triples[m].s = triples[n].s)
        Lead(n) == CHOOSE m \in 1..n : SameGroup(m, n) /\ \A k \in 1..(m - 1) : ~SameGroup(k, n)
        NotAfter(m, n) == Lead(m) < Lead(n) \/ (Lead(m) = Lead(n) /\ m <= n)
        Source(k) == CHOOSE n \in DOMAIN triples : Cardinality({m \in DOMAIN triples : NotAfter(m, n)}) = k
    IN  [k \in DOMAIN triples |-> Pattern(triples[Source(k)])]

Negated(pattern) == pattern[4]

VarsOf(pattern) == {pattern[n] : n \in Columns} \intersect Var

\* The estimate of facts_spec_sort, <<n, m>> for 100000^n * m / 1000: every unbound
\* place is a factor of 100000, a bound one of 1, a constant one of its usage, or
\* of 0.1 when it is no symbol.  A negated pattern costs 1e15 or 1.
Cost(pattern, bound) ==
    LET free == {n \in Columns : pattern[n] \in Var \ bound}
        Tenths(n) == IF pattern[n] \in Var THEN 10
                     ELSE IF usage(pattern[n]) > 0 THEN 10 * usage(pattern[n]) ELSE 1
    IN  CASE Negated(pattern) /\ free # {} -> <<3, 1000>>
          [] Negated(pattern) /\ free = {} -> <<0, 1000>>
          [] OTHER -> <<Cardinality(free), Tenths(1) * Tenths(2) * Tenths(3)>>

\* m \div 100000^n, for the n that two estimates differ by.
Scaled(m, n) ==
    CASE n = 1 -> m \div 100000
      [] n = 2 -> (m \div 100000) \div 100000
      [] n = 3 -> ((m \div 100000) \div 100000) \div 100000

Cheaper(a, b) ==
    \/ a[1] = b[1] /\ a[2] < b[2]
    \/ a[1] < b[1] /\ Scaled(a[2], b[1] - a[1]) < b[2]
    \/ a[1] > b[1] /\ a[2] <= Scaled(b[2] - 1, a[1] - b[1])

\* Selection sort: at place n the first of the cheapest patterns, given the
\* variables that the positive patterns before it bind.
Select(acc, n) ==
    LET CostAt(m) == Cost(acc.spec[m], acc.bound)
        best[m \in n..Len(acc.spec)] ==
            IF m = n THEN n
            ELSE IF Cheaper(CostAt(m), CostAt(best[m - 1])) THEN m ELSE best[m - 1]
        least == best[Len(acc.spec)]
        chosen == acc.spec[least]
    IN  [spec |-> [acc.spec EXCEPT ![n] = chosen, ![least] = acc.spec[n]],
         bound |-> acc.bound \union (IF Negated(chosen) THEN {} ELSE VarsOf(chosen))]

facts_spec_sort(spec) ==
    LET sorted[n \in 0..Len(spec)] ==
            IF n = 0 THEN [spec |-> spec, bound |-> {}] ELSE Select(sorted[n - 1], n)
    IN  sorted[Len(spec)].spec

Substituted(pattern, b) ==
    [n \in 1..4 |-> IF n \in Columns /\ pattern[n] \in Var /\ b[pattern[n]] # NULL THEN b[pattern[n]] ELSE pattern[n]]

spec_subst(spec, b) == [k \in DOMAIN spec |-> Substituted(spec[k], b)]

-----------------------------------------------------------------------------
(* Sorting the matches *)

\* compare_matches(a, b) < 0.  An unset variable comes before every text.
Before(a, b) ==
    LET Rank(m) == IF m[c.sort_var] = NULL THEN 0 ELSE Names[m[c.sort_var]]
    IN  IF c.sort_desc THEN Rank(b) < Rank(a) ELSE Rank(a) < Rank(b)

\* Mutation: the heap never looks at the last child.
SiftShort(at, count) ==
    LET left == at.root * 2 + 1
        child == IF left + 2 < count /\ Before(at.arr[left + 1], at.arr[left + 2]) THEN left + 1 ELSE left
    IN  IF at.root > (count - 2) \div 2 \/ ~Before(at.arr[at.root + 1], at.arr[child + 1]) THEN at
        ELSE [arr |-> [at.arr EXCEPT ![at.root + 1] = at.arr[child + 1], ![child + 1] = at.arr[at.root + 1]],
              root |-> child]

\* One pass of the loop of sift_down_matches: the larger child takes the place of
\* the root, or all is in order.  Places are counted from 0.
Sift(at, count) ==
    LET left == at.root * 2 + 1
        child == IF left + 1 < count /\ Before(at.arr[left + 1], at.arr[left + 2]) THEN left + 1 ELSE left
    IN  IF at.root > (count - 2) \div 2 \/ ~Before(at.arr[at.root + 1], at.arr[child + 1]) THEN at
        ELSE [arr |-> [at.arr EXCEPT ![at.root + 1] = at.arr[child + 1], ![child + 1] = at.arr[at.root + 1]],
              root |-> child]

\* Through a set, so that TLC works a pass out once, and not for each use of at.
Sifted(at, count) == CHOOSE after \in {Sift(before, count) : before \in {at}} : TRUE

\* The root moves on in every pass, so that the loop has fewer than count of them.
sift_down_matches(arr, start, count) ==
    LET sift[n \in 0..count] == IF n = 0 THEN [arr |-> arr, root |-> start] ELSE Sifted(sift[n - 1], count)
    IN  IF count < 2 THEN arr ELSE sift[count].arr

Swapped(arr, m, n) == [arr EXCEPT ![m] = arr[n], ![n] = arr[m]]

heapsort_matches(arr) ==
    LET count == Len(arr)
        half == count \div 2
        heap[n \in 0..half] == IF n = 0 THEN arr ELSE sift_down_matches(heap[n - 1], half - n, count)
        out[n \in 0..(count - 1)] ==
            IF n = 0 THEN heap[half]
            ELSE sift_down_matches(Swapped(out[n - 1], 1, count - n + 1), 0, count - n)
    IN  IF count < 2 THEN arr ELSE out[count - 1]

-----------------------------------------------------------------------------
(* A writer, and the life of a query *)

NoCursor == [index |-> "spo", var |-> <<NoVar, NoVar, NoVar>>, it |-> EOF, end_key |-> 0, started |-> 2]

\* The cursor after facts_with_checked: a level for each pattern, none begun.
Fresh(spec, locked, error, mod, sort_var) ==
    [spec |-> spec, facts_count |-> Len(spec), level |-> 0,
     l |-> [k \in DOMAIN spec |-> [spec |-> <<>>, spec_init |-> 0, cursor |-> NoCursor]],
     limit |-> IF mod.ask THEN 1 ELSE mod.limit,
     offset |-> IF mod.ask THEN 0 ELSE mod.offset,
     result_count |-> 0, is_sorted |-> mod.sort_var # NoVar,
     sort_var |-> sort_var, sort_desc |-> mod.sort_desc,
     has_matches |-> FALSE, sorted_matches |-> <<>>, sorted_pos |-> 0,
     error |-> error, locked |-> locked]

NoModifier == [ask |-> FALSE, limit |-> -1, offset |-> 0, sort_var |-> NoVar, sort_desc |-> FALSE]

NoQuery == [triples |-> <<>>, mod |-> NoModifier]

NoCall == [skip |-> FALSE, collecting |-> FALSE, limit |-> -1, offset |-> 0]

Init ==
    /\ facts = {}
    /\ hexastore = new_hexastore
    /\ interned = [a \in Symbols |-> 0]
    /\ depth = 0
    /\ bindings = Unbound
    /\ c = Fresh(<<>>, 0, 0, NoModifier, NoVar)
    /\ pc = "closed"
    /\ call = NoCall
    /\ asked = NoQuery
    /\ answers = <<>>
    /\ ended = FALSE
    /\ starved = FALSE

\* Another thread adds a fact, for which it needs the write lock.  Each of the
\* tries may find no memory, and so may the hash index, or the journal after it.
facts_insert_fact_copy(f) ==
    /\ depth = 0
    /\ f \notin facts
    /\ \E fails \in {"none"} \union (Starving \intersect {"spo", "pos", "osp", "index"}) :
        LET inserted == hexastore_insert(hexastore, f, fails)
        IN  CASE fails = "none" -> /\ hexastore' = inserted
                                   /\ facts' = facts \union {f}
              [] fails = "index" -> /\ hexastore' = hexastore_remove(inserted, f)
                                    /\ UNCHANGED facts
              [] OTHER -> hexastore' = inserted /\ UNCHANGED facts
    /\ UNCHANGED <<interned, depth, bindings, c, pc, call, asked, answers, ended, starved>>

facts_remove_found(f) ==
    /\ depth = 0
    /\ f \in facts
    /\ facts' = facts \ {f}
    /\ hexastore' = hexastore_remove(hexastore, f)
    /\ UNCHANGED <<interned, depth, bindings, c, pc, call, asked, answers, ended, starved>>

\* An application compacts the tries while nobody uses them: the function takes
\* no lock itself.
Compact ==
    /\ depth = 0
    /\ pc = "closed"
    /\ \E fails \in BOOLEAN : hexastore' = hexastore_compact(hexastore, fails)
    /\ UNCHANGED <<facts, interned, depth, bindings, c, pc, call, asked, answers, ended, starved>>

\* parse_query interns the terms of a query, this one's or one of another thread,
\* and nothing releases them.
facts_intern ==
    /\ pc = "closed"
    /\ interned' \in {more \in Interned : \A a \in Symbols : more[a] >= interned[a]}
    /\ UNCHANGED <<facts, hexastore, depth, bindings, c, pc, call, asked, answers, ended, starved>>

Places(a, triples) == {place \in (DOMAIN triples) \X Columns : Pattern(triples[place[1]])[place[2]] = a}

\* The copy of the variable to sort by, which may be NULL for want of memory.
SortVar(mod) == {mod.sort_var} \union (IF "sort_var" \in Starving THEN {NoVar} ELSE {})

\* facts_sparql, once its terms are interned.  When there is no memory the cursor is
\* left with an error and no patterns, and the caller goes on with it.
Open(triples, mod) ==
    /\ pc = "closed"
    /\ ~starved \* bound: a thread that leaked a lock asks no more
    /\ \A a \in Symbols : interned[a] >= Cardinality(Places(a, triples))
    /\ pc' = "ready"
    /\ bindings' = Unbound
    /\ asked' = [triples |-> triples, mod |-> mod]
    /\ \E var \in SortVar(mod) :
        \/ /\ c' = Fresh(facts_spec_sort(Expanded(triples)), 1, 0, mod, var)
           /\ depth' = depth + 1
        \/ /\ "open" \in Starving
           /\ c' = Fresh(<<>>, 0, -1, mod, var)
           /\ UNCHANGED depth
    /\ UNCHANGED <<facts, hexastore, interned, call, answers, ended, starved>>

\* Mutation: destroy leaves a cursor that is in the middle of its range.
DestroyOwnLockOnly ==
    /\ pc = "ready"
    /\ depth' = depth - c.locked
    /\ c' = Fresh(<<>>, 0, 0, NoModifier, NoVar)
    /\ pc' = "closed"
    /\ answers' = <<>>
    /\ ended' = FALSE
    /\ asked' = NoQuery
    /\ bindings' = Unbound
    /\ UNCHANGED <<facts, hexastore, interned, call, starved>>

Begun == {k \in 1..c.facts_count : c.l[k].spec_init = 1}

\* facts_with_cursor_destroy, at any time between calls; the caller drops its
\* bindings.
facts_with_cursor_destroy ==
    /\ pc = "ready"
    /\ depth' = depth - c.locked - Cardinality({k \in Begun : c.l[k].cursor.started # 2})
    /\ c' = Fresh(<<>>, 0, 0, NoModifier, NoVar)
    /\ pc' = "closed"
    /\ answers' = <<>>
    /\ ended' = FALSE
    /\ asked' = NoQuery
    /\ bindings' = Unbound
    /\ UNCHANGED <<facts, hexastore, interned, call, starved>>

-----------------------------------------------------------------------------
(* facts_with_cursor_next: limit, offset and order *)

return0 ==
    /\ pc' = "ready"
    /\ ended' = TRUE
    /\ UNCHANGED answers

\* The caller reads the bindings.
return1(b) ==
    /\ pc' = "ready"
    /\ answers' = Append(answers, b)
    /\ UNCHANGED ended

\* The call.  The first one of a sorted query sets the modifiers aside and
\* collects every match, as an unsorted query would return them.
CallNext ==
    /\ pc = "ready"
    /\ \/ /\ ~c.is_sorted
          /\ pc' = "limit"
          /\ UNCHANGED <<c, call, answers, ended>>
       \/ /\ c.is_sorted
          /\ ~c.has_matches
          /\ c' = [c EXCEPT !.has_matches = TRUE, !.sorted_matches = <<>>,
                           !.limit = -1, !.offset = 0, !.is_sorted = FALSE]
          /\ call' = [call EXCEPT !.collecting = TRUE, !.limit = c.limit, !.offset = c.offset]
          /\ pc' = "limit"
          /\ UNCHANGED <<answers, ended>>
       \/ /\ c.is_sorted
          /\ ~c.has_matches
          /\ "collect" \in Starving
          /\ c' = [c EXCEPT !.error = -1]
          /\ return0
          /\ UNCHANGED call
       \/ /\ c.is_sorted
          /\ c.has_matches
          /\ pc' = "page"
          /\ UNCHANGED <<c, call, answers, ended>>
    /\ UNCHANGED <<facts, hexastore, interned, depth, bindings, asked, starved>>

\* The limit of an unsorted query.
Limit ==
    /\ pc = "limit"
    /\ IF c.limit >= 0 /\ c.result_count >= c.limit
       THEN return0
       ELSE pc' = "offset" /\ UNCHANGED <<answers, ended>>
    /\ UNCHANGED <<facts, hexastore, interned, depth, bindings, c, call, asked, starved>>

\* Its offset, one match at a time.
Offset ==
    /\ pc = "offset"
    /\ call' = [call EXCEPT !.skip = c.offset > 0]
    /\ c' = [c EXCEPT !.offset = IF @ > 0 THEN @ - 1 ELSE @]
    /\ pc' = "inner"
    /\ UNCHANGED <<facts, hexastore, interned, depth, bindings, asked, answers, ended, starved>>

\* facts_with_cursor_next_inner has returned 1.
Match ==
    /\ pc = "match"
    /\ \/ /\ call.skip
          /\ pc' = "offset"
          /\ UNCHANGED <<c, answers, ended>>
       \/ /\ ~call.skip
          /\ c' = [c EXCEPT !.result_count = @ + 1]
          /\ IF call.collecting THEN pc' = "collect" /\ UNCHANGED <<answers, ended>>
             ELSE return1(bindings)
    /\ UNCHANGED <<facts, hexastore, interned, depth, bindings, call, asked, starved>>

\* facts_with_cursor_next_inner has returned 0.
NoMatch ==
    /\ pc = "nomatch"
    /\ IF call.collecting THEN pc' = "collected" /\ UNCHANGED <<answers, ended>>
       ELSE return0
    /\ UNCHANGED <<facts, hexastore, interned, depth, bindings, c, call, asked, starved>>

\* A match is copied into the array, or there is no room for it.
Collect ==
    /\ pc = "collect"
    /\ \/ /\ c' = [c EXCEPT !.sorted_matches = Append(@, bindings)]
          /\ pc' = "limit"
       \/ /\ "collect" \in Starving
          /\ c' = [c EXCEPT !.error = -1]
          /\ pc' = "collected"
    /\ UNCHANGED <<facts, hexastore, interned, depth, bindings, call, asked, answers, ended, starved>>

\* The modifiers come back, and the matches are sorted.
Collected ==
    /\ pc = "collected"
    /\ c' = [c EXCEPT !.is_sorted = TRUE, !.limit = call.limit, !.offset = call.offset, !.result_count = 0,
                     !.sorted_matches = IF c.error = 0 /\ c.sort_var \in Var THEN heapsort_matches(@) ELSE @]
    /\ call' = NoCall
    /\ IF c.error # 0 THEN return0 ELSE pc' = "page" /\ UNCHANGED <<answers, ended>>
    /\ UNCHANGED <<facts, hexastore, interned, depth, bindings, asked, starved>>

\* The limit and offset of a sorted query, and its next match.
Page ==
    LET left == Len(c.sorted_matches) - c.sorted_pos
        pos == c.sorted_pos + c.offset
    IN  /\ pc = "page"
        /\ \/ /\ c.offset > left
              /\ c' = [c EXCEPT !.offset = @ - left - 1, !.sorted_pos = @ + left]
              /\ return0
              /\ UNCHANGED bindings
           \/ /\ c.offset <= left
              /\ \/ c.limit >= 0 /\ c.result_count >= c.limit
                 \/ c.offset = left
              /\ c' = [c EXCEPT !.offset = 0, !.sorted_pos = pos]
              /\ return0
              /\ UNCHANGED bindings
           \/ /\ c.offset < left
              /\ c.limit < 0 \/ c.result_count < c.limit
              /\ c' = [c EXCEPT !.offset = 0, !.sorted_pos = pos + 1, !.result_count = @ + 1]
              /\ bindings' = c.sorted_matches[pos + 1]
              /\ return1(c.sorted_matches[pos + 1])
        /\ UNCHANGED <<facts, hexastore, interned, depth, call, asked, starved>>

-----------------------------------------------------------------------------
(* facts_with_cursor_next_inner: the search *)

\* The level c.level, counted from 1.
At == c.l[c.level + 1]

\* The levels with cursor k stopped and to be begun again.
Stopped(k) == [c.l EXCEPT ![k].cursor = stopped(@), ![k].spec_init = 0]

\* The search is over: no pattern is left.
Over(levels) == [c EXCEPT !.l = levels, !.facts_count = 0]

\* The last level gives its next fact, or the search goes back: past the last
\* level, and past a negated one at once.
Resume ==
    LET last == c.l[c.facts_count]
        again == ~Negated(last.spec[1]) /\ Finds(last.cursor)
    IN  /\ pc = "inner"
        /\ c.facts_count > 0
        /\ c.level = c.facts_count
        /\ \/ /\ again
              /\ c' = [c EXCEPT !.l[c.facts_count].cursor = facts_cursor_next(last.cursor)]
              /\ pc' = "match"
              /\ UNCHANGED depth
           \/ /\ ~again
              /\ depth' = depth - Held(last.cursor)
              /\ IF c.level = 1 THEN c' = Over(Stopped(c.level)) /\ pc' = "nomatch"
                 ELSE /\ c' = [c EXCEPT !.l = Stopped(c.level), !.level = @ - 2]
                      /\ pc' = "level"
        /\ bindings' = IF Negated(last.spec[1]) THEN bindings ELSE NextBindings(last.cursor, bindings)
        /\ UNCHANGED <<facts, hexastore, interned, call, asked, answers, ended, starved>>

\* The first call, and a search that is over.
Enter ==
    /\ pc = "inner"
    /\ c.facts_count = 0 \/ c.level < c.facts_count
    /\ pc' = IF c.facts_count = 0 THEN "nomatch" ELSE "level"
    /\ UNCHANGED <<facts, hexastore, interned, depth, bindings, c, call, asked, answers, ended, starved>>

\* Mutation: a level takes the patterns as the query wrote them.
NoSubst(parent) == parent

\* The patterns that a level copies.
LevelSpec(parent) == spec_subst(parent, bindings)

\* A level is begun: a copy of the patterns that remain, and a cursor for the
\* first of them.
BeginLevel ==
    LET parent == IF c.level = 0 THEN c.spec ELSE Tail(c.l[c.level].spec)
        spec == LevelSpec(parent)
        cursor == facts_with_spo(spec[1])
    IN  /\ pc = "level"
        /\ c.level < c.facts_count
        /\ At.spec_init = 0
        /\ c' = [c EXCEPT !.l[c.level + 1] = [spec |-> spec, spec_init |-> 1, cursor |-> cursor]]
        /\ depth' = depth + Held(cursor)
        /\ UNCHANGED <<facts, hexastore, interned, bindings, pc, call, asked, answers, ended, starved>>

\* One level down, or back to the one above, whose cursor continues.
Deeper ==
    /\ c' = [c EXCEPT !.l[c.level + 1].cursor = facts_cursor_next(@), !.level = @ + 1]
    /\ UNCHANGED pc

\* Mutation: a level that fails is begun again.
BackAgain ==
    IF c.level > 0
    THEN /\ c' = [c EXCEPT !.l = Stopped(c.level + 1)]
         /\ UNCHANGED pc
    ELSE /\ c' = Over(Stopped(c.level + 1))
         /\ pc' = "nomatch"

Back ==
    IF c.level > 0
    THEN /\ c' = [c EXCEPT !.l = Stopped(c.level + 1), !.level = @ - 1]
         /\ UNCHANGED pc
    ELSE /\ c' = Over(Stopped(c.level + 1))
         /\ pc' = "nomatch"

Positive ==
    /\ pc = "level"
    /\ c.level < c.facts_count
    /\ At.spec_init = 1
    /\ ~Negated(At.spec[1])
    /\ bindings' = NextBindings(At.cursor, bindings)
    /\ depth' = depth - (IF Finds(At.cursor) THEN 0 ELSE Held(At.cursor))
    /\ IF Finds(At.cursor) THEN Deeper ELSE Back
    /\ UNCHANGED <<facts, hexastore, interned, call, asked, answers, ended, starved>>

\* A negated level is passed when its cursor finds nothing.  The bindings are
\* what they were before it looked.
NegatedLevel ==
    /\ pc = "level"
    /\ c.level < c.facts_count
    /\ At.spec_init = 1
    /\ Negated(At.spec[1])
    /\ depth' = depth - Held(At.cursor)
    /\ IF Finds(At.cursor) THEN Back ELSE Deeper
    /\ UNCHANGED <<facts, hexastore, interned, bindings, call, asked, answers, ended, starved>>

\* No memory to save the bindings: the search is over, and no error is left.
NegatedStarved ==
    /\ pc = "level"
    /\ c.level < c.facts_count
    /\ At.spec_init = 1
    /\ Negated(At.spec[1])
    /\ "negate" \in Starving
    /\ depth' = depth - Held(At.cursor)
    /\ c' = Over(Stopped(c.level + 1))
    /\ pc' = "nomatch"
    /\ starved' = TRUE
    /\ UNCHANGED <<facts, hexastore, interned, bindings, call, asked, answers, ended>>

\* Every level holds: a match.
Reached ==
    /\ pc = "level"
    /\ c.level = c.facts_count
    /\ pc' = "match"
    /\ UNCHANGED <<facts, hexastore, interned, depth, bindings, c, call, asked, answers, ended, starved>>

-----------------------------------------------------------------------------

\* A step of a call that is under way.
Step ==
    \/ Limit \/ Offset \/ Match \/ NoMatch \/ Collect \/ Collected \/ Page
    \/ Resume \/ Enter \/ BeginLevel \/ Positive \/ NegatedLevel \/ NegatedStarved \/ Reached

Next ==
    \/ \E f \in Facts : facts_insert_fact_copy(f) \/ facts_remove_found(f)
    \/ Compact
    \/ facts_intern
    \/ \E triples \in Asked, mod \in Modifiers : Open(triples, mod)
    \/ facts_with_cursor_destroy
    \/ CallNext
    \/ Step

Spec == Init /\ [][Next]_vars

\* A call that has begun runs on: it is the caller's thread.
FairSpec == Spec /\ WF_vars(Step)

-----------------------------------------------------------------------------
(* What a query means *)

Value(b, term) == IF term \in Var THEN b[term] ELSE term

\* A fact that a triple describes under a binding; an unset variable stands for
\* anything.
Fits(b, t, f) ==
    \A n \in Columns : Value(b, Pattern(t)[n]) \in {NULL, f[n]}

InPositive ==
    LET positive == {t \in ToSet(asked.triples) : ~t.negated}
    IN  UNION {VarsOf(Pattern(t)) : t \in positive}

\* Every positive triple is a fact, and no fact fits a negated one.  A query
\* without triples has no answer.
IsAnswer(b) ==
    /\ asked.triples # <<>>
    /\ \A v \in Var : b[v] # NULL <=> v \in InPositive
    /\ \A t \in ToSet(asked.triples) : t.negated <=> ~\E f \in facts : Fits(b, t, f)

AllAnswers == {b \in [Var -> Symbols \union {NULL}] : IsAnswer(b)}

Skipped == IF asked.mod.ask THEN 0 ELSE asked.mod.offset

\* How many answers limit and offset leave.
PageSize ==
    LET rest == Cardinality(AllAnswers) - Skipped
        limit == IF asked.mod.ask THEN 1 ELSE asked.mod.limit
    IN  IF rest <= 0 THEN 0 ELSE IF limit >= 0 /\ limit < rest THEN limit ELSE rest

-----------------------------------------------------------------------------
(* Properties *)

\* What facts_with_cursor_next returns is an answer of the query in the store as
\* it is, and it returns none twice, whatever levels the search goes back to.
Sound ==
    /\ \A n \in DOMAIN answers : IsAnswer(answers[n])
    /\ \A n, m \in DOMAIN answers : answers[n] = answers[m] => n = m

\* Once it has returned 0 without an error, it has returned as many answers as
\* limit and offset leave, and never returns more: going back to a level continues
\* where it was, a value of an earlier match never narrows a later one, and a
\* search that is over is not begun again.
Complete ==
    ended /\ c.error = 0 /\ ~starved => Len(answers) = PageSize

\* A sorted query returns the answers of its page in order: the n-th one has the
\* place offset + n among all the answers, up to equal texts.  When facts_sparql had no
\* memory for the name of the variable to sort by, nothing is sorted.
Ordered ==
    c.sort_var \in Var /\ c.error = 0 /\ ~starved =>
        \A n \in DOMAIN answers :
            LET place == Skipped + n
            IN  /\ Cardinality({b \in AllAnswers : Before(b, answers[n])}) < place
                /\ Cardinality({b \in AllAnswers : ~Before(answers[n], b)}) >= place

\* What doc/sparql.md:92 says: ORDER BY orders the bindings, if nothing reports an error.
OrderKept ==
    LET Rank(b) == IF b[asked.mod.sort_var] = NULL THEN 0 ELSE Names[b[asked.mod.sort_var]]
    IN  asked.mod.sort_var \in Var /\ ~asked.mod.sort_desc /\ c.error = 0 =>
            \A m, n \in DOMAIN answers : m < n => Rank(answers[m]) <= Rank(answers[n])

\* What doc/sparql.md:90 says: NOT excludes the matches of its pattern.  A query that
\* has ended without an error or a limit has given all the others.
NegationExcludes ==
    ended /\ c.error = 0 /\ asked.mod = NoModifier => ToSet(answers) = AllAnswers

\* The query's thread holds the reader lock once for the query and once for each
\* cursor that has not ended, and gives all of it back: without this a writer
\* waits for ever.
LocksReturned ==
    ~starved =>
        depth = c.locked + Cardinality({k \in DOMAIN c.l : c.l[k].spec_init = 1 /\ c.l[k].cursor.started # 2})

\* Every call of facts_with_cursor_next returns.
CallsReturn == pc \notin {"ready", "closed"} ~> pc = "ready"

-----------------------------------------------------------------------------
(* Why the locks are returned (QueryProofs.tla) *)

\* The fields of an s_facts_with_cursor, of its levels and of their cursors.
Fields == {"spec", "facts_count", "level", "l", "limit", "offset", "result_count", "is_sorted", "sort_var",
           "sort_desc", "has_matches", "sorted_matches", "sorted_pos", "error", "locked"}

IsCursor(x) == x = [f \in {"index", "var", "it", "end_key", "started"} |-> x[f]]

\* A level that is not begun has no cursor.
IsLevel(x) ==
    /\ x = [f \in {"spec", "spec_init", "cursor"} |-> x[f]]
    /\ IsCursor(x.cursor)
    /\ x.spec_init \in {0, 1}
    /\ x.spec_init = 0 => x.cursor.started = 2

\* The cursors that hold the reader lock.
Holding(l) == {k \in DOMAIN l : l[k].cursor.started # 2}

\* There is a level for each pattern until the search is over, and only the
\* levels down to the one at work are begun.
LevelsOK ==
    /\ c = [f \in Fields |-> c[f]]
    /\ c.l = [k \in DOMAIN c.l |-> c.l[k]]
    /\ Len(c.l) \in Nat /\ DOMAIN c.l = 1..Len(c.l)
    /\ c.facts_count \in Nat /\ c.level \in Nat /\ c.locked \in {0, 1}
    /\ c.facts_count # 0 => DOMAIN c.l = 1..c.facts_count /\ c.level <= c.facts_count
    /\ \A k \in DOMAIN c.l : IsLevel(c.l[k]) /\ (k > c.level + 1 => c.l[k].spec_init = 0)

\* The thread's locks are those of its cursors; a search that is over has none.
LockInv ==
    /\ LevelsOK
    /\ depth \in Int
    /\ pc = "closed" => c.locked = 0 /\ c.facts_count = 0
    /\ pc # "closed" => depth = c.locked + Cardinality(Holding(c.l))
    /\ ~starved => /\ c.facts_count = 0 => Holding(c.l) = {}
                   /\ pc = "closed" => depth = 0

-----------------------------------------------------------------------------
(* Why the answers are right (QueryProofs.tla) *)

\* The queries for which they are.  No positive triple has a variable twice, since
\* a level binds it to its last place only.  There is one negated triple at most,
\* and the sort puts it last, as long as no symbol is used 100000 times: each
\* positive one has a constant, and is needed to bind a variable of the negated one.
Searchable(triples) ==
    LET P(n) == Pattern(triples[n])
    IN  \A n \in DOMAIN triples :
            IF triples[n].negated
            THEN \A m \in DOMAIN triples \ {n} :
                    /\ ~triples[m].negated
                    /\ \E i \in Columns : P(m)[i] \notin Var
                    /\ \E v \in VarsOf(P(n)) : \A j \in DOMAIN triples \ {m, n} : v \notin VarsOf(P(j))
            ELSE \A i, j \in Columns : P(n)[i] \in Var /\ P(n)[i] = P(n)[j] => i = j

\* Up to here the sort knows a negated pattern from any positive one with a constant.
FewUses == \A a \in Symbols : usage(a) < 100000

\* The tries hold the facts.
StoreInv ==
    /\ facts \subseteq Facts /\ hexastore = [index \in DOMAIN Trie |-> facts]
    /\ interned \in [Symbols -> Nat]

\* The levels are the query's triples, a negated one last.
SpecInv ==
    /\ c.spec = [k \in 1..Len(c.spec) |-> c.spec[k]] /\ Len(c.spec) \in Nat
    /\ c.facts_count \in {0, Len(c.spec)}
    /\ c.locked = 1 => /\ {c.spec[k] : k \in 1..Len(c.spec)} = {Pattern(t) : t \in ToSet(asked.triples)}
                       /\ asked.triples \in Asked
    /\ c.facts_count # 0 => c.locked = 1
    /\ \A k \in 1..(Len(c.spec) - 1) : ~Negated(c.spec[k])

\* The search may go on: its levels and the bindings are its own.
Searching == c.facts_count # 0 /\ ~(c.is_sorted /\ c.has_matches)

\* The facts that a pattern describes.
Matching(pattern) == {f \in facts : \A n \in Columns : pattern[n] \in Var \union {f[n]}}

\* The variables that the levels before k bind, and their values.
BoundBefore(k) == UNION {VarsOf(c.spec[j]) : j \in {i \in 1..(k - 1) : ~Negated(c.spec[i])}}

Given(k) == [v \in Var |-> IF v \in BoundBefore(k) THEN bindings[v] ELSE NULL]

\* The pattern for which level k looks.
Narrowed(k) == Substituted(c.spec[k], Given(k))

\* Level k has found a fact.
Found(k) == c.l[k].spec_init = 1 /\ c.l[k].cursor.started = 1

\* The fact that pattern k describes under a binding of all its variables.
Row(b, k) == [n \in Columns |-> Value(b, c.spec[k][n])]

Key(b, k) == encode_triple_key(Row(b, k), c.l[k].cursor.index)

\* A level that is begun has the patterns that remain, with the values bound before
\* it, and the cursor of the first of them, which has not moved, or stands at the
\* fact of the bindings, or has ended because there is none.
LevelFits(k) ==
    LET opened == facts_with_spo(Narrowed(k))
        cursor == c.l[k].cursor
    IN  c.l[k].spec_init = 1 =>
            /\ c.l[k].spec = [m \in 1..(Len(c.spec) - k + 1) |-> Substituted(c.spec[k + m - 1], Given(k))]
            /\ cursor.index = opened.index /\ cursor.var = opened.var /\ cursor.end_key = opened.end_key
            /\ cursor.started \in {0, 1, 2}
            /\ cursor.started = 0 => cursor = opened
            /\ cursor.started = 1 => ~Negated(c.spec[k]) /\ Row(bindings, k) \in facts /\ cursor.it = Key(bindings, k)
            /\ cursor.started = 2 => Matching(Narrowed(k)) = {}

\* The levels above the one at work hold.
Passed(k) == c.l[k].spec_init = 1 /\ c.l[k].cursor.started = IF Negated(c.spec[k]) THEN 2 ELSE 1

\* The bindings are those of the facts found.
BindingsFit ==
    /\ bindings \in [Var -> Symbols \union {NULL}]
    /\ \A v \in Var : bindings[v] # NULL <=> \E k \in 1..c.facts_count : Found(k) /\ v \in VarsOf(c.spec[k])

\* Where the search is, at each place of the call.
PlaceFits ==
    /\ pc \notin {"level", "match", "collect"} => c.level \in {0, c.facts_count}
    /\ pc \in {"match", "collect"} => c.level = c.facts_count
    /\ pc # "level" /\ c.level = 0 => \A k \in 1..c.facts_count : c.l[k].spec_init = 0

SearchInv ==
    /\ pc \in {"level", "match"} => c.facts_count # 0
    /\ pc = "nomatch" => c.facts_count = 0
    /\ pc \in {"limit", "offset", "inner", "level", "match", "nomatch", "collect", "collected"} => ~c.is_sorted
    /\ pc = "page" => c.is_sorted /\ c.has_matches
    /\ Searching => /\ \A k \in 1..c.facts_count : LevelFits(k)
                    /\ \A k \in 1..c.level : Passed(k)
                    /\ BindingsFit
                    /\ PlaceFits

\* A binding has the values that the levels before k have now.
Agrees(b, k) == \A v \in BoundBefore(k) : b[v] = bindings[v]

\* The search has still to look below the values that it has now.
Below ==
    /\ pc \in {"level", "match"} \/ c.level < c.facts_count
    /\ c.level < c.facts_count => ~Found(c.level + 1)

\* The answers that the search has still to find: those beyond the fact at which a
\* level stands, and those below.
Ahead ==
    {b \in AllAnswers :
        /\ Searching
        /\ \/ \E k \in 1..c.facts_count : Found(k) /\ Agrees(b, k) /\ Key(b, k) > c.l[k].cursor.it
           \/ Below /\ Agrees(b, c.level + 1)}

-----------------------------------------------------------------------------
(* Why the pages are right (QueryProofs.tla) *)

\* The answers that the search has found.
Past == AllAnswers \ Ahead

Distinct(s) == \A n, m \in DOMAIN s : s[n] = s[m] => n = m

\* Answers that the search has found, none of them twice.
FoundOnce(s) == s \in Seq([Var -> Symbols \union {NULL}]) /\ ToSet(s) \subseteq Past /\ Distinct(s)

Allowed == IF asked.mod.ask THEN 1 ELSE asked.mod.limit

InCall == {"limit", "offset", "inner", "level", "match", "nomatch"}

\* The next match is one that the offset skips.
Passing == call.skip /\ pc \in {"inner", "level", "match", "nomatch"}

\* What has been returned or collected is found, and nothing twice.  Without its
\* lock a query has neither: the store may change.
AnswersFit ==
    /\ FoundOnce(answers) /\ FoundOnce(c.sorted_matches)
    /\ c.locked = 0 => answers = <<>> /\ c.sorted_matches = <<>> /\ c.facts_count = 0
    /\ c.locked = 0 /\ pc # "closed" => c.error # 0
    /\ pc = "closed" => ~ended /\ ~call.collecting
    /\ call = [f \in DOMAIN NoCall |-> call[f]]
    /\ call.collecting \in BOOLEAN /\ call.skip \in BOOLEAN
    /\ pc # "closed" => /\ asked.triples \in Asked /\ asked.mod \in Modifiers
                        /\ c.sort_var \in {asked.mod.sort_var, NoVar} /\ c.sort_desc = asked.mod.sort_desc

\* A query without order counts what it skips and returns.
CountsFit ==
    /\ ~c.is_sorted /\ ~c.has_matches /\ ~call.collecting /\ pc \in InCall \union {"ready"}
    /\ c.limit = Allowed /\ c.result_count = Len(answers) /\ c.offset \in 0..Skipped
    /\ c.offset > 0 \/ Passing => answers = <<>>
    /\ pc \in {"inner", "level", "match", "nomatch"} /\ ~call.skip => c.offset = 0
    /\ c.limit >= 0 => Len(answers) <= c.limit
    /\ pc \in InCall \ {"limit"} => c.limit < 0 \/ Len(answers) < c.limit
    /\ c.facts_count # 0 => Cardinality(Past) = Len(answers) + Skipped - c.offset - (IF Passing THEN 1 ELSE 0)
    /\ c.facts_count = 0 /\ c.locked = 1 /\ ~starved =>
          Len(answers) = IF Cardinality(AllAnswers) <= Skipped THEN 0 ELSE Cardinality(AllAnswers) - Skipped
    /\ ended /\ c.locked = 1 => c.facts_count = 0 \/ c.limit = Len(answers)

\* A sorted one collects all answers first.
CollectionFits ==
    /\ c.error = 0 /\ ~starved /\ c.locked = 1 =>
          Past = ToSet(c.sorted_matches) \union (IF pc = "collect" THEN {bindings} ELSE {})
    /\ pc = "collect" => c.facts_count # 0 /\ bindings \in Past \ ToSet(c.sorted_matches)
    /\ ~c.has_matches => /\ c.is_sorted /\ ~call.collecting /\ pc = "ready" /\ c.sorted_matches = <<>>
                         /\ c.limit = Allowed /\ c.offset = Skipped
    /\ call.collecting => /\ c.has_matches /\ ~c.is_sorted /\ pc \in InCall \union {"collect", "collected"}
                          /\ c.limit = -1 /\ c.offset = 0 /\ call.limit = Allowed /\ call.offset = Skipped
                          /\ ~Passing
                          /\ (pc = "collected" /\ c.error = 0 => c.facts_count = 0)
    /\ ~(c.has_matches /\ ~call.collecting) => /\ answers = <<>> /\ c.sorted_pos = 0
                                              /\ (c.error = 0 => ~ended)

\* The sorted matches are in order.
InOrder(s) == \A m, n \in DOMAIN s : m < n => ~Before(s[n], s[m])

\* Then it returns them from the offset on.
PageFits ==
    LET returned == Len(answers)
        count == Len(c.sorted_matches)
    IN  /\ c.is_sorted /\ pc \in {"ready", "page"}
        /\ c.limit = Allowed /\ c.result_count = returned /\ c.offset \in Nat
        /\ c.limit >= 0 => returned <= c.limit
        /\ \A n \in 1..returned : Skipped + n <= count /\ answers[n] = c.sorted_matches[Skipped + n]
        /\ c.error = 0 /\ c.sort_var \in Var => InOrder(c.sorted_matches)
        /\ \/ c.sorted_pos = 0 /\ c.offset = Skipped /\ returned = 0 /\ (ended => c.error # 0)
           \/ /\ c.offset = 0 /\ c.sorted_pos = Skipped + returned /\ c.sorted_pos <= count
              /\ (ended => c.error # 0 \/ c.limit = returned \/ c.sorted_pos = count)
           \/ c.sorted_pos = count /\ count <= Skipped /\ returned = 0

PageInv ==
    /\ AnswersFit
    /\ pc # "closed" /\ asked.mod.sort_var = NoVar => CountsFit
    /\ pc # "closed" /\ asked.mod.sort_var # NoVar => /\ CollectionFits
                                                      /\ (c.has_matches /\ ~call.collecting => PageFits)

=============================================================================
