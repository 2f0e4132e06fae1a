# Verification of the datalog library

TLA+ models of the fact database in `src/`: its transactions and locks, its
rollback journal and change log, its hash table, its Linda tuple space, its
rules and their rewriting, its join, its queries and its reclamation of memory. Each module is checked by TLC on small
instances; most of the safety properties are also proved with TLAPS for all
instances.

- [Inventory](#inventory): the parts of the system and what makes them hard
- [Modules](#modules): which module stands for which code
- [Runs](#runs): what TLC checks, within which bounds
- [Disagreements](#disagreements): where the code does not do what it says
- [Proofs](#proofs): what is proved, and along which argument
- [Not modelled](#not-modelled), [Plan](#plan)

## Inventory

| Component | State | Operations | Used by |
|---|---|---|---|
| Transaction manager, `lib/transaction.c` | rwlock, owner, level, journal, per-thread reader slots | begin, commit, rollback, acquire/release writer and reader | every operation of the store |
| Fact store, `lib/facts.c` | set of facts with asserted and derived support, three orders of them | add, remove, set_prop, reset, transactions, cursors, attach program | applications, Linda, evaluation |
| Symbol table, `lib/intern.c` | strings with usage counts | intern, unintern | store, journal |
| Change log, `lib/io.c` | a file of add and remove lines | write a line, replay | store, rollback |
| Open-addressing set, `lib/set.c` | slots, count, collisions | add, get, remove, resize | store, symbol table, Linda |
| Linda tuple space, `lib/linda.c` | a database, counts above one, per-partition mutexes and condition variables, worker list | out, in, rd, inp, rdp, eval, close, delete | applications |
| Rules, `lib/rule.c` | rules, strata | parse, clone, stratify | evaluation |
| Evaluation, `lib/eval.c` | scratch databases | full and incremental evaluation, invalidation | attach program, commit listener |
| Justifications, `lib/justification.c` | two graphs, published and staged | record, clone, remove support, publish, discard | evaluation, commit, rollback |
| Hexastore, `lib/hexastore.c` | three radix trees | insert, remove, compact | store, cursors |
| Leapfrog triejoin, `lib/lftj.c` | an iterator per pattern, levels opened per variable | open, up, seek, next, solve; naive solver over several databases | queries; the evaluation uses the naive solver |
| Magic sets, `lib/magic.c` | a queue of predicates with their bound arguments | rewrite a program for a query | applications |
| Userspace RCU, `include/urcu.h` | epoch, a slot per reader, retired blocks | register, read lock/unlock, retire, gc, synchronize | commits run `urcu_gc`; the radix trees could retire nodes through it, but `rax->urcu` is never set |
| Arena, `lib/arena.c` | free lists | allocate, free | store |
| Queries: `facts_with` in `lib/facts.c`, `lib/spec.c`, `lib/binding.c`, `lib/sparql.c` | a level with a cursor per pattern, bindings, limit, offset, collected matches | open, next, destroy | applications, shell |
| Random identifiers, shell | none that matters | | |

How they meet. A thread writes to the store under the rwlock, either for one
operation or for a transaction. Every change appends a journal entry (which
holds the symbols' usage counts), changes the support of one fact, and writes a
log line. The outer commit first runs the internal listener, which is the
reactive evaluation when a program is attached, then the application's; both may
write. Then it publishes the staged justifications, summarises the journal,
gives the lock back, and only then calls observers. Linda is such an observer:
it wakes the sleepers of the partitions that changed. A rollback undoes the
journal backwards through the same store operations.

What is hard, and what makes each part correct:

- *Transactions*: nesting decides through a `has_lock` result who unlocks, a
  nested rollback ends the outer transaction, and the owner is written in other
  critical sections than the rwlock. Correct when the recorded owner has the
  lock, a transaction keeps it, and nobody deadlocks.
- *Store*: a fact has two kinds of support and changes several times in one
  transaction. Correct when rollback restores it, the log can be replayed at
  any moment, symbols are counted exactly, observers hear of every change and
  readers see committed contents only.
- *Linda*: condition variables, two kinds of locks taken in both orders,
  timeouts, and a `delete` that waits for everybody. Correct when no tuple is lost
  or taken twice, no wake-up is lost, no lock cycle forms, closing frees every
  blocked call and nothing uses a freed space.
- *Set*: deletion moves items backwards across the end of the array, and a
  rehash may fail or recurse. Correct when lookup finds exactly the members.
- *Rules and evaluation*: strata, recursion, negation and several proofs of one
  fact, kept up to date by every commit. Correct when the store is the
  stratified model of the asserted facts and the graph the set of its rule
  applications.
- *Leapfrog triejoin*: a recursion over the variables in which all levels of an
  iterator share one position, with seeks that jump over rows and failures in
  the middle of opening several columns. Correct when it counts each answer
  once, and ends.
- *Queries*: a nested loop that is left and entered again at every answer, whose
  levels keep copies of the patterns and share the variables' values; patterns are
  reordered, some are negated, and each cursor holds a lock. Correct when the calls
  return each answer once, in order and on the right page, always return, and give
  every lock back.
- *Magic sets*: each predicate is rewritten once for each way its arguments are
  bound, and asks for others as it goes. Correct when the rewritten program gives
  the original's answers to the goal.
- *RCU*: readers announce themselves with plain stores while the writer looks
  round. Correct when nothing is freed that a reader may reach, and the writer's
  wait ends.

The single hazards, with their lines and the properties that would catch them,
are listed in `PROJECT.json`.

## Modules

| Module | Models | EXTENDS / INSTANCE |
|---|---|---|
| `TxLock` | the lock that the protocol promises: one writer with a depth, or readers | |
| `Transaction` | `transaction.c`, every wait and every state_mutex section a step | refines `TxLock` |
| `AtomicStore` | what a transactional store promises to readers | |
| `FactsTx` | `facts.c` with journal, usage counts, log, listeners, observers | extends `TxLock`, refines `AtomicStore` |
| `Linda` | `linda.c`, with removals that fail inside `linda_in` | |
| `HashSet` | `set.c`, one loop iteration a step | |
| `Stratify` | `datalog_program_stratify`, one dependency a step | |
| `Reactive` | `eval.c`, `justification.c`, `facts_attach_program`, one pass a step | uses the result of `Stratify` |
| `Lftj` | `facts_lftj_solve` and its iterators, one column, seek or return a step | |
| `Hexastore` | `hexastore.c`, operators on three sets of facts | |
| `Query` | `facts_sparql`, `facts_with_checked`, `facts_with_cursor_next`, `..._destroy` and the cursors below, one pass of a loop a step | extends `Hexastore` |
| `Magic` | `magic.c`, one rule a step | |
| `Urcu` | `urcu.h`, one load or store a step | |
| `FactsTxProofs`, `HashSetProofs`, `StratifyProofs`, `ReactiveProofs`, `LindaProofs`, `LftjProofs`, `QueryProofs` | theorems | extend the module named |
| `SynchronizationProofs` | theorems | extends `Transaction` and `Urcu` |
| `MC...` | constants for TLC | extend the module named |

Operators named `...` in a comment beginning "Mutation:" are plausible mistakes
in the definition that follows them; each property fails when one of them takes
its place (`PROJECT.json`, "mutants").

### TxLock and Transaction

`rwWriter` and `rwReaders` are the pthread rwlock, `owner` and `level` the fields
of `s_transaction` (`NoThread` is `owner_valid = 0`), `slot` a thread's entry in
`tx_reader_slots`, `frames` the `has_lock` results a thread has on its stack, and
`pc` where it is inside a call. `transaction_begin` is `BeginNested`, or `Begin`,
`BeginLock`, `BeginOwn`; likewise `Acquire...`, `Release...`, `Read...`. Commit is
`Commit`, during which listeners may call anything, and `CommitEnd`; `GiveUp`
is what rollback and a failed commit share. The lock is granted at any time
that its state permits: no policy of the platform's rwlock is assumed. A caller
that starts to write while it reads would wait for itself; the API forbids it
(`doc/concurrency.md`), and `MayWrite` takes it as the caller's contract.

`TxLock` has only `holder`, `depth` and `readers`; `ImplementsTxLock` maps them
to `owner`, `level` and `rwReaders`. That a thread takes the rwlock before it
becomes the owner is a stutter.

### AtomicStore and FactsTx

A fact's `store` value is the set of its origins; the empty set is absence. The
writer's operation under way is `todo`; each step adds or removes one fact
(`AddFact`, `RemoveFact`), with its journal entry, usage counts and log line, as
the code does before anything can fail. An allocation that fails is
`OutOfMemory`, or a fact added to `lost` in `UndoNext`. `logged` is what
`read_facts_log` would rebuild from the lines so far, and `unmatched` the removal
lines that would make it fail. `snap`, `lost` and `stale` are history.
`ImplementsAtomicStore` maps the published contents to the store of the last
commit: changes are private to the writer until it lets go of the lock.

### Linda

A thread's `call` and `pc` follow the public functions through operation_begin,
the partition mutex, the look at the database, the write transaction, the
broadcasts and operation_end. `count` is the overlay of multiplicities above
one. `balance` is history: what successful calls put in and took out. A pattern
is the set of tuples that it matches and its condition variable, one of
`CondPartitions` (`LINDA_COND_PARTITIONS`); number 0 is that of the patterns
without a subject. Waking,
spurious wake-ups and timeouts are steps; a sleeper may be overtaken anywhere.
A direct commit of the application to the database (`Direct`) broadcasts through
the commit observer. `WorkerEnd` is a thread of `linda_eval` that returns.
`linda_consume_one` may also fail, which `linda_in_wait` does not notice: `KeepOne` commits
and returns the tuple, which stays, and `kept` is the history of how often that has
happened, at most `MaxKept` times. `Conservation` therefore says that the occurrences in
the space are those put in and not taken, and those a failed removal left behind;
`InConsumes`, without the latter, is what `linda.h:60` and `:69` promise and
`LindaRemoveFails.cfg` refutes.

### HashSet

`items`, `max`, `count`, `collisions` are the fields; `frames` the calls of
`set_resize_checked` on the stack, since an insertion that rehashes may grow the
table again; `hole` and `scan` the indices of the removal loop. `members` is the
set that the table stands for.

### Stratify

The nested loops over rules and body literals visit the dependencies of heads on
literals in a fixed order, so a program is a sequence of dependencies. `Raise` and
`Keep` look at one, `Again` begins another pass, `Accept` and `Refuse` answer.

### Reactive

Rules are ground: a program is the set of the instances of its rules, with
constant predicates, and an instance stands for the justification recorded for
it. What the joins find is a set comprehension (the join algorithm is
`lftj.c`'s matter). One pass over the rules of a stratum is one step, because its
results go to a scratch database and are merged afterwards. `phase` is the loop
the listener is in: invalidation, seed and rounds of the full evaluation, or
deletion and insertion with their seeds and rounds. `old`, `delta`, `plus` and
`minus` are the scratch databases of the same names. The order of invalidation
events, which in the code follows the order of the graph's array, is left open.
`Fail` is memory running out anywhere in the listener or in attach. The thread
that attaches has one more step, `LateCommit`, after it has released the lock.
Detaching is attaching the empty program. Transactions that only change support
reach the listener with no event, which leaves everything as it was.

`Strata` is the lowest stratification, which is what `Stratify` computes
(theorem `LowestHolds`). The reference that results are compared with does not
mention strata: `Sound` says that the store has no fact without a well-founded
proof, negation being judged in the store, and `Complete` that it is closed under the
rules; together they say that the store is the stable, hence the stratified,
model.

### Lftj

A symbol is its id, a trie the set of the facts' rows in its column order, and a radix
tree iterator a row of it, or `EOF`; what `raxSeek` and `raxNext` do is given by
the lexicographic order of the rows. `Start` plans the search: `variables` in the
order of their first mention and `cols`, the trie chosen for each pattern. The recursion
is `stack`, a frame per variable with `opened` (`opened_levels`) and `active`
(`active_iters`). A frame opens columns (`OpenKnown` and `SeekKnown` for constants
and bound variables, `OpenActive` for its own variable), searches (`Search`,
`Leap`, `Match`), and after each return moves the first iterator on (`Advance`) or
ends (`Exhausted`). `Backtrack` is the label `backtrack_temp`. The table of
symbols may hold more than the facts use, since databases can share it.
`OutOfMemory` fails the call; `Starve` is a frame that finds no memory.

`Answers` is the reference: the assignments that make every pattern a fact.
`Exact` compares the count with it for the queries that fit their tries (`Fits`):
known terms first, then variables in order and each once in a pattern. A constant may
stand after a first variable, as in `?a friend ?b`, if every value of the variable has a
row with it (`Everywhere`), as in the queries and databases of `check_triejoin.c`. The tries of the
other queries have columns that are skipped or that leak, see below.
The counts of the model for all 8589 calls of the run, fitting or not, were compared
with those of the compiled library; they agree.

### Hexastore and Query

A symbol is its id, and a key of a trie the number that its three ids spell, so
that the order of the tries is that of numbers. A cursor (`facts_with_spo`) is a
trie, a position and an end key; `started` is the field of that name, with 2 for a
cursor that has ended and has given its lock back. `c` is the `s_facts_with_cursor`:
`l` its levels, each with the patterns that remain (`spec`), `spec_init` and a
cursor. `facts_with_cursor_next` is `CallNext` and then, according to `pc`: `Limit`,
`Offset`, the search (`Resume` at the last level, `Enter`, `BeginLevel`, `Positive`,
`NegatedLevel`, `Reached`), `Match` or `NoMatch`, and for a sorted query `Collect`,
`Collected` (the heap sort, whose loops are functions of the number of passes done, `Sift` a pass
of `sift_down_matches`) and `Page`. `bindings` are the caller's variables.
`depth` counts how often the query's thread holds the reader lock. A writer is
another thread, which runs when it is zero: `facts_insert_fact_copy`, with the
failure of each of the three tries and of the hash index, `facts_remove_found`, and
`Compact`. The cost of a pattern in `facts_spec_sort` is a pair `<<n, m>>` that stands for
100000^n * m / 1000: the unbound places, each a factor of 100000 in the code, and the
product of the usages in tenths. `Cheaper` compares two of them as the code's doubles compare,
so a negated pattern, which costs 1e15 or 1, comes before a positive one that costs more.
`parse_query` interns each term of a query and releases none: `interned` counts those uses,
`facts_intern` is another query's terms, and the constant `Interned` has the counts that the model
visits. `Open` is what follows it, up to the cursor; `SortVar` is the unchecked copy of the
variable's name, which may be NULL.
The allocations that may fail are in `Starving`: a trie's insertion, the hash index, the
cursor of the query, the copy of the sort variable, a collected match and the bindings saved
at a negated level. Those inside `parse_query`, which make the whole query fail or are not checked, are not
modelled.

`IsAnswer` is the reference: every positive triple under the binding is a fact of the
hash index, and no fact fits a negated one. A query's modifiers say which page of
`AllAnswers` is due. `answers`, `ended` and `asked` are history.

### Magic

The names that `format_name` builds are triples of prefix, predicate and adornment; a
real name that happens to look like `p_bf` or `magic_p_bf` is outside the model. `queue`,
`processed`, `r` and `program` are the locals of `datalog_program_magic_transform`;
`TransformRule` is a call of `transform_rule`, whose two loops over the body `Ask` takes
together; nothing runs between its parts and its failure frees everything (`Fails`). The reference is a bottom-up evaluation
(`Model`) of both programs: `Exact` compares, for each predicate and adornment in the
queue, what the rewritten program derives with those facts of the original that its
magic facts ask for. `Rounds` says after how many rounds of it to look: all of them, `Nat`,
for the least model, which the proof is about, or a number that is enough, for TLC.

### Urcu

A reader is in one of three places: outside, between the load of the epoch and its
stores (`announce`), or inside. Its two stores and the one that ends the section go to
`buffer` and reach memory later (`Drain`): a release store does not wait, and on x86 as
on ARM a later load may overtake it. Taking the registry mutex empties the buffer. The
writer replaces a block (`Publish`), retires it (`Retire`, or `RetireSynchronously`
when the queue cannot grow) and collects: `LoadActive` and `GcLoadEpoch` look at one
slot, `Reclaim` frees. `urcu_synchronize` uses the same look and `SyncLoadEpoch`. The
pointer, `held` and the blocks belong to the caller; the way `deps/rax` would use them
is the guide. `seen` is history: the announcement was in memory when the reader
followed the pointer.

## Runs

All runs check deadlock except those of functions that end (`stratify`, `lftj`,
`magic`), `urcu`, which ends with `urcu_destroy`, and `query`, where a lock that was
lost for want of memory ends what can happen.
The type invariants are not among the regular properties: those of `Transaction`,
`FactsTx`, `Linda` and `Urcu` (`UrcuTypeOK`) are parts of theorems, and the others can be added to a
configuration as `TypeOK`.

| Run | Instance | Checked |
|---|---|---|
| `transaction` | 4 threads, 3 nested levels, 2 nested operations, 3 nested reads; threads symmetric | owner, lock kept, no deadlock, refinement of `TxLock` |
| `facts_tx` | 2 threads, 2 facts that share symbols, one of them using a symbol twice; journals up to 4 | rollback, log, usage counts, summaries, set_prop, refinement of `AtomicStore` |
| `linda` | 3 clients, 2 tuples in two partitions, named and variable subjects, one tuple also derived, one put directly; counts to 3; one removal that fails | conservation, wake-ups, lock cycles |
| `linda_life` | 2 clients, a worker, close, delete, guards, eval; no removal that fails | no use after free, and under fairness: calls of a closed space and delete return |
| `hash_set` | 5 keys that collide before and after growth and wrap round the end; initial sizes 2 to 7, at most 14 slots | lookup, counters, a free slot |
| `stratify` | all programs of up to 3 dependencies over 3 predicates, 16 rings of 4 | right answers, lowest strata |
| `reactive` | 5 programs (closure, diamond, guarded, cycle, three strata) attached over any of the 32 sets of stored facts, replaced and detached; under the first three, commits of up to 2 additions or 2 removals; memory running out anywhere | model, graph, termination, derived support is justified |
| `lftj` | 65 single patterns over the 37 databases of up to 2 facts with 2 symbols; 9 joins of 2 or 3 patterns, and 3 queries with a variable bound, over the 128 subsets of 7 facts | exact count, termination |
| `query` | 11 queries of up to 3 triples, at most one negated; 7 sets of modifiers (limit, offset, sort up and down, ASK, limit 0, an unknown sort variable); the 32 stores of 5 facts with 5 symbols, and a symbol that only queries use; 0, 3 or 9 uses of a symbol by queries; each allocation of `Starving` failing | answers sound and complete, order and pages, locks, and under fairness: every call returns |
| `magic` | 9 programs (linear, left and double recursion, mutual recursion, negation, constants in rules), 5 goals of all adornments, the 16 graphs of 4 edges; 16 rounds of the reference evaluation, in which all of them reach their fixed point | answers exact, rules safe, and under fairness: an end |
| `urcu` | 2 readers, 2 slots, 3 blocks, nesting 2, one registration each, 2 stores on the way | nothing freed under a visible reader, and under fairness: the wait ends |

Why the bounds are enough to meet the interesting cases. Four threads give a
writer, a reader, a waiting writer and one between two sections at once; levels
and frames of two already mix nested and outer calls. A journal of four holds a
fact that is added, changed, removed and added again. Three clients are a sleeper, a
thread that takes the tuple first and one that puts it. Five keys fill a table of
seven beyond half, so it grows in the middle of a run of collisions. Three
predicates suffice for a negative cycle through a positive edge, and for an answer that
needs the last pass allowed. The programs of the reactive runs have a conclusion
with two proofs, a rule with two recursive literals, a cycle of facts and a
negation above a negation. The seven facts of the joins give each side of an
intersection values that the other lacks, before, between and after the common
ones. A query of three patterns has a level that is both entered from above and returned
to from below, and five facts give it several answers, none, or answers that end in the
middle of a range. With three blocks two are in the queue at once, one older than a
reader and one younger. Each run's mutants show that its cases do occur.

`Maintained` is the set of programs under which `reactive` lets the application
change facts. It holds the programs for which the incremental maintenance is
right: no cycle of facts, no negation of derived facts, one proof for a
conclusion of a rule with negation. Outside it the disagreements below begin;
what still holds there is the theorem `JustifiedHolds`. Likewise
`hash_set` starts with two slots or more, and the tuple that the application
commits directly in `linda` has no derived support.

Fairness. `linda_life`: a thread inside a call is scheduled and gets a free
mutex eventually (the code never holds one while it waits for the application),
functions passed to `linda_eval` return, and opened guards are closed; nothing is
assumed about tuples arriving. `reactive`, `lftj`: a thread inside the
function goes on; likewise `query` (a call that has begun) and `magic`, where running out
of memory is not assumed. `urcu`: the writer's loop runs on, stores reach memory, and a
reader leaves its outermost section, again and again enabled to, since nested sections
come and go. No other run assumes fairness. Writers may starve behind readers, which `doc/concurrency.md` accepts.

## Disagreements

Eleven have a configuration with which TLC finds a counterexample. The first is the run
`negated_twice`, for which `PROJECT.json` quotes the sentences that it contradicts; the
others are kept to be run by hand, each in a second or two.

| Configuration, module | Property | What happens |
|---|---|---|
| `NegatedTwice.cfg`, `MCQuery` | `CallsReturn` | `facts.c:1443`: with two negated triples the search goes round in a circle inside one call of `facts_with_cursor_next`, holding the reader lock. The negated level that held keeps its ended cursor, which counts as holding again |
| `NegatedFirst.cfg`, `MCQuery` | `NegationExcludes` | `facts.c:1941`: a negated pattern costs 1e15 at most, so it is sorted before `?x p ?y` when `p` is used more than 100000 times, and excludes everything. `doc/sparql.md:90` says that negation excludes the matching subgraphs |
| `SortVarLost.cfg`, `MCQuery` | `OrderKept` | `sparql.c:613` and `:714`: without memory for the name of the variable the query is sorted by none, and returns its matches unsorted and without an error. `doc/sparql.md:92`: "Order bindings alphabetically" |
| `LindaRemoveFails.cfg`, `MCLinda` | `InConsumes` | `linda.c:636`: `linda_in` tests for 0 and returns a tuple whose removal failed with -1. `linda.h:69`: "Blocking read and consume of a matching tuple" |
| `NegatedDerived.cfg`, `MCReactive` | `Sound` | `eval.c:637`: a conclusion survives the derivation of a fact that it negates. The deletion phase looks for negated literals among the inserted facts before anything is derived; `check_eval.c:195` expects the conclusion to go |
| `LateGraph.cfg`, `MCReactive` | `GraphExact` | `facts.c:1769`: attach publishes another writer's staged justifications, because it calls `facts_justifications_commit` again after it has released the lock; `facts.h:225` says "Atomically" |
| `CycleKept.cfg`, `MCReactive` | `Sound` | `eval.c:1123`: facts that support each other survive the retraction of the fact that they were derived from (`p1 :- e1`, `p1 :- p2`, `p2 :- p1`). `README.md:9` promises "provenance-aware retraction" |
| `MixedCommit.cfg`, `MCReactive` | `Complete` | `eval.c:367`: a commit that also removes something misses a join with a fact derived earlier (`q :- p, k`, with `p` in the store and `k` new). `facts.h:35`: "Reactive semi-naive Datalog evaluation and truth maintenance" |
| `LftjChain.cfg`, `MCLftj` | `ExactJoin` | `lftj.c:322`: a level that is opened and then found to lack its constant stays open, and the join loses the answers behind a subject that lacks the predicate. `check_triejoin.c:127` expects such chains to be found |
| `UrcuDefer.cfg`, `MCUrcu` | `DeferredToAllReaders` | `urcu.h:119` "until all current readers exit": a reader whose announcement is still in the store buffer when it follows the pointer is not seen by the writer. A full barrier after `urcu.h:99` (and one before the scan) would close the window |
| `SetProp.cfg`, `MCFactsTx` | `PropAlone` | `facts.c:1525`: `facts_set_prop` leaves values that have derived support, though `doc/facts.md:356` says that it removes all others |

All but `LindaRemoveFails.cfg`, `SortVarLost.cfg`, `LateGraph.cfg` and `UrcuDefer.cfg`, which need a
failing allocation or a race, were also seen with the compiled library. There, two
negated patterns of which the order of patterns puts one between two positive ones repeat
answers for ever.

The models show more, when their constants or properties are widened; each
restriction named above or in a property's comment excludes one of these:

- `facts.c:1794`: a rollback that cannot allocate loses a removed fact and reports
  success. `RollbackRestores` exempts facts that were lost this way.
- `transaction.c:142`: a commit that changes only support calls no observer, though
  `facts.h:217` says "after a changed outer transaction". So a direct commit of a
  tuple that is also derived wakes no `linda_rd`.
- `facts.c:1525`, `SetProp.cfg`: `PropReplaced` speaks of asserted values.
- `facts.c:1443` and `:1941`, the run `negated_twice` and `NegatedFirst.cfg`: `query` has one
  negated triple a query, with a variable that the last positive pattern binds, and symbols
  that are used a few times.
- `sparql.c:613`, `SortVarLost.cfg`: `Ordered` speaks of cursors that have the variable.
- `linda.c:636`, `LindaRemoveFails.cfg`: `Conservation` counts what is kept.
- `linda.c:461`: `linda_out` inside a transaction of the caller signals with the
  write lock held, and can wait in a circle with a `linda_in`. The clients of
  `Linda` call it outside transactions.
- `set.c:91`: a table created with one slot fills up; lookups then do not end.
- `eval.c:1123`, `CycleKept.cfg`: `Maintained` has no program with a cycle of facts.
- `eval.c:367`, beside `MixedCommit.cfg`: asserted
  facts of a predicate that rules derive are invisible to recursive rules when a
  program is attached. `Assertable` has no fact of a derived predicate, and no
  `Maintained` program is run with commits that both add and remove.
- `eval.c:679`: with `h :- e, NOT k` and `h :- f`, a commit that adds `e` and `k`
  deletes `h` although `f` is there.
- `eval.c:776`: the deletion loop counts facts that are gone already as new, and goes
  round a cycle of facts for ever.
- `lftj.c:322`, `LftjChain.cfg`: `Fits` allows a constant behind a variable only where
  it is always found. Where no column order fits the variables (`lftj.c:516`), or a variable
  occurs twice in a pattern, columns are not compared and answers are made up:
  `(?x p ?y), (?x ?z ?y)`. A query without variables has one solution whatever the facts
  are (`lftj.c:285`), and a bound value that no symbol stands for counts as unbound.
- `facts.c:1418`: when a negated level finds no memory for the saved bindings the query ends
  without an error, and the locks of the cursors above are lost (`facts_count` is 0, so
  destroy skips them). `starved` excludes what follows.
- `facts.c:927`: a variable that occurs twice in one pattern, `?x p ?x`, is not compared: each
  fact of `p` is an answer, with the later column. `MCQuery` has such a pattern only
  negated, with the variable bound.
- `facts.c:1245`: a sorted query that failed while it collected returns, when it is called
  again, the matches it had, unsorted. The properties speak of queries without an error.
- `sparql.c:871`: `INSERT DATA` skips a triple that is in the store already, even if it is
  only derived; it is then not asserted, and goes when its derivation goes.
- `magic.c:18`: a predicate with both rules and stored facts loses the stored ones for the
  rewritten program, which renames it. `Inputs` keeps them apart. A negated subgoal that
  stands before the positive one that binds its variable makes the magic rules before it
  unsafe; `WellFormed` puts the positive one first. A goal on a stored predicate gives an empty program, not the NULL that `magic.h`
  announces.
- `urcu.h:339`: a reader that unregisters, or whose slot another thread takes, between the
  load of its flag and of its epoch shows an epoch of 0 or 1, and sends the writer round
  once more. With threads that register again and again the wait need not end;
  `MaxRegistrations` bounds that.
- `lftj.c:298`: a frame without memory returns 0, so the count is too small and no error
  is reported. `Exact` asks only for "at most" then.

## Proofs

The theorems hold for every value of the constants that satisfies the `ASSUME`s of
the module concerned, which type the constants. Where a theorem has a hypothesis of its
own it is named below. Each inductive invariant, with its parts, is
defined at the end of the component's module, or in the module of its proofs, and was
checked by TLC as an invariant before it was proved.

- `SynchronizationProofs`, of `Transaction`: any threads and bounds. `IInv` adds to the property that
  the owner has the lock: who has the lock is the owner or on the way in or out;
  reader slots are the read locks; a thread inside a call has nothing open; and the
  `has_lock` results on a thread's stack say "took it" exactly for the first
  operation outside a transaction. The last is what makes release_writer safe and
  is not visible in any single function. From it follow `TypeOK`,
  `OwnerHoldsLock`, `NoDeadlock`, `TransactionKeepsLock` and the refinement.
- `SynchronizationProofs`, of `Urcu`: any readers, slots, blocks, nesting and length of the
  store buffer. `UrcuInv`: a reader
  whose announcement was seen has it in memory until it leaves: its slot is active with its
  epoch, its block is retired with that epoch or a later one or not at all, and a scan that has
  passed its slot has a bound of at most that epoch (`ReadersHoldBack`); the waiting scan does
  not pass it. This needs that a slot belongs to one thread and that no epoch, in memory or under way, is
  beyond the current one (`SlotsFit`), that a reader inside whose stores are in memory is
  announced (`AnnouncementsFit`), and that retired blocks are older than the current one
  (`BlocksFit`).
- `FactsTxProofs`, any facts, threads and journals. `RollbackRestores` is not
  inductive: the journal must be a chain. `IInv` says for each fact that its last entry
  describes it as it is, each earlier one as the next found it, and the first as
  the transaction found it; facts without an entry are unchanged. `LogReplays` and the
  refinement of `AtomicStore` follow with it. `Recording` adds what the other properties
  need: a fact whose presence has changed has a journal entry that says so
  (`ChangeRecorded`, for `ChangeAnnounced`); while `facts_set_prop` is under way the values
  still asserted are the new one and those on its list (`PropUnderWay`, for
  `PropReplaced`); and the stored facts are finitely many (`FiniteStore`), although `Facts`
  need not be, which is what lets `RefsExact` count them.
- `HashSetProofs`, any keys, hash function and sizes. Lookup is right because no
  slot is free between an item's bucket and the item. During a removal the hole may break
  this, but only for items that the scan has not come to; during a rehash
  the old table keeps it, and every key is in the new table, still to be moved, or
  waits on the stack. `LookupCorrect` needs no assumption on the hash. `CountsHold`: the
  counters are the cardinalities of the slots in use and of those in use outside their
  bucket, also between the two writes of a shift. `LookupEndsHolds`: at most half of the
  slots, rounded up, are in use, and a table being filled by a rehash has room for the
  items still to come (`RoomLeft`). It assumes `1 \notin Sizes`: a table of one slot does
  fill up (`set.c:91`, above).
- `StratifyProofs`, any predicates and programs. `PassSoFar`: while a pass has
  raised nothing, the dependencies it has seen hold. `Lowest`: no stratification is
  below the current strata; a step only raises a head to what its literal forces
  in every stratification. `RefusedRightlyHolds` says that the number of passes is
  enough (`rule.c:682`). `Settling`: if the program has a stratification it has a lowest one,
  and every pass settles at least one more predicate at its lowest stratum. Otherwise the
  predicates that are not settled would depend on settled ones by less than they
  need, and all of them could be lowered by one, so the stratification was not lowest.
  `MagicSafeHolds` is about `Magic`, for any input that is `WellFormed` (checked by TLC as an
  assumption of its run): rules that `datalog_rule_validate` accepts and in which a
  negated subgoal comes after the positive ones that bind its variables. The program
  built so far is always a sequence of safe rules (`MagicInv`): the variables that
  count as bound at a subgoal are those of the magic support and of the positive subgoals before
  it, and a prefix of the body with the support binds all of them (`PrefixFacts`).
  `MagicExactHolds` says that the rewritten program derives exactly what its magic facts ask for,
  the answers of the goal included. It assumes `Separate`: a predicate with rules has no
  stored facts (`magic.c:18`, above) and is not negated, as the reference evaluation has no
  strata; `MCMagic` has TLC evaluate it for its inputs. And it is about least models: `Rounds = Nat`.
  The inductive invariant, `RewritingInv`, says of every rule of the rewritten program where it
  comes from (`Origin`), and of every entry and rule that the loop is past that its rewritten
  rule is there and its subgoals are queued and have magic rules (`Rewritten`); at the end that is all
  of them. `AskingSound` and `AskingComplete` then go along the rounds of one model, and take
  what the other one has from its being closed (`ModelLeast`, `ModelClosed`). In
  `AskingComplete` the subgoals of a rule are taken from left to right: those before one
  hold, so its magic rule has asked for it, and the round before has it under its adornment.
- `ReactiveProofs`. `JustifiedHolds` is for any program and transaction: while the listener
  works, derived support has justifications in the staged graph, and what a rollback would
  bring back has them in the published one (`Staged`). This needs that attach has
  returned before another writer begins; `LateGraph.cfg` shows why.
  `SoundHolds`, `CompleteHolds` and `GraphExactHolds` say that derived facts and graph are
  exactly right, under `Maintainable`: finitely many facts; programs, with any recursion and
  negation, that have a stratification, as attach requires; no assertion of facts of
  predicates that rules derive; facts changed only under programs that are positive and
  have no cycle of facts, by transactions of any size that either add or remove; attach not
  racing with another writer. Each of these restrictions excludes a disagreement named above
  (`eval.c:367`, `eval.c:637`, `eval.c:1123`, `facts.c:1769`); `MCReactive` has TLC evaluate
  them for the programs of the run that they concern (`PositiveKept`), and its
  `Guarded` program, a negation of stored facts, is outside them. The invariant
  `Maintaining` says how far the listener has come: between commits derived facts and graph
  are the model (`IsModel`); while attach evaluates, the strata done are closed and
  supported and in the stratum at work only rules with a fact of the last round may be
  missing (`Attaching`); during invalidation the justifications left are those whose supports
  are left, but for the events still to come (`Invalidating`); while facts are inserted only
  justifications with a new support are missing (`Inserting`). That invalidation leaves
  nothing unfounded is where the absence of cycles is needed.
- `LindaProofs`, any threads, tuples, patterns and partitions. `IInv` relates each thread to
  the rest: its call and place (`CallsFit`), the write transaction (`TxFits`), the mutexes it
  has (`MutexesFit`), the partitions it still has to wake (`WakesFit`), what a failing commit would
  give back (`UndoFits`) and the counters of `close` and `delete` (`LifeFits`). `Conservation`, in which `kept` counts the
  removals that failed unnoticed (`linda.c:636`), needs
  `UndoFits`, since between the change of the overlay and the commit the store is ahead of
  the history. `NoUseAfterFree` rests on `LifeFits`: `delete` frees when `active_operations`
  and `active_workers` are zero, and those count exactly the threads inside.
  `NoLockCycle`: who has the write lock never waits for a partition mutex, so the
  waiting order has no way back. `NoLostWakeup` follows from `WakeupsUnderWay`: a thread that
  is about to sleep looked when the tuple was not there, or a broadcast for its partition is
  under way, and the partition's mutex keeps that broadcast out until it sleeps.
  `NoLostWakeupHolds` assumes that the tuples which the application
  commits directly have no derived support, as a commit that changes only support
  calls no observer (`transaction.c:142`, above).
- `LftjProofs`, any finite database, patterns and bindings (`LftjAssumption`). `LftjExactHolds`: a call that ends with a
  count has counted every answer of a query that `Fits` its tries once, or fewer if a frame
  found no memory. The inductive invariant `LftjInv` rests on `CountFits`: what has been
  counted are the answers that are not `ahead`. An answer is ahead if it comes after the
  bindings at some level and agrees with them on the levels above (`Past`), or if it agrees
  with all of them and the search has still to go down, in a frame that searches with no
  value below an active iterator's. Entering, matching and closing a frame leave `ahead`
  as it is; only an answer counted leaves it. For this the iterators must be where the
  levels have them (`FramesFit`, `IteratorsFit`): which columns of which trie a level opens
  follows from `Fits` (`PlanHolds`, `LevelSteps`); a constant behind the first variable is opened
  with it, and is found because it is `Everywhere`. That a seek misses no row is `Good`:
  an iterator is not before the rows with its values nor past the first row after them. It is
  weaker than one expects, because deeper levels leave an iterator anywhere between the two, even
  past the last row; `SearchFits` says that the leapfrog then has another iterator with a
  greater value and may end, and that from the iterator in turn on, round the circle, the
  values ascend. `ArriveReaches` is the step of an iterator: it takes the least value from the
  key on, or there is none and `iterator_up` restores it. Outside `Fits` the count does go
  wrong (`LftjChain.cfg`).
- `QueryProofs`, any query, store, modifiers and writer. `LocksReturned` counts cursors, so
  `LockInv` must say which levels have one: there is a level for each pattern, those
  below the one at work are not begun, and a level that is not begun has no cursor. When the
  search ends by going back from the first level, no cursor is left and `facts_count` may be set
  to 0, which hides the levels from destroy; when it ends for want of memory in a negated level
  (`facts.c:1418`), cursors above may be left, and `starved` excludes what follows. That there are
  as many levels as patterns needs that sorting and grouping the patterns keeps their
  number (`SortDomain`). `StoreInvHolds`: the tries hold what the hash index does.
  `SoundHolds`, `CompleteHolds` and `OrderedHolds`, that the answers are right, all there and in
  order, have two hypotheses. `Searchable`: no variable occurs twice in a positive triple, and
  there is one negated triple at most; beside it each positive triple has a constant and is
  the only one with some variable of the negated triple. `FewUses`, assumed of every state of
  the behaviour: no symbol is used
  100000 times. Up to there a positive triple with a constant costs less than an unbound negated one, so
  the sort puts the negated one last (`facts.c:1941`, `NegatedFirst.cfg`).
  `OrderedHolds` is about cursors that have the variable to sort by (`sparql.c:613`). Other queries do
  get wrong answers (`facts.c:927`, above), or may never return (the run `negated_twice`);
  `MCQuery` has TLC evaluate the hypothesis for the queries of its run. The inductive invariant is
  `FullInv`. In its first half, `SearchInv`, a level that is begun has the patterns that remain
  under the values bound before it (`Given`, not the bindings at large: those of deeper levels must
  not narrow it), and its cursor is untouched, stands at the fact of the bindings, or has
  ended because no fact matches (`LevelFits`). An answer is `Ahead` if it agrees with the
  bindings above some level and its fact lies beyond the cursor there, or if it agrees
  with all levels passed and the search has still to go down. Every step leaves
  `Ahead` alone, except that the match found leaves it, and when the levels are gone nothing is
  ahead: this is why nothing is missed or found twice. Its other half, `PageInv`, counts: the
  answers no longer ahead are those returned and skipped (`CountsFit`) or collected
  (`CollectionFits`), and then returned from the offset on (`PageFits`). `HeapSortHolds`: the heap
  sort of any sequence of matches returns a permutation of it in order. Each pass of `Sift` has
  one place out of order (the root it has come to), the rest is a heap, and the
  larger ones are behind it.

Induction over numbers is done, where it is needed (`StratifyProofs`, `ReactiveProofs`,
`QueryProofs`), by taking the least element of a set of counterexamples.

Only model-checked: liveness (`ClosedReturns`, `DeleteReturns`,
`EvaluationEnds`, `Terminates`, `CallsReturn`, `SynchronizeReturns` and the end of
`Magic`), which the prover does not treat; the calls of `Lftj` outside `Fits`, the queries outside
`Searchable`, the reactive maintenance outside `Maintainable` and the rewriting outside
`Separate`, where the properties do not all hold.

## Not modelled

The text formats (rule and SPARQL scanners, log syntax, number parsing), the
allocators, random identifiers and the vendored libraries. Of `lftj.c` the naive solver:
it is a plain nested loop over databases, and `Reactive` has its result as a set
comprehension. Left out inside modelled parts: the window in `facts_add_spo_origin`
between interning and locking (a reset by another thread in it replaces the symbol
table); more than one database per thread (64 reader slots); rules with variable
predicates; changes made outside a transaction while a program is attached, for which no
listener runs; anonymous symbols and the entity builder; `facts_sparql_insert`, which is a
transaction of additions; queries inside a transaction of their own thread, which take no
lock; and `linda_space_close` racing with a delete.

## Plan

Done, in this order: the lock protocol (everything rests on it), the store, the
tuple space, the hash table, stratification, reactive evaluation, the leapfrog join,
queries with their index, magic sets, reclamation.

Next:

1. Proofs: `Maintainable` widened to negated stored facts.
2. `Solve`: `facts_lftj_solve_multi` over several databases against the set
   comprehensions that `Reactive` puts in its place.
3. Composition of `Linda` with `Reactive`: wake-ups for derived tuples.
