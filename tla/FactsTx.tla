------------------------------ MODULE FactsTx ------------------------------
(***************************************************************************)
(* The transactional fact store: lib/facts.c with the rollback journal of  *)
(* lib/transaction.c, the usage counts of lib/intern.c and the change log  *)
(* of lib/io.c.  TxLock.tla says who may write; a thread that may write    *)
(* works alone, so one step here is one fact added, removed or restored.   *)
(*                                                                         *)
(* A fact is a triple of symbols.  What the store keeps of it is its       *)
(* support: asserted_count and derived_count are 0 or 1 each, and a fact   *)
(* without support is not in the index.                                    *)
(***************************************************************************)
EXTENDS TxLock, Integers, Sequences, FiniteSets

CONSTANTS Symbols,
          Facts,        \* the triples <<s, p, o>> the threads use
          MaxJournal    \* bound on the journal of one transaction

ASSUME FactsAssumption ==
    /\ Facts \subseteq Symbols \X Symbols \X Symbols
    /\ MaxJournal \in Nat

Origins == {"asserted", "derived"}

Actions == {"ADD", "REMOVE", "STATE"}    \* e_rollback_action: what an undo does

Entries == [action : Actions, fact : Facts, support : SUBSET Origins]

\* What is left of the operation that the writer is in: facts to remove, then
\* facts to add, for one origin; prop is the fact that facts_set_prop leaves.
Work == [remove : SUBSET Facts, add : SUBSET Facts, origin : Origins,
         prop : SUBSET Facts]

VARIABLES
    store,       \* facts->index and the hexastore: the support of each fact
    journal,     \* tx->rollback.entries
    refs,        \* the usage count of each symbol
    phase,       \* "open"; "listen": commit runs listeners; "undo": rollback
    todo,        \* the operation under way, of the writer
    notify,      \* per thread, the subjects of the summary it is to deliver
    logged,      \* the facts that read_facts_log would rebuild
    unmatched,   \* "remove" lines that would make it fail: the fact is absent
    snap,        \* history: the store when the writer took the lock
    lost,        \* history: facts that the rollback under way could not insert
    stale        \* history: facts logged but gone: reset, or lost

logVars == <<logged, unmatched, stale>>

vars == <<holder, depth, readers, store, journal, refs, phase, todo, notify,
          logged, unmatched, snap, lost, stale>>

Nothing == [remove |-> {}, add |-> {}, origin |-> "asserted", prop |-> {}]

TypeOK ==
    /\ LockTypeOK
    /\ store \in [Facts -> SUBSET Origins]
    /\ journal \in Seq(Entries)
    /\ refs \in [Symbols -> Int]
    /\ phase \in {"open", "listen", "undo"}
    /\ todo \in Work
    /\ notify \in [Threads -> SUBSET Symbols]
    /\ logged \subseteq Facts
    /\ unmatched \subseteq Facts
    /\ snap \in [Facts -> SUBSET Origins]
    /\ lost \subseteq Facts
    /\ stale \subseteq Facts

\* facts_init_checked: an empty store, and facts->log opened on an empty file.
Init ==
    /\ LockInit
    /\ store = [f \in Facts |-> {}]
    /\ journal = <<>>
    /\ refs = [x \in Symbols |-> 0]
    /\ phase = "open"
    /\ todo = Nothing
    /\ notify = [t \in Threads |-> {}]
    /\ logged = {}
    /\ unmatched = {}
    /\ snap = store
    /\ lost = {}
    /\ stale = {}

-----------------------------------------------------------------------------
(* Symbols and the log *)

\* How often the symbol x occurs in the fact f: intern_string and intern_unstring
\* are called once per position.
Occurrences(x, f) == Cardinality({i \in 1..3 : f[i] = x})

Refer(f, times) == refs' = [x \in Symbols |-> refs[x] + times * Occurrences(x, f)]

\* write_fact_log, as read_facts_log will act on the line.
LogAdd(f) ==
    /\ logged' = logged \union {f}
    /\ stale' = stale \ {f}
    /\ UNCHANGED unmatched

LogRemove(f) ==
    /\ logged' = logged \ {f}
    /\ unmatched' = IF f \in logged THEN unmatched ELSE unmatched \union {f}
    /\ stale' = stale \ {f}

-----------------------------------------------------------------------------
(* One fact *)

\* transaction_rollback_push keeps nothing outside a transaction.
Journalled(action, f, support) ==
    IF depth = 0 THEN journal
    ELSE Append(journal, [action |-> action, fact |-> f, support |-> support])

\* Mutation: transaction_rollback_push without its three facts_intern calls.
HeldNever == 0

Held == IF depth = 0 THEN 0 ELSE 1    \* a journal entry holds its symbols

\* Mutation: a log line only for a fact that is new in the index.
AddFactLogsNewOnly(f, origin) ==
    /\ origin \notin store[f]
    /\ Len(journal) < MaxJournal
    /\ store' = [store EXCEPT ![f] = @ \union {origin}]
    /\ IF store[f] = {}
          THEN journal' = Journalled("REMOVE", f, {origin}) /\ Refer(f, 1 + Held)
          ELSE journal' = Journalled("STATE", f, store[f]) /\ Refer(f, Held)
    /\ IF origin = "asserted" /\ store[f] = {} THEN LogAdd(f) ELSE UNCHANGED logVars

\* facts_add_fact_origin
AddFact(f, origin) ==
    \/ /\ origin \in store[f]
       /\ UNCHANGED <<store, journal, refs>>
       /\ UNCHANGED logVars
    \/ /\ origin \notin store[f]
       /\ Len(journal) < MaxJournal
       /\ store' = [store EXCEPT ![f] = @ \union {origin}]
       /\ IF store[f] = {}
             THEN /\ journal' = Journalled("REMOVE", f, {origin})
                  /\ Refer(f, 1 + Held)
             ELSE /\ journal' = Journalled("STATE", f, store[f])
                  /\ Refer(f, Held)
       /\ IF origin = "asserted" THEN LogAdd(f) ELSE UNCHANGED logVars

\* facts_remove_fact_origin, with facts_remove_found when no support is left
RemoveFact(f, origin) ==
    \/ /\ origin \notin store[f]
       /\ UNCHANGED <<store, journal, refs>>
       /\ UNCHANGED logVars
    \/ /\ origin \in store[f]
       /\ Len(journal) < MaxJournal
       /\ store' = [store EXCEPT ![f] = @ \ {origin}]
       /\ IF store[f] = {origin}
             THEN /\ journal' = Journalled("ADD", f, store[f])
                  /\ Refer(f, Held - 1)
             ELSE /\ journal' = Journalled("STATE", f, store[f])
                  /\ Refer(f, Held)
       /\ IF origin = "asserted" THEN LogRemove(f) ELSE UNCHANGED logVars

\* facts_apply_rollback_entry, and the uninterning of the entry.  The insertion
\* of an "ADD" entry may fail for want of memory: the result is ignored, after
\* the log line has been written.
Undo(e) ==
    LET f == e.fact
        asserted == "asserted" \in e.support
    IN  \/ /\ e.action = "REMOVE"
           /\ store' = [store EXCEPT ![f] = {}]
           /\ Refer(f, IF store[f] = {} THEN 0 - 1 ELSE 0 - 2)
           /\ IF store[f] # {} /\ asserted THEN LogRemove(f) ELSE UNCHANGED logVars
           /\ UNCHANGED lost
        \/ /\ e.action = "ADD"
           /\ store[f] = {}
           /\ store' = [store EXCEPT ![f] = e.support]
           /\ Refer(f, 0)
           /\ IF asserted THEN LogAdd(f) ELSE UNCHANGED logVars
           /\ lost' = lost \ {f}
        \/ /\ e.action = "ADD"
           /\ store[f] = {}
           /\ Refer(f, 0 - 1)
           /\ logged' = IF asserted THEN logged \union {f} ELSE logged
           /\ stale' = IF asserted THEN stale \union {f} ELSE stale
           /\ lost' = lost \union {f}
           /\ UNCHANGED <<store, unmatched>>
        \/ /\ e.action = "STATE"
           /\ store[f] # {}
           /\ store' = [store EXCEPT ![f] = e.support]
           /\ Refer(f, 0 - 1)
           /\ IF asserted <=> "asserted" \in store[f] THEN UNCHANGED logVars
              ELSE IF asserted THEN LogAdd(f) ELSE LogRemove(f)
           /\ UNCHANGED lost
        \/ /\ \/ e.action = "ADD" /\ store[f] # {}
              \/ e.action = "STATE" /\ store[f] = {}
           /\ Refer(f, 0 - 1)
           /\ UNCHANGED <<store, lost>>
           /\ UNCHANGED logVars

-----------------------------------------------------------------------------
(* Operations *)

Idle == todo.remove = {} /\ todo.add = {}

\* The thread is not inside an operation, a rollback or the end of a commit.
Ready(t) ==
    /\ Idle
    /\ phase # "undo"
    /\ notify[t] = {}
    /\ holder = t => depth > 0

WithProp(s, p) == {f \in Facts : f[1] = s /\ f[2] = p /\ store[f] # {}}

\* facts_add_spo_origin and facts_add_fact_origin
AddSpo(o) == {[Nothing EXCEPT !.add = {f}, !.origin = o] : f \in Facts}

\* facts_remove_spo_origin and facts_remove_fact_origin
RemoveSpo(o) == {[Nothing EXCEPT !.remove = {f}, !.origin = o] : f \in Facts}

\* facts_add: the facts of a specification
AddSpec == {[Nothing EXCEPT !.add = fs] : fs \in SUBSET Facts}

\* facts_remove: the stored facts that a query finds, under the lock that the
\* removals keep; those with derived support only are found too
RemoveSpec == {[Nothing EXCEPT !.remove = fs] : fs \in SUBSET {f \in Facts : store[f] # {}}}

\* facts_set_prop: facts_remove for any object, then facts_add_spo
SetProp == {[Nothing EXCEPT !.remove = WithProp(f[1], f[2]), !.add = {f}, !.prop = {f}]
               : f \in Facts}

\* facts_remove_all_derived
RemoveAllDerived ==
    {[Nothing EXCEPT !.remove = {f \in Facts : "derived" \in store[f]}, !.origin = "derived"]}

Calls == AddSpo("asserted") \union AddSpo("derived")
             \union RemoveSpo("asserted") \union RemoveSpo("derived")
             \union AddSpec \union RemoveSpec \union SetProp \union RemoveAllDerived

\* An operation outside a transaction: it takes the lock for itself ...
Call(t) ==
    /\ Ready(t)
    /\ TakeOp(t)
    /\ snap' = store
    /\ todo' \in Calls \ {Nothing}
    /\ UNCHANGED <<store, journal, refs, phase, notify, lost>>
    /\ UNCHANGED logVars

\* ... or in a transaction, where a listener may make one too.
CallInTransaction(t) ==
    /\ holder = t
    /\ Ready(t)
    /\ todo' \in Calls \ {Nothing}
    /\ UNCHANGED lockVars
    /\ UNCHANGED <<store, journal, refs, phase, notify, snap, lost>>
    /\ UNCHANGED logVars

RemoveNext(t) ==
    /\ holder = t
    /\ \E f \in todo.remove :
          /\ RemoveFact(f, todo.origin)
          /\ todo' = [todo EXCEPT !.remove = @ \ {f}]
    /\ UNCHANGED lockVars
    /\ UNCHANGED <<phase, notify, snap, lost>>

\* Mutation: facts_set_prop that adds before it removes.
AddNextFirst(t) ==
    /\ holder = t
    /\ \E f \in todo.add :
          /\ AddFact(f, todo.origin)
          /\ todo' = [todo EXCEPT !.add = @ \ {f}]
    /\ UNCHANGED lockVars
    /\ UNCHANGED <<phase, notify, snap, lost>>

AddNext(t) ==
    /\ holder = t
    /\ todo.remove = {}
    /\ \E f \in todo.add :
          /\ AddFact(f, todo.origin)
          /\ todo' = [todo EXCEPT !.add = @ \ {f}]
    /\ UNCHANGED lockVars
    /\ UNCHANGED <<phase, notify, snap, lost>>

\* No memory: facts_remove goes on with the next fact, facts_add gives up, and
\* what they did before stays done.
OutOfMemory(t) ==
    /\ holder = t
    /\ \/ \E f \in todo.remove : todo' = [todo EXCEPT !.remove = @ \ {f}, !.prop = {}]
       \/ todo.remove = {} /\ todo.add # {} /\ todo' = Nothing
    /\ UNCHANGED lockVars
    /\ UNCHANGED <<store, journal, refs, phase, notify, snap, lost>>
    /\ UNCHANGED logVars

\* The operation returns: outside a transaction it gives the lock back.
Return(t) ==
    /\ holder = t
    /\ Idle
    /\ todo # Nothing \/ depth = 0
    /\ todo' = Nothing
    /\ IF depth = 0 THEN Drop(t) ELSE UNCHANGED lockVars
    /\ UNCHANGED <<store, journal, refs, phase, notify, snap, lost>>
    /\ UNCHANGED logVars

\* facts_reset_checked with an owned symbol table: refused to the writer, and
\* nothing is written to the log.
Reset(t) ==
    /\ Ready(t)
    /\ Free
    /\ store' = [f \in Facts |-> {}]
    /\ refs' = [x \in Symbols |-> 0]
    /\ stale' = logged
    /\ UNCHANGED lockVars
    /\ UNCHANGED <<journal, phase, todo, notify, logged, unmatched, snap, lost>>

-----------------------------------------------------------------------------
(* Transactions *)

Begin(t) ==
    /\ Ready(t)
    /\ TakeTx(t)
    /\ snap' = store
    /\ UNCHANGED <<store, journal, refs, phase, todo, notify, lost>>
    /\ UNCHANGED logVars

\* A nested begin and its commit: the journal is the outer transaction's.
Nested(t) ==
    /\ Ready(t)
    /\ todo = Nothing
    /\ \/ depth < 2 /\ Nest(t)
       \/ Unnest(t)
    /\ UNCHANGED <<store, journal, refs, phase, todo, notify, snap, lost>>
    /\ UNCHANGED logVars

\* The outer commit calls the listeners, if there are any and something changed.
Listen(t) ==
    /\ holder = t
    /\ Ready(t)
    /\ todo = Nothing
    /\ phase = "open"
    /\ depth = 1
    /\ journal # <<>>
    /\ phase' = "listen"
    /\ UNCHANGED lockVars
    /\ UNCHANGED <<store, journal, refs, todo, notify, snap, lost>>
    /\ UNCHANGED logVars

\* Mutation: the summary forgets the removals.
SummaryOfInsertions == {journal[i].fact[1] : i \in {j \in DOMAIN journal : journal[j].action = "REMOVE"}}

\* The commit summary: the subjects of the entries that are not "STATE".
Summary == {journal[i].fact[1] : i \in {j \in DOMAIN journal : journal[j].action # "STATE"}}

\* The uninterning of the whole journal.
Released(x) ==
    Cardinality({at \in (DOMAIN journal) \X (1..3) : journal[at[1]].fact[at[2]] = x})

\* The rest of the outer commit: without listeners (there are none, nothing
\* changed, or transaction_commit_silent), or after they have returned 0, which
\* they may do with nested levels still open.
Commit(t) ==
    /\ holder = t
    /\ Ready(t)
    /\ todo = Nothing
    /\ depth = 1 \/ phase = "listen"
    /\ notify' = [notify EXCEPT ![t] = Summary]
    /\ refs' = [x \in Symbols |-> refs[x] - Released(x)]
    /\ journal' = <<>>
    /\ phase' = "open"
    /\ Drop(t)
    /\ UNCHANGED <<store, todo, snap, lost>>
    /\ UNCHANGED logVars

\* The observers are called once the lock has been released.
Notify(t) ==
    /\ notify[t] # {}
    /\ notify' = [notify EXCEPT ![t] = {}]
    /\ UNCHANGED lockVars
    /\ UNCHANGED <<store, journal, refs, phase, todo, snap, lost>>
    /\ UNCHANGED logVars

\* transaction_rollback, from user code at any depth or by a listener's veto.
Rollback(t) ==
    /\ holder = t
    /\ Ready(t)
    /\ todo = Nothing
    /\ phase' = "undo"
    /\ UNCHANGED lockVars
    /\ UNCHANGED <<store, journal, refs, todo, notify, snap, lost>>
    /\ UNCHANGED logVars

\* Mutation: the journal undone from its first entry on.
UndoForward(t) ==
    /\ holder = t
    /\ phase = "undo"
    /\ journal # <<>>
    /\ Undo(Head(journal))
    /\ journal' = Tail(journal)
    /\ UNCHANGED lockVars
    /\ UNCHANGED <<phase, todo, notify, snap>>

UndoNext(t) ==
    /\ holder = t
    /\ phase = "undo"
    /\ journal # <<>>
    /\ Undo(journal[Len(journal)])
    /\ journal' = [i \in 1..(Len(journal) - 1) |-> journal[i]]
    /\ UNCHANGED lockVars
    /\ UNCHANGED <<phase, todo, notify, snap>>

RolledBack(t) ==
    /\ holder = t
    /\ phase = "undo"
    /\ journal = <<>>
    /\ phase' = "open"
    /\ lost' = {}
    /\ Drop(t)
    /\ UNCHANGED <<store, journal, refs, todo, notify, snap>>
    /\ UNCHANGED logVars

\* Mutation: a lookup that takes no read lock.
ReadBeginUnlocked(t) ==
    /\ notify[t] = {}
    /\ t \notin readers
    /\ readers' = readers \union {t}
    /\ UNCHANGED <<holder, depth, store, journal, refs, phase, todo, notify, snap, lost>>
    /\ UNCHANGED logVars

\* facts_read_begin, or a lookup, and its end.
ReadBegin(t) ==
    /\ notify[t] = {}
    /\ StartReading(t)
    /\ UNCHANGED <<store, journal, refs, phase, todo, notify, snap, lost>>
    /\ UNCHANGED logVars

ReadEnd(t) ==
    /\ StopReading(t)
    /\ UNCHANGED <<store, journal, refs, phase, todo, notify, snap, lost>>
    /\ UNCHANGED logVars

Step(t) ==
    \/ Call(t) \/ CallInTransaction(t) \/ RemoveNext(t) \/ AddNext(t)
    \/ OutOfMemory(t) \/ Return(t) \/ Reset(t)
    \/ Begin(t) \/ Nested(t) \/ Listen(t) \/ Commit(t) \/ Notify(t)
    \/ Rollback(t) \/ UndoNext(t) \/ RolledBack(t)
    \/ ReadBegin(t) \/ ReadEnd(t)

Next == \E t \in Threads : Step(t)

Spec == Init /\ [][Next]_vars
-----------------------------------------------------------------------------
(* Properties *)

Asserted == {f \in Facts : "asserted" \in store[f]}

\* When a rollback has undone its last entry (facts_apply_rollback_entry) every
\* fact has the support it had when the outer transaction began, whatever mix of
\* additions, removals and changes of support went before, by user code, nested
\* levels or listeners; only facts that could not be inserted again are missing.
RollbackRestores ==
    phase = "undo" /\ journal = <<>> => \A f \in Facts \ lost : store[f] = snap[f]

\* The log written by facts_add_fact_origin, facts_remove_fact_origin and
\* facts_apply_rollback_entry can always be replayed (read_facts_log fails on the
\* removal of a fact it does not have) and rebuilds the asserted facts, also in
\* the middle of a transaction or of a rollback; what a reset or a failed
\* insertion took out of the store is still in it.
LogReplays ==
    /\ unmatched = {}
    /\ logged = Asserted \union stale
    /\ Asserted \intersect stale = {}

\* The usage count of a symbol is the number of places that hold it: positions
\* of stored facts and of journal entries.  One too few and a symbol is dropped
\* from the table and interned again under another address while the store or an
\* undo still uses the old one; one too many and it is never dropped.
RefsExact ==
    \A x \in Symbols :
        refs[x] = Released(x) + Cardinality({at \in Facts \X (1..3) :
                                         store[at[1]] # {} /\ at[1][at[2]] = x})

\* A commit that makes a fact appear or disappear announces its subject to the
\* observers (transaction_commit_impl's summary), however the journal got there.
ChangeAnnounced ==
    [][\A t \in Threads : Commit(t) =>
          \A f \in Facts : (snap[f] = {}) # (store[f] = {}) => f[1] \in notify'[t]]_vars

\* When facts_set_prop returns and no allocation failed, its value is the only
\* asserted one of that subject and predicate.
PropReplaced ==
    [][\A t \in Threads : Return(t) =>
          \A f \in todo.prop : {g \in Asserted : g[1] = f[1] /\ g[2] = f[2]} = {f}]_vars

\* What doc/facts.md:356 says: facts_set_prop removes all other property values, those
\* that rules derive included.
PropAlone ==
    Idle => \A f \in todo.prop : WithProp(f[1], f[2]) = {f}

\* Readers see published contents only, and a rollback publishes nothing.
Atomic == INSTANCE AtomicStore
          WITH db <- IF holder = NoThread THEN store ELSE snap,
               work <- store, writer <- holder, aborting <- phase = "undo"

ImplementsAtomicStore == Atomic!AtomicSpec

(* The inductive invariant behind the properties (FactsTxProofs.tla). *)

\* The value that undoing the entry leads back to.
Before(e) == IF e.action = "REMOVE" THEN {} ELSE e.support

\* The support a fact may have once the entry has been recorded.
Leaves(e, support) ==
    /\ e.action = "REMOVE" => support = e.support
    /\ e.action = "ADD"    => support = {}
    /\ e.action = "STATE"  => support # {}

NoneBetween(i, k) == \A j \in (i + 1)..(k - 1) : journal[j].fact # journal[i].fact

\* The last entry of a fact describes the fact as it is now ...
LastEntryMatches ==
    \A i \in DOMAIN journal :
        NoneBetween(i, Len(journal) + 1) /\ journal[i].fact \notin lost
            => Leaves(journal[i], store[journal[i].fact])

\* ... each earlier one describes it as the next one found it ...
EntriesChain ==
    \A i, k \in DOMAIN journal :
        i < k /\ journal[i].fact = journal[k].fact /\ NoneBetween(i, k)
            => Leaves(journal[i], Before(journal[k]))

\* ... the first one found it as it was at the begin, and a fact without an
\* entry has not changed.
FirstEntryMatches ==
    /\ \A i \in DOMAIN journal :
          (\A j \in 1..(i - 1) : journal[j].fact # journal[i].fact)
              => Before(journal[i]) = snap[journal[i].fact]
    /\ depth > 0 =>
          \A f \in Facts \ lost :
              (\A j \in DOMAIN journal : journal[j].fact # f) => store[f] = snap[f]

\* An entry always records a support.
EntriesSupported == \A i \in DOMAIN journal : journal[i].support # {}

\* The journal belongs to a transaction; facts are lost only in its rollback.
JournalOwned ==
    /\ holder = NoThread => depth = 0 /\ todo = Nothing
    /\ depth = 0 => journal = <<>> /\ phase = "open"
    /\ phase # "undo" => lost = {}
    /\ phase = "undo" => todo = Nothing
    /\ \A f \in lost : store[f] = {}
    /\ holder # NoThread => readers = {}

IInv ==
    /\ TypeOK
    /\ LastEntryMatches
    /\ EntriesChain
    /\ FirstEntryMatches
    /\ EntriesSupported
    /\ JournalOwned
    /\ LogReplays

(* What the step properties and the usage counts need besides. *)

\* Outside a rollback, a fact that has appeared or disappeared since the begin
\* has an entry that is not "STATE".
ChangeRecorded ==
    phase # "undo" /\ depth > 0 =>
        \A f \in Facts :
            (\A i \in DOMAIN journal : journal[i].fact = f => journal[i].action = "STATE")
                => ((snap[f] = {}) <=> (store[f] = {}))

\* While facts_set_prop runs, another asserted value is still to be removed, and
\* the new one is still to be added unless it is there.
PropUnderWay ==
    \A f \in todo.prop :
        /\ todo.origin = "asserted"
        /\ todo.add \subseteq {f}
        /\ \A g \in Asserted : g[1] = f[1] /\ g[2] = f[2] => g = f \/ g \in todo.remove
        /\ f \in todo.add \/ (f \in Asserted /\ todo.remove = {})

\* The positions of stored facts that hold a symbol, and those of journal entries.
StorePlaces(s, x) == {at \in Facts \X (1..3) : s[at[1]] # {} /\ at[1][at[2]] = x}

JournalPlaces(j, x) == {at \in (DOMAIN j) \X (1..3) : j[at[1]].fact[at[2]] = x}

FiniteStore == \A x \in Symbols : IsFiniteSet(StorePlaces(store, x))

Recording == ChangeRecorded /\ PropUnderWay /\ FiniteStore /\ RefsExact
=============================================================================
