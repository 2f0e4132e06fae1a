--------------------------- MODULE FactsTxProofs ---------------------------
(***************************************************************************)
(* For any threads, symbols, facts and journal bound: IInv is an invariant *)
(* of the transactional fact store, so that a rollback restores what the   *)
(* transaction found and the log always replays to the asserted facts.     *)
(* With Recording, symbols are counted exactly, commits announce every     *)
(* change, and facts_set_prop leaves one asserted value.                   *)
(***************************************************************************)
EXTENDS FactsTx, SequenceTheorems, FiniteSetTheorems, TLAPS

JournalInv ==
    LastEntryMatches /\ EntriesChain /\ FirstEntryMatches /\ EntriesSupported

\* The usage counts stay integers.
LEMMA OccurrencesNat ==
    ASSUME NEW x, NEW f PROVE Occurrences(x, f) \in Nat
<1>1. IsFiniteSet(1..3)
  <2>1. 1 \in Int /\ 3 \in Int
    OBVIOUS
  <2> QED
    BY <2>1, FS_Interval, Zenon
<1>2. {i \in 1..3 : f[i] = x} \in SUBSET (1..3)
  OBVIOUS
<1>3. IsFiniteSet({i \in 1..3 : f[i] = x})
  BY <1>1, <1>2, FS_Subset
<1> QED
  BY <1>3, FS_CardinalityType DEF Occurrences

LEMMA ReleasedNat ==
    ASSUME NEW x, journal \in Seq(Entries) PROVE Released(x) \in Nat
<1>1. DOMAIN journal = 1..Len(journal) /\ Len(journal) \in Int /\ 1 \in Int /\ 3 \in Int
  OBVIOUS
<1>2. IsFiniteSet(DOMAIN journal) /\ IsFiniteSet(1..3)
  BY <1>1, FS_Interval, Zenon
<1>3. IsFiniteSet((DOMAIN journal) \X (1..3))
  BY <1>2, FS_Product
<1> DEFINE R == {p \in (DOMAIN journal) \X (1..3) : journal[p[1]].fact[p[2]] = x}
<1>4. Released(x) = Cardinality(R)
  BY DEF Released
<1>5. R \in SUBSET ((DOMAIN journal) \X (1..3))
  OBVIOUS
<1>6. IsFiniteSet(R)
  BY <1>3, <1>5, FS_Subset
<1> QED
  BY <1>4, <1>6, FS_CardinalityType

\* An entry taken off the end of a journal.
LEMMA PopFacts ==
    ASSUME NEW s \in Seq(Entries), s # <<>>,
           NEW r, r = [i \in 1..(Len(s) - 1) |-> s[i]]
    PROVE  /\ Len(s) \in Nat \ {0}
           /\ s[Len(s)] \in Entries
           /\ r \in Seq(Entries)
           /\ Len(r) = Len(s) - 1
           /\ DOMAIN r = 1..(Len(s) - 1)
           /\ DOMAIN s = 1..Len(s)
           /\ \A i \in 1..(Len(s) - 1) : r[i] = s[i]
<1>1. Len(s) \in Nat /\ Len(s) > 0
  OBVIOUS
<1>2. \A i \in 1..Len(s) : s[i] \in Entries
  OBVIOUS
<1>3. \A i \in 1..(Len(s) - 1) : s[i] \in Entries
  BY <1>1, <1>2
<1>4. r \in Seq(Entries) /\ Len(r) = Len(s) - 1
  BY <1>1, <1>3
<1> QED
  BY <1>1, <1>2, <1>4

\* The facts of entries, and of what Append makes of a journal.
LEMMA PushFacts ==
    ASSUME NEW s \in Seq(Entries), NEW e \in Entries,
           NEW r, r = Append(s, e)
    PROVE  /\ Len(s) \in Nat
           /\ r \in Seq(Entries)
           /\ Len(r) = Len(s) + 1
           /\ DOMAIN r = 1..(Len(s) + 1)
           /\ DOMAIN s = 1..Len(s)
           /\ \A i \in 1..Len(s) : r[i] = s[i]
           /\ r[Len(s) + 1] = e
BY AppendProperties

\* An entry that records how it found its fact keeps the journal consistent.
LEMMA PushKeepsJournal ==
    ASSUME TypeOK, JournalInv, NEW e \in Entries,
           journal' = Append(journal, e),
           e.support # {},
           Before(e) = store[e.fact],
           Leaves(e, store'[e.fact]),
           \A g \in Facts : g # e.fact => store'[g] = store[g],
           lost = {}, lost' = {}, depth > 0, snap' = snap
    PROVE  JournalInv'
<1> DEFINE n == Len(journal)
<1>1. /\ n \in Nat
      /\ Len(journal') = n + 1
      /\ DOMAIN journal' = 1..(n + 1)
      /\ DOMAIN journal = 1..n
      /\ \A i \in 1..n : journal'[i] = journal[i]
      /\ journal'[n + 1] = e
  BY PushFacts DEF TypeOK
<1>2. \A i \in 1..n : journal[i] \in Entries /\ journal[i].fact \in Facts
  <2>1. \A i \in 1..n : journal[i] \in Entries
    BY <1>1 DEF TypeOK
  <2> QED
    BY <2>1 DEF Entries
<1>3. e.fact \in Facts
  BY DEF Entries
<1>4. LastEntryMatches'
  <2> SUFFICES ASSUME NEW i \in DOMAIN journal',
                      NoneBetween(i, Len(journal) + 1)'
               PROVE  Leaves(journal'[i], store'[journal'[i].fact])
    BY DEF LastEntryMatches, Leaves
  <2>0. i \in 1..(n + 1) /\ \A j \in (i + 1)..(n + 1) : journal'[j].fact # journal'[i].fact
    BY <1>1 DEF NoneBetween
  <2>1. CASE i = n + 1
    BY <2>1, <1>1
  <2>2. CASE i # n + 1
    <3>1. i \in 1..n /\ journal[i].fact # e.fact
      BY <2>0, <2>2, <1>1
    <3>2. \A j \in (i + 1)..n : journal[j].fact # journal[i].fact
      BY <2>0, <3>1, <1>1
    <3>3. Leaves(journal[i], store[journal[i].fact])
      BY <3>1, <3>2, <1>1 DEF JournalInv, LastEntryMatches, NoneBetween
    <3> QED
      BY <3>1, <3>3, <1>1, <1>2
  <2> QED
    BY <2>1, <2>2
<1>5. EntriesChain'
  <2> SUFFICES ASSUME NEW i \in 1..(n + 1), NEW k \in 1..(n + 1), i < k,
                      journal'[i].fact = journal'[k].fact,
                      \A j \in (i + 1)..(k - 1) : journal'[j].fact # journal'[i].fact
               PROVE  Leaves(journal'[i], Before(journal'[k]))
    BY <1>1 DEF EntriesChain, NoneBetween, Leaves, Before
  <2>1. i \in 1..n /\ \A j \in (i + 1)..(k - 1) : journal[j].fact # journal[i].fact
    BY <1>1
  <2>2. CASE k = n + 1
    <3>1. Leaves(journal[i], store[journal[i].fact])
      BY <2>1, <2>2, <1>1 DEF JournalInv, LastEntryMatches, NoneBetween
    <3> QED
      BY <3>1, <2>1, <2>2, <1>1
  <2>3. CASE k # n + 1
    <3>1. k \in 1..n /\ journal'[k] = journal[k] /\ journal'[i] = journal[i]
      BY <2>1, <2>3, <1>1
    <3>2. i \in DOMAIN journal /\ k \in DOMAIN journal /\ NoneBetween(i, k)
      BY <2>1, <3>1, <1>1 DEF NoneBetween
    <3> QED
      BY <3>1, <3>2 DEF JournalInv, EntriesChain
  <2> QED
    BY <2>2, <2>3
<1>6. FirstEntryMatches'
  <2>1. ASSUME NEW i \in 1..(n + 1),
               \A j \in 1..(i - 1) : journal'[j].fact # journal'[i].fact
        PROVE  Before(journal'[i]) = snap[journal'[i].fact]
    <3>1. CASE i = n + 1
      <4>1. \A j \in 1..n : journal[j].fact # e.fact
        BY <2>1, <3>1, <1>1
      <4>2. store[e.fact] = snap[e.fact]
        BY <4>1, <1>1, <1>3 DEF JournalInv, FirstEntryMatches
      <4> QED
        BY <4>2, <3>1, <1>1
    <3>2. CASE i # n + 1
      <4>1. i \in 1..n /\ \A j \in 1..(i - 1) : journal[j].fact # journal[i].fact
        BY <2>1, <3>2, <1>1
      <4> QED
        BY <4>1, <1>1 DEF JournalInv, FirstEntryMatches
    <3> QED
      BY <3>1, <3>2
  <2>2. ASSUME NEW f \in Facts, \A j \in 1..(n + 1) : journal'[j].fact # f
        PROVE  store'[f] = snap[f]
    <3>1. f # e.fact /\ \A j \in 1..n : journal[j].fact # f
      BY <2>2, <1>1
    <3>2. store[f] = snap[f]
      BY <3>1, <1>1 DEF JournalInv, FirstEntryMatches
    <3> QED
      BY <3>1, <3>2
  <2> QED
    BY <2>1, <2>2, <1>1 DEF FirstEntryMatches, Before
<1>7. EntriesSupported'
  BY <1>1 DEF JournalInv, EntriesSupported
<1> QED
  BY <1>4, <1>5, <1>6, <1>7 DEF JournalInv

\* Undoing the last entry keeps what is left of the journal consistent.
LEMMA PopKeepsJournal ==
    ASSUME TypeOK, JournalInv, journal # <<>>,
           NEW e \in Entries, e = journal[Len(journal)],
           DOMAIN journal' = 1..(Len(journal) - 1),
           Len(journal') = Len(journal) - 1,
           \A i \in 1..(Len(journal) - 1) : journal'[i] = journal[i],
           e.fact \notin lost' => store'[e.fact] = Before(e),
           \A g \in Facts : g # e.fact =>
               store'[g] = store[g] /\ (g \in lost' <=> g \in lost),
           depth > 0, snap' = snap
    PROVE  JournalInv'
<1> DEFINE n == Len(journal)
<1>1. /\ n \in Nat \ {0}
      /\ Len(journal') = n - 1
      /\ DOMAIN journal' = 1..(n - 1)
      /\ DOMAIN journal = 1..n
      /\ \A i \in 1..(n - 1) : journal'[i] = journal[i]
  BY EmptySeq DEF TypeOK
<1>2. \A i \in 1..n : journal[i] \in Entries /\ journal[i].fact \in Facts
  <2>1. \A i \in 1..n : journal[i] \in Entries
    BY <1>1 DEF TypeOK
  <2> QED
    BY <2>1 DEF Entries
<1>3. e.fact \in Facts
  BY <1>1 DEF Entries
<1>4. LastEntryMatches'
  <2> SUFFICES ASSUME NEW i \in DOMAIN journal',
                      NoneBetween(i, Len(journal) + 1)',
                      journal'[i].fact \notin lost'
               PROVE  Leaves(journal'[i], store'[journal'[i].fact])
    BY DEF LastEntryMatches, Leaves
  <2>0. /\ i \in 1..(n - 1) /\ journal'[i] = journal[i]
        /\ \A j \in (i + 1)..(n - 1) : journal[j].fact # journal[i].fact
    BY <1>1 DEF NoneBetween
  <2>1. CASE journal[i].fact = e.fact
    <3>1. Leaves(journal[i], Before(e))
      BY <2>0, <2>1, <1>1 DEF JournalInv, EntriesChain, NoneBetween
    <3> QED
      BY <3>1, <2>0, <2>1
  <2>2. CASE journal[i].fact # e.fact
    <3>1. \A j \in (i + 1)..n : journal[j].fact # journal[i].fact
      BY <2>0, <2>2, <1>1
    <3>2. Leaves(journal[i], store[journal[i].fact])
      BY <3>1, <2>0, <2>2, <1>1, <1>2 DEF JournalInv, LastEntryMatches, NoneBetween
    <3> QED
      BY <3>2, <2>0, <2>2, <1>1, <1>2
  <2> QED
    BY <2>1, <2>2
<1>5. EntriesChain'
  <2> SUFFICES ASSUME NEW i \in DOMAIN journal', NEW k \in DOMAIN journal', i < k,
                      journal'[i].fact = journal'[k].fact, NoneBetween(i, k)'
               PROVE  Leaves(journal'[i], Before(journal'[k]))
    BY DEF EntriesChain, Leaves, Before
  <2>1. /\ i \in 1..(n - 1) /\ journal'[i] = journal[i]
        /\ k \in 1..(n - 1) /\ journal'[k] = journal[k]
        /\ \A j \in (i + 1)..(k - 1) : journal[j].fact # journal[i].fact
    BY <1>1 DEF NoneBetween
  <2> QED
    BY <1>1, <2>1 DEF JournalInv, EntriesChain, NoneBetween
<1>6. FirstEntryMatches'
  <2>1. ASSUME NEW i \in 1..(n - 1),
               \A j \in 1..(i - 1) : journal[j].fact # journal[i].fact
        PROVE  Before(journal[i]) = snap[journal[i].fact]
    BY <2>1, <1>1 DEF JournalInv, FirstEntryMatches
  <2>2. ASSUME NEW f \in Facts, f \notin lost',
               \A j \in 1..(n - 1) : journal[j].fact # f
        PROVE  store'[f] = snap[f]
    <3>1. CASE f = e.fact
      <4>1. Before(e) = snap[e.fact]
        BY <2>2, <3>1, <1>1 DEF JournalInv, FirstEntryMatches
      <4> QED
        BY <2>2, <3>1, <4>1
    <3>2. CASE f # e.fact
      <4>1. \A j \in 1..n : journal[j].fact # f
        BY <2>2, <3>2, <1>1
      <4> QED
        BY <2>2, <3>2, <4>1, <1>1 DEF JournalInv, FirstEntryMatches
    <3> QED
      BY <3>1, <3>2
  <2> QED
    <3>1. /\ \A i \in 1..(n - 1) : journal'[i] = journal[i]
          /\ DOMAIN journal' = 1..(n - 1) /\ snap' = snap
      BY <1>1
    <3>2. ASSUME NEW i \in DOMAIN journal', \A j \in 1..(i - 1) : journal'[j].fact # journal'[i].fact
          PROVE  Before(journal'[i]) = snap'[journal'[i].fact]
      <4>1. \A j \in 1..(i - 1) : j \in 1..(n - 1)
        BY <1>1, <3>1
      <4> QED
        BY <2>1, <3>1, <3>2, <4>1
    <3> QED
      BY <2>2, <3>1, <3>2 DEF FirstEntryMatches, Before
<1>7. EntriesSupported'
  BY <1>1 DEF JournalInv, EntriesSupported
<1> QED
  BY <1>4, <1>5, <1>6, <1>7 DEF JournalInv

LEMMA SameJournal ==
    ASSUME JournalInv, UNCHANGED <<store, journal, snap, lost>>, depth' > 0 => depth > 0
    PROVE  JournalInv'
<1>1. LastEntryMatches'
  BY DEF JournalInv, LastEntryMatches, NoneBetween, Leaves
<1>2. EntriesChain'
  BY DEF JournalInv, EntriesChain, NoneBetween, Leaves, Before
<1>3. FirstEntryMatches'
  BY DEF JournalInv, FirstEntryMatches, Before
<1>4. EntriesSupported'
  BY DEF JournalInv, EntriesSupported
<1> QED
  BY <1>1, <1>2, <1>3, <1>4 DEF JournalInv

LEMMA EmptyJournal ==
    ASSUME journal' = <<>>, depth' > 0 => store' = snap'
    PROVE  JournalInv'
BY DEF JournalInv, LastEntryMatches, EntriesChain, FirstEntryMatches, EntriesSupported

\* What transaction_rollback_push does when it is handed a truthful entry.
LEMMA PushStep ==
    ASSUME IInv, NEW e \in Entries, e.support # {},
           journal' = IF depth = 0 THEN journal ELSE Append(journal, e),
           Before(e) = store[e.fact],
           Leaves(e, store'[e.fact]),
           \A g \in Facts : g # e.fact => store'[g] = store[g],
           phase # "undo", UNCHANGED <<depth, snap, lost>>
    PROVE  /\ JournalInv'
           /\ journal' \in Seq(Entries)
           /\ depth = 0 => journal' = <<>>
<1>1. lost = {} /\ depth \in Nat
  BY DEF IInv, JournalOwned, TypeOK, LockTypeOK
<1>2. CASE depth = 0
  <2>1. journal = <<>> /\ journal' = <<>>
    BY <1>2 DEF IInv, JournalOwned
  <2>2. JournalInv'
    BY <2>1, <1>2, EmptyJournal
  <2> QED
    BY <2>1, <2>2
<1>3. CASE depth # 0
  <2>1. depth > 0 /\ journal' = Append(journal, e)
    BY <1>1, <1>3
  <2>2. JournalInv'
    BY <2>1, <1>1, PushKeepsJournal DEF IInv, JournalInv
  <2>3. journal' \in Seq(Entries)
    BY <2>1, PushFacts DEF IInv, TypeOK
  <2> QED
    BY <2>2, <2>3, <1>3
<1> QED
  BY <1>2, <1>3

LEMMA ReferType ==
    ASSUME NEW f, NEW times \in Int, refs \in [Symbols -> Int], Refer(f, times)
    PROVE  refs' \in [Symbols -> Int]
<1>1. \A x \in Symbols : Occurrences(x, f) \in Int
  BY OccurrencesNat
<1>2. \A x \in Symbols : refs[x] + times * Occurrences(x, f) \in Int
  BY <1>1
<1> QED
  BY <1>2 DEF Refer

\* What a step on one fact has to keep.
OneFactKept ==
    /\ JournalInv'
    /\ journal' \in Seq(Entries)
    /\ depth = 0 => journal' = <<>>
    /\ store' \in [Facts -> SUBSET Origins]
    /\ refs' \in [Symbols -> Int]
    /\ logged' \subseteq Facts
    /\ unmatched' \subseteq Facts
    /\ stale' \subseteq Facts
    /\ LogReplays'

LEMMA AddFactKeeps ==
    ASSUME IInv, NEW f \in Facts, NEW origin \in Origins, AddFact(f, origin),
           phase # "undo", UNCHANGED <<depth, snap, lost>>
    PROVE  OneFactKept
<1>1. CASE origin \in store[f]
  <2>0. UNCHANGED <<store, journal, refs>> /\ UNCHANGED logVars
    BY <1>1 DEF AddFact
  <2>1. JournalInv'
    BY <2>0, SameJournal DEF IInv, JournalInv
  <2>2. LogReplays'
    BY <2>0 DEF IInv, LogReplays, logVars, Asserted
  <2> QED
    BY <2>0, <2>1, <2>2 DEF IInv, TypeOK, JournalOwned, OneFactKept, logVars
<1>2. CASE origin \notin store[f]
  <2> DEFINE e == [action |-> IF store[f] = {} THEN "REMOVE" ELSE "STATE", fact |-> f,
                   support |-> IF store[f] = {} THEN {origin} ELSE store[f]]
  <2>1. /\ store' = [store EXCEPT ![f] = @ \union {origin}]
        /\ journal' = IF depth = 0 THEN journal ELSE Append(journal, e)
        /\ Refer(f, 1 + Held) \/ Refer(f, Held)
        /\ IF origin = "asserted" THEN LogAdd(f) ELSE UNCHANGED logVars
    <3>1. CASE store[f] = {}
      <4>1. e = [action |-> "REMOVE", fact |-> f, support |-> {origin}]
        BY <3>1
      <4> QED
        BY <1>2, <3>1, <4>1 DEF AddFact, Journalled
    <3>2. CASE store[f] # {}
      <4>1. e = [action |-> "STATE", fact |-> f, support |-> store[f]]
        BY <3>2
      <4> QED
        BY <1>2, <3>2, <4>1 DEF AddFact, Journalled
    <3> QED
      BY <3>1, <3>2
  <2>2. store \in [Facts -> SUBSET Origins] /\ store[f] \subseteq Origins
    BY DEF IInv, TypeOK
  <2>3. e \in Entries /\ e.support # {} /\ e.fact = f
    BY <2>2, <1>2 DEF Entries, Actions
  <2>4. store' \in [Facts -> SUBSET Origins] /\ store'[f] = store[f] \union {origin}
        /\ \A g \in Facts : g # f => store'[g] = store[g]
    BY <2>1, <2>2
  <2>5. Before(e) = store[f] /\ Leaves(e, store'[f])
    BY <2>4 DEF Before, Leaves
  <2>6. JournalInv' /\ journal' \in Seq(Entries) /\ (depth = 0 => journal' = <<>>)
    <3> HIDE DEF e
    <3> QED
      BY <2>1, <2>3, <2>4, <2>5, PushStep
  <2>7. refs' \in [Symbols -> Int]
    <3>1. Held \in Int /\ 1 + Held \in Int
      BY DEF Held
    <3> QED
      BY <3>1, <2>1, ReferType DEF IInv, TypeOK
  <2>8. /\ LogReplays' /\ logged' \subseteq Facts /\ unmatched' \subseteq Facts
        /\ stale' \subseteq Facts
    <3>1. CASE origin = "asserted"
      BY <3>1, <2>1, <2>4 DEF IInv, TypeOK, LogReplays, LogAdd, Asserted
    <3>2. CASE origin # "asserted"
      BY <3>2, <2>1, <2>4 DEF IInv, TypeOK, LogReplays, logVars, Asserted
    <3> QED
      BY <3>1, <3>2
  <2> QED
    BY <2>4, <2>6, <2>7, <2>8 DEF OneFactKept
<1> QED
  BY <1>1, <1>2

LEMMA RemoveFactKeeps ==
    ASSUME IInv, NEW f \in Facts, NEW origin \in Origins, RemoveFact(f, origin),
           phase # "undo", UNCHANGED <<depth, snap, lost>>
    PROVE  OneFactKept
<1>1. CASE origin \notin store[f]
  <2>0. UNCHANGED <<store, journal, refs>> /\ UNCHANGED logVars
    BY <1>1 DEF RemoveFact
  <2>1. JournalInv'
    BY <2>0, SameJournal DEF IInv, JournalInv
  <2>2. LogReplays'
    BY <2>0 DEF IInv, LogReplays, logVars, Asserted
  <2> QED
    BY <2>0, <2>1, <2>2 DEF IInv, TypeOK, JournalOwned, OneFactKept, logVars
<1>2. CASE origin \in store[f]
  <2> DEFINE e == [action |-> IF store[f] = {origin} THEN "ADD" ELSE "STATE", fact |-> f,
                   support |-> store[f]]
  <2>1. /\ store' = [store EXCEPT ![f] = @ \ {origin}]
        /\ journal' = IF depth = 0 THEN journal ELSE Append(journal, e)
        /\ Refer(f, Held - 1) \/ Refer(f, Held)
        /\ IF origin = "asserted" THEN LogRemove(f) ELSE UNCHANGED logVars
    <3>1. CASE store[f] = {origin}
      <4>1. e = [action |-> "ADD", fact |-> f, support |-> store[f]]
        BY <3>1
      <4> QED
        BY <1>2, <3>1, <4>1 DEF RemoveFact, Journalled
    <3>2. CASE store[f] # {origin}
      <4>1. e = [action |-> "STATE", fact |-> f, support |-> store[f]]
        BY <3>2
      <4> QED
        BY <1>2, <3>2, <4>1 DEF RemoveFact, Journalled
    <3> QED
      BY <3>1, <3>2
  <2>2. store \in [Facts -> SUBSET Origins] /\ store[f] \subseteq Origins
    BY DEF IInv, TypeOK
  <2>3. e \in Entries /\ e.support # {} /\ e.fact = f
    BY <2>2, <1>2 DEF Entries, Actions
  <2>4. store' \in [Facts -> SUBSET Origins] /\ store'[f] = store[f] \ {origin}
        /\ \A g \in Facts : g # f => store'[g] = store[g]
    BY <2>1, <2>2
  <2>5. Before(e) = store[f] /\ Leaves(e, store'[f])
    BY <1>2, <2>4 DEF Before, Leaves
  <2>6. JournalInv' /\ journal' \in Seq(Entries) /\ (depth = 0 => journal' = <<>>)
    <3> HIDE DEF e
    <3> QED
      BY <2>1, <2>3, <2>4, <2>5, PushStep
  <2>7. refs' \in [Symbols -> Int]
    <3>1. Held \in Int /\ Held - 1 \in Int
      BY DEF Held
    <3> QED
      BY <3>1, <2>1, ReferType DEF IInv, TypeOK
  <2>8. /\ LogReplays' /\ logged' \subseteq Facts /\ unmatched' \subseteq Facts
        /\ stale' \subseteq Facts
    <3>1. CASE origin = "asserted"
      BY <1>2, <3>1, <2>1, <2>4 DEF IInv, TypeOK, LogReplays, LogRemove, Asserted
    <3>2. CASE origin # "asserted"
      BY <3>2, <2>1, <2>4 DEF IInv, TypeOK, LogReplays, logVars, Asserted
    <3> QED
      BY <3>1, <3>2
  <2> QED
    BY <2>4, <2>6, <2>7, <2>8 DEF OneFactKept
<1> QED
  BY <1>1, <1>2

\* Undoing the last entry: the facts of it that the other lemmas need.
LEMMA UndoKeeps ==
    ASSUME IInv, journal # <<>>, depth > 0, UNCHANGED <<depth, snap>>,
           NEW e, e = journal[Len(journal)], Undo(e),
           journal' = [i \in 1..(Len(journal) - 1) |-> journal[i]]
    PROVE  OneFactKept /\ lost' \subseteq Facts /\ \A g \in lost' : store'[g] = {}
<1> DEFINE f == e.fact
<1>1. /\ e \in Entries
      /\ journal' \in Seq(Entries)
      /\ Len(journal') = Len(journal) - 1
      /\ DOMAIN journal' = 1..(Len(journal) - 1)
      /\ \A i \in 1..(Len(journal) - 1) : journal'[i] = journal[i]
      /\ Len(journal) \in DOMAIN journal
      /\ Len(journal) \in Nat
  BY PopFacts DEF IInv, TypeOK
<1>2. f \in Facts /\ e.support \subseteq Origins /\ e.action \in Actions
  BY <1>1 DEF Entries
<1>3. /\ store \in [Facts -> SUBSET Origins] /\ lost \subseteq Facts
      /\ logged \subseteq Facts /\ stale \subseteq Facts /\ unmatched \subseteq Facts
      /\ refs \in [Symbols -> Int]
      /\ \A g \in lost : store[g] = {}
  BY DEF IInv, TypeOK, JournalOwned
<1>4. e.support # {}
  BY <1>1 DEF IInv, EntriesSupported
<1>5. f \notin lost => Leaves(e, store[f])
  <2>1. NoneBetween(Len(journal), Len(journal) + 1)
    BY <1>1 DEF NoneBetween
  <2> QED
    BY <1>1, <2>1 DEF IInv, LastEntryMatches
<1>6. JournalInv /\ TypeOK
  BY DEF IInv, JournalInv
<1>7. /\ store' \in [Facts -> SUBSET Origins]
      /\ lost' \subseteq Facts
      /\ f \notin lost' => store'[f] = Before(e)
      /\ \A g \in Facts : g # f => store'[g] = store[g] /\ (g \in lost' <=> g \in lost)
      /\ \A g \in lost' : store'[g] = {}
  BY <1>2, <1>3, <1>5 DEF Undo, Before, Leaves
<1>8. JournalInv'
  BY <1>1, <1>6, <1>7, PopKeepsJournal
<1>9. refs' \in [Symbols -> Int]
  <2>1. Refer(f, 0 - 1) \/ Refer(f, 0 - 2) \/ Refer(f, 0)
    BY DEF Undo
  <2>2. 0 - 1 \in Int /\ 0 - 2 \in Int /\ 0 \in Int
    OBVIOUS
  <2> QED
    BY <2>1, <2>2, <1>3, ReferType
<1>10. /\ LogReplays' /\ logged' \subseteq Facts /\ unmatched' \subseteq Facts
       /\ stale' \subseteq Facts
  <2> USE DEF LogReplays, LogAdd, LogRemove, logVars, Asserted, Leaves
  <2>0. LogReplays
    BY DEF IInv
  <2>1. CASE e.action = "REMOVE"
    BY <2>0, <2>1, <1>2, <1>3, <1>5 DEF Undo
  <2>2. CASE e.action = "ADD"
    BY <2>0, <2>2, <1>2, <1>3, <1>5 DEF Undo
  <2>3. CASE e.action = "STATE"
    BY <2>0, <2>3, <1>2, <1>3, <1>5 DEF Undo
  <2> QED
    BY <2>1, <2>2, <2>3, <1>2 DEF Actions
<1> QED
  BY <1>1, <1>7, <1>8, <1>9, <1>10 DEF OneFactKept

LEMMA CallsAreWork ==
    ASSUME TypeOK, NEW w \in Calls
    PROVE  w \in Work
<1>1. CASE w \in AddSpo("asserted") \union AddSpo("derived")
  <2>1. PICK f \in Facts, o \in Origins : w = [Nothing EXCEPT !.add = {f}, !.origin = o]
    BY <1>1 DEF AddSpo, Origins
  <2> QED
    BY <2>1 DEF Work, Nothing
<1>2. CASE w \in RemoveSpo("asserted") \union RemoveSpo("derived")
  <2>1. PICK f \in Facts, o \in Origins : w = [Nothing EXCEPT !.remove = {f}, !.origin = o]
    BY <1>2 DEF RemoveSpo, Origins
  <2> QED
    BY <2>1 DEF Work, Nothing
<1>3. CASE w \in AddSpec
  BY <1>3 DEF AddSpec, Work, Nothing, Origins
<1>4. CASE w \in RemoveSpec
  <2>1. PICK fs \in SUBSET Facts : w = [Nothing EXCEPT !.remove = fs]
    BY <1>4 DEF RemoveSpec
  <2> QED
    BY <2>1 DEF Work, Nothing, Origins
<1>5. CASE w \in SetProp
  <2>1. PICK f \in Facts, fs \in SUBSET Facts :
            w = [Nothing EXCEPT !.remove = fs, !.add = {f}, !.prop = {f}]
    BY <1>5 DEF SetProp, WithProp
  <2> QED
    BY <2>1 DEF Work, Nothing, Origins
<1>6. CASE w \in RemoveAllDerived
  <2>1. PICK fs \in SUBSET Facts : w = [Nothing EXCEPT !.remove = fs, !.origin = "derived"]
    BY <1>6 DEF RemoveAllDerived
  <2> QED
    BY <2>1 DEF Work, Nothing, Origins
<1> QED
  BY <1>1, <1>2, <1>3, <1>4, <1>5, <1>6 DEF Calls

LEMMA SummaryType ==
    ASSUME TypeOK
    PROVE  Summary \in SUBSET Symbols
<1>1. \A i \in DOMAIN journal : journal[i] \in Entries
  BY DEF TypeOK
<1>2. \A i \in DOMAIN journal : journal[i].fact \in Facts
  BY <1>1 DEF Entries
<1>3. \A f \in Facts : f[1] \in Symbols
  BY FactsAssumption
<1> QED
  BY <1>2, <1>3 DEF Summary

\* A step that touches neither the facts nor the journal nor the log.
LEMMA QuietStep ==
    ASSUME IInv, UNCHANGED <<store, journal, refs, snap, lost>>, UNCHANGED logVars,
           depth' > 0 => depth > 0
    PROVE  /\ LastEntryMatches' /\ EntriesChain' /\ FirstEntryMatches'
           /\ EntriesSupported' /\ LogReplays'
<1>1. JournalInv'
  BY SameJournal DEF IInv, JournalInv
<1>2. LogReplays'
  BY DEF IInv, LogReplays, logVars, Asserted
<1> QED
  BY <1>1, <1>2 DEF JournalInv

LEMMA InitIInv == Init => IInv
<1> SUFFICES ASSUME Init PROVE IInv
  OBVIOUS
<1>1. journal \in Seq(Entries) /\ journal = <<>>
  BY DEF Init
<1>2. TypeOK
  BY <1>1, NoThreadAssumption
     DEF Init, TypeOK, LockInit, LockTypeOK, Work, Nothing, Origins
<1>3. LastEntryMatches /\ EntriesChain /\ FirstEntryMatches /\ EntriesSupported
  BY <1>1 DEF Init, LockInit, LastEntryMatches, EntriesChain, FirstEntryMatches, EntriesSupported
<1>4. JournalOwned /\ LogReplays
  BY <1>1 DEF Init, LockInit, JournalOwned, LogReplays, Asserted
<1> QED
  BY <1>2, <1>3, <1>4 DEF IInv

LEMMA StepIInv ==
    ASSUME IInv, NEW t \in Threads, Step(t)
    PROVE  IInv'
<1> USE NoThreadAssumption
<1>0. TypeOK /\ JournalOwned /\ LogReplays
  BY DEF IInv
<1>1. CASE Call(t)
  <2>1. todo' \in Work
    BY <1>0, <1>1, CallsAreWork DEF Call
  <2>2. depth = 0 /\ journal = <<>> /\ phase = "open" /\ lost = {}
    BY <1>0, <1>1 DEF Call, TakeOp, Free, JournalOwned
  <2>3. TypeOK'
    BY <1>0, <1>1, <2>1 DEF TypeOK, LockTypeOK, Call, TakeOp, logVars
  <2>4. JournalInv'
    BY <2>2, <1>1, EmptyJournal DEF Call, TakeOp
  <2>5. LogReplays'
    BY <1>0, <1>1 DEF Call, logVars, LogReplays, Asserted
  <2>6. JournalOwned'
    BY <1>0, <1>1, <2>2 DEF Call, TakeOp, Free, JournalOwned
  <2> QED
    BY <2>3, <2>4, <2>5, <2>6 DEF IInv, JournalInv
<1>2. CASE CallInTransaction(t)
  <2>1. todo' \in Work
    BY <1>0, <1>2, CallsAreWork DEF CallInTransaction
  <2>2. TypeOK'
    BY <1>0, <1>2, <2>1 DEF TypeOK, LockTypeOK, CallInTransaction, logVars, lockVars
  <2>3. JournalOwned'
    BY <1>0, <1>2 DEF CallInTransaction, Ready, lockVars, JournalOwned
  <2> QED
    BY <2>2, <2>3, <1>2, QuietStep DEF IInv, CallInTransaction, lockVars
<1>3. CASE RemoveNext(t)
  <2>1. PICK f \in todo.remove : /\ RemoveFact(f, todo.origin)
                                 /\ todo' = [todo EXCEPT !.remove = @ \ {f}]
    BY <1>3 DEF RemoveNext
  <2>2. todo \in Work /\ f \in Facts /\ todo.origin \in Origins /\ todo' \in Work
    BY <1>0, <2>1 DEF TypeOK, Work
  <2>3. phase # "undo"
    BY <1>0, <2>1 DEF JournalOwned, Nothing
  <2>4. OneFactKept
    BY <1>3, <2>1, <2>2, <2>3, RemoveFactKeeps DEF RemoveNext, lockVars
  <2>5. TypeOK'
    BY <1>0, <1>3, <2>2, <2>4 DEF TypeOK, LockTypeOK, RemoveNext, lockVars, OneFactKept
  <2>6. JournalOwned'
    BY <1>0, <1>3, <2>3, <2>4 DEF JournalOwned, RemoveNext, lockVars, OneFactKept
  <2> QED
    BY <2>4, <2>5, <2>6 DEF IInv, OneFactKept, JournalInv
<1>4. CASE AddNext(t)
  <2>1. PICK f \in todo.add : /\ AddFact(f, todo.origin)
                              /\ todo' = [todo EXCEPT !.add = @ \ {f}]
    BY <1>4 DEF AddNext
  <2>2. todo \in Work /\ f \in Facts /\ todo.origin \in Origins /\ todo' \in Work
    BY <1>0, <2>1 DEF TypeOK, Work
  <2>3. phase # "undo"
    BY <1>0, <2>1 DEF JournalOwned, Nothing
  <2>4. OneFactKept
    BY <1>4, <2>1, <2>2, <2>3, AddFactKeeps DEF AddNext, lockVars
  <2>5. TypeOK'
    BY <1>0, <1>4, <2>2, <2>4 DEF TypeOK, LockTypeOK, AddNext, lockVars, OneFactKept
  <2>6. JournalOwned'
    BY <1>0, <1>4, <2>3, <2>4 DEF JournalOwned, AddNext, lockVars, OneFactKept
  <2> QED
    BY <2>4, <2>5, <2>6 DEF IInv, OneFactKept, JournalInv
<1>5. CASE OutOfMemory(t)
  <2>0. todo \in Work /\ Nothing \in Work /\ Nothing.remove = {} /\ Nothing.add = {}
    BY <1>0 DEF TypeOK, Work, Nothing, Origins
  <2>1. todo' \in Work
    <3>1. CASE todo' = Nothing
      BY <2>0, <3>1
    <3>2. CASE \E f \in todo.remove : todo' = [todo EXCEPT !.remove = @ \ {f}, !.prop = {}]
      BY <2>0, <3>2 DEF Work
    <3> QED
      BY <1>5, <3>1, <3>2 DEF OutOfMemory
  <2>2. TypeOK'
    BY <1>0, <1>5, <2>1 DEF TypeOK, LockTypeOK, OutOfMemory, logVars, lockVars
  <2>3. JournalOwned'
    <3>1. phase # "undo" /\ holder # NoThread
      BY <1>0, <1>5, <2>0 DEF OutOfMemory, JournalOwned
    <3> QED
      BY <1>0, <1>5, <3>1 DEF OutOfMemory, lockVars, JournalOwned
  <2> QED
    BY <2>2, <2>3, <1>5, QuietStep DEF IInv, OutOfMemory, lockVars
<1>6. CASE Return(t)
  <2>1. TypeOK'
    BY <1>0, <1>6 DEF TypeOK, LockTypeOK, Return, Drop, logVars, lockVars, Work, Nothing, Origins
  <2>2. JournalOwned'
    BY <1>0, <1>6 DEF Return, Drop, lockVars, JournalOwned
  <2>3. depth' > 0 => depth > 0
    BY <1>6 DEF Return, Drop, lockVars
  <2> QED
    BY <2>1, <2>2, <2>3, <1>6, QuietStep DEF IInv, Return
<1>7. CASE Reset(t)
  <2>1. depth = 0 /\ journal = <<>> /\ journal' = <<>> /\ phase = "open" /\ lost = {} /\ depth' = 0
    BY <1>0, <1>7 DEF Reset, Free, JournalOwned, lockVars
  <2>2. TypeOK'
    BY <1>0, <1>7 DEF Reset, TypeOK, LockTypeOK, lockVars
  <2>3. JournalInv'
    BY <2>1, EmptyJournal
  <2>4. LogReplays'
    BY <1>0, <1>7 DEF Reset, LogReplays, Asserted
  <2>5. JournalOwned'
    BY <1>0, <1>7, <2>1 DEF Reset, JournalOwned, lockVars
  <2> QED
    BY <2>2, <2>3, <2>4, <2>5 DEF IInv, JournalInv
<1>8. CASE Begin(t)
  <2>1. depth = 0 /\ journal = <<>> /\ phase = "open" /\ lost = {}
    BY <1>0, <1>8 DEF Begin, TakeTx, Free, JournalOwned
  <2>2. TypeOK'
    BY <1>0, <1>8 DEF TypeOK, LockTypeOK, Begin, TakeTx, logVars
  <2>3. JournalInv'
    BY <2>1, <1>8, EmptyJournal DEF Begin
  <2>4. LogReplays'
    BY <1>0, <1>8 DEF Begin, logVars, LogReplays, Asserted
  <2>5. JournalOwned'
    BY <1>0, <1>8, <2>1 DEF Begin, TakeTx, Free, JournalOwned
  <2> QED
    BY <2>2, <2>3, <2>4, <2>5 DEF IInv, JournalInv
<1>9. CASE Nested(t)
  <2>1. TypeOK'
    BY <1>0, <1>9 DEF TypeOK, LockTypeOK, Nested, Nest, Unnest, logVars
  <2>2. JournalOwned' /\ depth > 0
    BY <1>0, <1>9 DEF Nested, Nest, Unnest, JournalOwned, TypeOK, LockTypeOK
  <2> QED
    BY <2>1, <2>2, <1>9, QuietStep DEF IInv, Nested
<1>10. CASE Listen(t)
  <2>1. TypeOK'
    BY <1>0, <1>10 DEF TypeOK, LockTypeOK, Listen, logVars, lockVars
  <2>2. JournalOwned'
    BY <1>0, <1>10 DEF Listen, JournalOwned, lockVars
  <2> QED
    BY <2>1, <2>2, <1>10, QuietStep DEF IInv, Listen, lockVars
<1>11. CASE Commit(t)
  <2>1. journal' = <<>> /\ depth' = 0 /\ holder' = NoThread /\ phase' = "open"
    BY <1>11 DEF Commit, Drop
  <2>2. refs' \in [Symbols -> Int]
    <3>1. \A x \in Symbols : Released(x) \in Nat /\ refs[x] \in Int
      BY <1>0, ReleasedNat DEF TypeOK
    <3>2. \A x \in Symbols : refs[x] - Released(x) \in Int
      BY <3>1
    <3> QED
      BY <3>2, <1>11 DEF Commit
  <2>3. notify' \in [Threads -> SUBSET Symbols]
    BY <1>0, <1>11, SummaryType DEF Commit, TypeOK
  <2>4. journal' \in Seq(Entries)
    BY <2>1
  <2>5. TypeOK'
    BY <1>0, <1>11, <2>1, <2>2, <2>3, <2>4 DEF TypeOK, LockTypeOK, Commit, Drop, logVars
  <2>6. JournalInv'
    BY <2>1, EmptyJournal
  <2>7. LogReplays'
    BY <1>0, <1>11 DEF Commit, logVars, LogReplays, Asserted
  <2>8. JournalOwned'
    BY <1>0, <1>11, <2>1 DEF Commit, Drop, Ready, JournalOwned
  <2> QED
    BY <2>5, <2>6, <2>7, <2>8 DEF IInv, JournalInv
<1>12. CASE Notify(t)
  <2>1. TypeOK'
    BY <1>0, <1>12 DEF TypeOK, LockTypeOK, Notify, logVars, lockVars
  <2>2. JournalOwned'
    BY <1>0, <1>12 DEF Notify, JournalOwned, lockVars
  <2> QED
    BY <2>1, <2>2, <1>12, QuietStep DEF IInv, Notify, lockVars
<1>13. CASE Rollback(t)
  <2>1. TypeOK'
    BY <1>0, <1>13 DEF TypeOK, LockTypeOK, Rollback, logVars, lockVars
  <2>2. JournalOwned'
    BY <1>0, <1>13 DEF Rollback, Ready, JournalOwned, lockVars, TypeOK, LockTypeOK
  <2> QED
    BY <2>1, <2>2, <1>13, QuietStep DEF IInv, Rollback, lockVars
<1>14. CASE UndoNext(t)
  <2>1. depth > 0
    BY <1>0, <1>14 DEF UndoNext, JournalOwned, TypeOK, LockTypeOK
  <2>2. OneFactKept /\ lost' \subseteq Facts /\ \A g \in lost' : store'[g] = {}
    BY <2>1, <1>14, UndoKeeps DEF UndoNext, lockVars
  <2>3. TypeOK'
    BY <1>0, <1>14, <2>2 DEF TypeOK, LockTypeOK, UndoNext, lockVars, OneFactKept
  <2>4. JournalOwned'
    BY <1>0, <1>14, <2>2, <2>1 DEF JournalOwned, UndoNext, lockVars, OneFactKept
  <2> QED
    BY <2>2, <2>3, <2>4 DEF IInv, OneFactKept, JournalInv
<1>15. CASE RolledBack(t)
  <2>1. TypeOK'
    BY <1>0, <1>15 DEF TypeOK, LockTypeOK, RolledBack, Drop, logVars
  <2>2. JournalInv'
    BY <1>15, EmptyJournal DEF RolledBack, Drop
  <2>3. LogReplays'
    BY <1>0, <1>15 DEF RolledBack, logVars, LogReplays, Asserted
  <2>4. JournalOwned'
    BY <1>0, <1>15 DEF RolledBack, Drop, JournalOwned
  <2> QED
    BY <2>1, <2>2, <2>3, <2>4 DEF IInv, JournalInv
<1>16. CASE ReadBegin(t)
  <2>1. TypeOK'
    BY <1>0, <1>16 DEF TypeOK, LockTypeOK, ReadBegin, StartReading, logVars
  <2>2. JournalOwned'
    BY <1>0, <1>16 DEF ReadBegin, StartReading, JournalOwned
  <2> QED
    BY <2>1, <2>2, <1>16, QuietStep DEF IInv, ReadBegin, StartReading
<1>17. CASE ReadEnd(t)
  <2>1. TypeOK'
    BY <1>0, <1>17 DEF TypeOK, LockTypeOK, ReadEnd, StopReading, logVars
  <2>2. JournalOwned'
    BY <1>0, <1>17 DEF ReadEnd, StopReading, JournalOwned
  <2> QED
    BY <2>1, <2>2, <1>17, QuietStep DEF IInv, ReadEnd, StopReading
<1> QED
  BY <1>1, <1>2, <1>3, <1>4, <1>5, <1>6, <1>7, <1>8, <1>9, <1>10, <1>11, <1>12,
     <1>13, <1>14, <1>15, <1>16, <1>17 DEF Step

LEMMA NextIInv == IInv /\ [Next]_vars => IInv'
<1> SUFFICES ASSUME IInv, [Next]_vars PROVE IInv'
  OBVIOUS
<1>1. CASE Next
  BY <1>1, StepIInv DEF Next
<1>2. CASE UNCHANGED vars
  <2>1. TypeOK' /\ JournalOwned'
    BY <1>2 DEF vars, IInv, TypeOK, LockTypeOK, JournalOwned
  <2>2. UNCHANGED <<store, journal, refs, snap, lost>> /\ UNCHANGED logVars /\ depth' = depth
    BY <1>2 DEF vars, logVars
  <2> QED
    BY <2>1, <2>2, QuietStep DEF IInv
<1> QED
  BY <1>1, <1>2

LEMMA InvariantHolds == Spec => []IInv
BY InitIInv, NextIInv, PTL DEF Spec

\* The state of the store, the journal, the symbol table and the log stays
\* well-formed under every operation of facts.c and transaction.c modelled here.
THEOREM TypeCorrect == Spec => []TypeOK
<1>1. IInv => TypeOK
  BY DEF IInv
<1> QED
  BY <1>1, InvariantHolds, PTL

\* A rollback that has undone its journal has restored every fact that it could
\* insert again, for any number of facts, threads, levels and journal entries.
THEOREM RollbackCorrect == Spec => []RollbackRestores
<1>1. IInv => RollbackRestores
  <2> SUFFICES ASSUME IInv, phase = "undo", journal = <<>>, NEW f \in Facts \ lost
               PROVE  store[f] = snap[f]
    BY DEF RollbackRestores
  <2>1. depth > 0
    BY DEF IInv, JournalOwned, TypeOK, LockTypeOK
  <2>2. DOMAIN journal = {}
    OBVIOUS
  <2> QED
    BY <2>1, <2>2 DEF IInv, FirstEntryMatches
<1> QED
  BY <1>1, InvariantHolds, PTL

\* The change log replays, at every moment, to the asserted facts.
THEOREM LogCorrect == Spec => []LogReplays
<1>1. IInv => LogReplays
  BY DEF IInv
<1> QED
  BY <1>1, InvariantHolds, PTL

\* What a reader that starts now sees: the refinement mapping of Atomic.
Db == IF holder = NoThread THEN store ELSE snap

LEMMA StepRefines ==
    ASSUME IInv, IInv', NEW t \in Threads, Step(t)
    PROVE  Atomic!AtomicNext \/ UNCHANGED <<Db, store, holder, phase = "undo", readers>>
<1> USE NoThreadAssumption
<1>0. TypeOK /\ JournalOwned /\ store' \in [Facts -> SUBSET Origins]
  BY DEF IInv, TypeOK
<1>1. CASE Call(t) \/ Begin(t)
  <2>1. Atomic!Open(t)
    BY <1>1 DEF Call, Begin, TakeOp, TakeTx, Free, Atomic!Open
  <2> QED
    BY <2>1 DEF Atomic!AtomicNext
<1>2. CASE RemoveNext(t) \/ AddNext(t) \/ UndoNext(t)
  <2>1. Atomic!Write(t)
    BY <1>0, <1>2 DEF RemoveNext, AddNext, UndoNext, lockVars, Atomic!Write, Atomic!Contents
  <2> QED
    BY <2>1 DEF Atomic!AtomicNext
<1>3. CASE Return(t)
  <2>1. CASE depth = 0
    <3>1. Atomic!Publish(t)
      BY <1>0, <1>3, <2>1 DEF Return, Drop, JournalOwned, Atomic!Publish
    <3> QED
      BY <3>1 DEF Atomic!AtomicNext
  <2>2. CASE depth # 0
    BY <1>3, <2>2 DEF Return, lockVars, Db
  <2> QED
    BY <2>1, <2>2
<1>4. CASE Reset(t)
  <2>1. Atomic!Erase
    BY <1>4 DEF Reset, Free, lockVars, Atomic!Erase, Atomic!Empty
  <2> QED
    BY <2>1 DEF Atomic!AtomicNext
<1>5. CASE Commit(t)
  <2>1. Atomic!Publish(t)
    BY <1>5 DEF Commit, Drop, Ready, Atomic!Publish
  <2> QED
    BY <2>1 DEF Atomic!AtomicNext
<1>6. CASE Rollback(t)
  <2>1. Atomic!GiveUp(t)
    BY <1>6 DEF Rollback, lockVars, Atomic!GiveUp
  <2> QED
    BY <2>1 DEF Atomic!AtomicNext
<1>7. CASE RolledBack(t)
  <2>1. /\ holder = t /\ phase = "undo" /\ holder' = NoThread /\ phase' = "open"
        /\ UNCHANGED <<store, readers>> /\ journal = <<>>
    BY <1>7 DEF RolledBack, Drop
  <2>2. \A f \in Facts \ lost : store[f] = snap[f]
    <3>1. depth > 0 /\ DOMAIN journal = {}
      BY <1>0, <2>1 DEF JournalOwned, TypeOK, LockTypeOK
    <3> QED
      BY <3>1 DEF IInv, FirstEntryMatches
  <2>3. store = [f \in Facts |-> IF f \in lost THEN {} ELSE snap[f]] /\ lost \in SUBSET Facts
    BY <1>0, <2>2 DEF JournalOwned, TypeOK
  <2>4. Atomic!Abandon(t)
    BY <2>1, <2>3 DEF Atomic!Abandon
  <2> QED
    BY <2>4 DEF Atomic!AtomicNext
<1>8. CASE ReadBegin(t)
  <2>1. Atomic!Reading(t)
    BY <1>8 DEF ReadBegin, StartReading, Atomic!Reading
  <2> QED
    BY <2>1 DEF Atomic!AtomicNext
<1>9. CASE ReadEnd(t)
  <2>1. Atomic!DoneReading(t)
    BY <1>9 DEF ReadEnd, StopReading, Atomic!DoneReading
  <2> QED
    BY <2>1 DEF Atomic!AtomicNext
<1>10. CASE Nested(t)
  BY <1>10 DEF Nested, Nest, Unnest, Db
<1>11. CASE CallInTransaction(t) \/ OutOfMemory(t) \/ Listen(t) \/ Notify(t)
  BY <1>11 DEF CallInTransaction, OutOfMemory, Listen, Notify, lockVars, Db
<1> QED
  BY <1>1, <1>2, <1>3, <1>4, <1>5, <1>6, <1>7, <1>8, <1>9, <1>10, <1>11 DEF Step

\* The lock, the in-place changes and the journal of facts.c and transaction.c
\* amount to private work that is published or abandoned as a whole.
THEOREM Implements == Spec => ImplementsAtomicStore
<1>1. Init => Atomic!AtomicInit
  BY DEF Init, LockInit, Atomic!AtomicInit, Atomic!Empty
<1>2. IInv /\ IInv' /\ [Next]_vars
          => [Atomic!AtomicNext]_<<Db, store, holder, phase = "undo", readers>>
  <2> SUFFICES ASSUME IInv, IInv', [Next]_vars
               PROVE  Atomic!AtomicNext
                          \/ UNCHANGED <<Db, store, holder, phase = "undo", readers>>
    OBVIOUS
  <2>1. CASE Next
    BY <2>1, StepRefines DEF Next
  <2>2. CASE UNCHANGED vars
    BY <2>2 DEF vars, Db
  <2> QED
    BY <2>1, <2>2
<1> QED
  BY <1>1, <1>2, InvariantHolds, PTL
     DEF Spec, ImplementsAtomicStore, Atomic!AtomicSpec, Atomic!atomicVars, Db

-----------------------------------------------------------------------------
(* Usage counts, announcements and properties *)

\* A fact's three positions hold a symbol as often as it occurs in it.
LEMMA FactPlaces ==
    ASSUME NEW n, NEW f, NEW x
    PROVE  /\ IsFiniteSet({n} \X {i \in 1..3 : f[i] = x})
           /\ Cardinality({n} \X {i \in 1..3 : f[i] = x}) = Occurrences(x, f)
<1> DEFINE P == {i \in 1..3 : f[i] = x}
<1>1. IsFiniteSet(1..3)
  <2>1. 1 \in Int /\ 3 \in Int
    OBVIOUS
  <2> QED
    BY <2>1, FS_Interval, Zenon
<1>2. P \in SUBSET (1..3)
  OBVIOUS
<1>3. IsFiniteSet(P)
  BY <1>1, <1>2, FS_Subset
<1>4. IsFiniteSet({n}) /\ Cardinality({n}) = 1
  BY FS_Singleton
<1>5. Cardinality(P) \in Nat /\ Cardinality(P) = Occurrences(x, f)
  BY <1>3, FS_CardinalityType DEF Occurrences
<1>6. IsFiniteSet({n} \X P) /\ Cardinality({n} \X P) = Cardinality({n}) * Cardinality(P)
  BY <1>3, <1>4, FS_Product
<1> QED
  BY <1>4, <1>5, <1>6

\* Disjoint sets of places.
LEMMA PlacesAdd ==
    ASSUME NEW A, NEW B, IsFiniteSet(A), IsFiniteSet(B), A \intersect B = {}
    PROVE  /\ IsFiniteSet(A \union B)
           /\ Cardinality(A \union B) = Cardinality(A) + Cardinality(B)
<1>1. Cardinality(A \cap B) = 0
  BY FS_EmptySet
<1>2. /\ IsFiniteSet(A \union B)
      /\ Cardinality(A \union B) = Cardinality(A) + Cardinality(B) - Cardinality(A \cap B)
  BY FS_Union
<1>3. Cardinality(A) \in Nat /\ Cardinality(B) \in Nat
  BY FS_CardinalityType
<1> QED
  BY <1>1, <1>2, <1>3

\* A fact that appears in the store brings its places with it.
LEMMA FactAppears ==
    ASSUME NEW s, NEW r, NEW f \in Facts, NEW x, s[f] = {}, r[f] # {},
           \A g \in Facts \ {f} : r[g] = s[g], IsFiniteSet(StorePlaces(s, x))
    PROVE  /\ IsFiniteSet(StorePlaces(r, x))
           /\ Cardinality(StorePlaces(r, x)) = Cardinality(StorePlaces(s, x)) + Occurrences(x,
                   f)
<1> DEFINE N == {f} \X {i \in 1..3 : f[i] = x}
<1>1. StorePlaces(r, x) = StorePlaces(s, x) \union N
  <2>1. ASSUME NEW at \in Facts \X (1..3)
        PROVE  at \in StorePlaces(r, x) <=> at \in StorePlaces(s, x) \/ at \in N
    <3>1. at = <<at[1], at[2]>> /\ at[1] \in Facts /\ at[2] \in 1..3
      OBVIOUS
    <3>2. CASE at[1] = f
      BY <3>1, <3>2 DEF StorePlaces
    <3>3. CASE at[1] # f
      BY <3>1, <3>3 DEF StorePlaces
    <3> QED
      BY <3>2, <3>3
  <2>2. StorePlaces(r, x) \subseteq Facts \X (1..3)
          /\ StorePlaces(s, x) \subseteq Facts \X (1..3)
        /\ N \subseteq Facts \X (1..3)
    BY DEF StorePlaces
  <2> QED
    BY <2>1, <2>2
<1>2. StorePlaces(s, x) \intersect N = {}
  BY DEF StorePlaces
<1>3. IsFiniteSet(N) /\ Cardinality(N) = Occurrences(x, f)
  BY FactPlaces
<1> HIDE DEF N
<1> QED
  BY <1>1, <1>2, <1>3, PlacesAdd

LEMMA FactDisappears ==
    ASSUME NEW s, NEW r, NEW f \in Facts, NEW x, s[f] # {}, r[f] = {},
           \A g \in Facts \ {f} : r[g] = s[g], IsFiniteSet(StorePlaces(s, x))
    PROVE  /\ IsFiniteSet(StorePlaces(r, x))
           /\ Cardinality(StorePlaces(r, x)) = Cardinality(StorePlaces(s, x)) - Occurrences(x,
                   f)
<1>1. \A g \in Facts : r[g] # {} => s[g] # {}
  OBVIOUS
<1>2. StorePlaces(r, x) \in SUBSET StorePlaces(s, x)
  BY <1>1 DEF StorePlaces
<1>3. IsFiniteSet(StorePlaces(r, x))
  BY <1>2, FS_Subset
<1>4. \A g \in Facts \ {f} : s[g] = r[g]
  OBVIOUS
<1>5. Cardinality(StorePlaces(s, x)) = Cardinality(StorePlaces(r, x)) + Occurrences(x, f)
  BY <1>3, <1>4, FactAppears
<1>6. Cardinality(StorePlaces(r, x)) \in Nat /\ Occurrences(x, f) \in Nat
  BY <1>3, FS_CardinalityType, OccurrencesNat
<1> QED
  BY <1>3, <1>5, <1>6

LEMMA FactStays ==
    ASSUME NEW s, NEW r, NEW x, \A g \in Facts : s[g] = {} <=> r[g] = {}
    PROVE  StorePlaces(r, x) = StorePlaces(s, x)
BY DEF StorePlaces

LEMMA JournalPlacesFinite ==
    ASSUME NEW s \in Seq(Entries), NEW x
    PROVE  IsFiniteSet(JournalPlaces(s, x)) /\ Cardinality(JournalPlaces(s, x)) \in Nat
<1>1. Len(s) \in Int /\ 1 \in Int /\ 3 \in Int /\ DOMAIN s = 1..Len(s)
  OBVIOUS
<1>2. IsFiniteSet(DOMAIN s) /\ IsFiniteSet(1..3)
  BY <1>1, FS_Interval, Zenon
<1>3. IsFiniteSet((DOMAIN s) \X (1..3))
  BY <1>2, FS_Product
<1>4. JournalPlaces(s, x) \in SUBSET ((DOMAIN s) \X (1..3))
  BY DEF JournalPlaces
<1> QED
  BY <1>3, <1>4, FS_Subset, FS_CardinalityType

\* A journal entry holds the symbols of its fact.
LEMMA EntryAppears ==
    ASSUME NEW s \in Seq(Entries), NEW e \in Entries, NEW r, r = Append(s, e), NEW x
    PROVE  Cardinality(JournalPlaces(r, x)) =
               Cardinality(JournalPlaces(s, x)) + Occurrences(x, e.fact)
<1> DEFINE n == Len(s) + 1
           f == e.fact
           N == {n} \X {i \in 1..3 : f[i] = x}
<1>0. /\ Len(s) \in Nat /\ DOMAIN r = 1..n /\ DOMAIN s = 1..Len(s)
      /\ \A i \in 1..Len(s) : r[i] = s[i]
      /\ r[n] = e
  BY PushFacts
<1>1. JournalPlaces(r, x) = JournalPlaces(s, x) \union N
  <2>1. ASSUME NEW at \in (1..n) \X (1..3)
        PROVE  at \in JournalPlaces(r, x) <=> at \in JournalPlaces(s, x) \/ at \in N
    <3>1. at = <<at[1], at[2]>> /\ at[1] \in 1..n /\ at[2] \in 1..3
      OBVIOUS
    <3>2. CASE at[1] = n
      BY <1>0, <3>1, <3>2 DEF JournalPlaces
    <3>3. CASE at[1] # n
      <4>1. at[1] \in 1..Len(s)
        BY <1>0, <3>1, <3>3
      <4> QED
        BY <1>0, <3>1, <3>3, <4>1 DEF JournalPlaces
    <3> QED
      BY <3>2, <3>3
  <2>2. 1..Len(s) \subseteq 1..n /\ n \in 1..n
    BY <1>0
  <2>3. JournalPlaces(r, x) \subseteq (1..n) \X (1..3)
          /\ JournalPlaces(s, x) \subseteq (1..n) \X (1..3)
        /\ N \subseteq (1..n) \X (1..3)
    <3> HIDE DEF n
    <3> QED
      BY <1>0, <2>2 DEF JournalPlaces
  <2> QED
    BY <2>1, <2>3
<1>2. JournalPlaces(s, x) \intersect N = {}
  BY <1>0 DEF JournalPlaces
<1>3. IsFiniteSet(N) /\ Cardinality(N) = Occurrences(x, f)
  BY FactPlaces
<1>4. IsFiniteSet(JournalPlaces(s, x))
  BY JournalPlacesFinite
<1> HIDE DEF N, f
<1>5. Cardinality(JournalPlaces(r, x)) = Cardinality(JournalPlaces(s, x)) + Cardinality(N)
  BY <1>1, <1>2, <1>3, <1>4, PlacesAdd
<1> QED
  BY <1>3, <1>5 DEF f

Present(support) == IF support = {} THEN 0 ELSE 1

\* A step that changes one fact changes the places by what has come or gone.
LEMMA StorePlacesStep ==
    ASSUME NEW s, NEW r, NEW f \in Facts, \A g \in Facts \ {f} : r[g] = s[g],
           NEW x, IsFiniteSet(StorePlaces(s, x))
    PROVE  /\ IsFiniteSet(StorePlaces(r, x))
           /\ Cardinality(StorePlaces(s, x)) \in Nat
           /\ Cardinality(StorePlaces(r, x)) =
                  Cardinality(StorePlaces(s,
                          x)) + (Present(r[f]) - Present(s[f])) * Occurrences(x, f)
<1>0. Occurrences(x, f) \in Nat /\ Cardinality(StorePlaces(s, x)) \in Nat
  BY OccurrencesNat, FS_CardinalityType
<1>1. CASE s[f] = {} /\ r[f] # {}
  <2>1. /\ IsFiniteSet(StorePlaces(r, x))
        /\ Cardinality(StorePlaces(r, x)) = Cardinality(StorePlaces(s, x)) + Occurrences(x, f)
    BY <1>1, FactAppears
  <2> QED
    BY <1>0, <1>1, <2>1 DEF Present
<1>2. CASE s[f] # {} /\ r[f] = {}
  <2>1. /\ IsFiniteSet(StorePlaces(r, x))
        /\ Cardinality(StorePlaces(r, x)) = Cardinality(StorePlaces(s, x)) - Occurrences(x, f)
    BY <1>2, FactDisappears
  <2> QED
    BY <1>0, <1>2, <2>1 DEF Present
<1>3. CASE s[f] = {} <=> r[f] = {}
  <2>1. StorePlaces(r, x) = StorePlaces(s, x)
    BY <1>3, FactStays
  <2>2. Present(r[f]) - Present(s[f]) = 0
    BY <1>3 DEF Present
  <2> QED
    BY <1>0, <2>1, <2>2
<1> QED
  BY <1>1, <1>2, <1>3

\* What facts_add_fact_origin and facts_remove_fact_origin do to one fact: the
\* entry says "STATE" only if the fact was there and stays, and the counts follow.
Recorded(f) ==
    \/ UNCHANGED <<store, journal, refs>>
    \/ \E e \in Entries :
          /\ e.fact = f
          /\ journal' = IF depth = 0 THEN journal ELSE Append(journal, e)
          /\ \A g \in Facts \ {f} : store'[g] = store[g]
          /\ e.action = "STATE" => store[f] # {} /\ store'[f] # {}
          /\ Refer(f, Held + (Present(store'[f]) - Present(store[f])))

LEMMA AddFactRecords ==
    ASSUME TypeOK, NEW f \in Facts, NEW origin \in Origins, AddFact(f, origin)
    PROVE  Recorded(f)
<1>1. CASE origin \in store[f]
  BY <1>1 DEF AddFact, Recorded
<1>2. CASE origin \notin store[f]
  <2>0. store \in [Facts -> SUBSET Origins] /\ store[f] \subseteq Origins /\ Held \in Int
    BY DEF TypeOK, Held
  <2>1. store' = [store EXCEPT ![f] = @ \union {origin}]
    BY <1>2 DEF AddFact
  <2>2. store'[f] # {} /\ \A g \in Facts \ {f} : store'[g] = store[g]
    BY <2>0, <2>1
  <2>3. CASE store[f] = {}
    <3> DEFINE e == [action |-> "REMOVE", fact |-> f, support |-> {origin}]
    <3>1. journal' = (IF depth = 0 THEN journal ELSE Append(journal, e)) /\ Refer(f, 1 + Held)
      BY <1>2, <2>3 DEF AddFact, Journalled
    <3>2. e \in Entries /\ e.fact = f /\ e.action # "STATE"
      BY DEF Entries, Actions
    <3>3. Held + (Present(store'[f]) - Present(store[f])) = 1 + Held
      BY <2>0, <2>2, <2>3 DEF Present
    <3> HIDE DEF e
    <3> QED
      BY <2>2, <3>1, <3>2, <3>3 DEF Recorded
  <2>4. CASE store[f] # {}
    <3> DEFINE e == [action |-> "STATE", fact |-> f, support |-> store[f]]
    <3>1. journal' = (IF depth = 0 THEN journal ELSE Append(journal, e)) /\ Refer(f, Held)
      BY <1>2, <2>4 DEF AddFact, Journalled
    <3>2. e \in Entries /\ e.fact = f
      BY <2>0 DEF Entries, Actions
    <3>3. Held + (Present(store'[f]) - Present(store[f])) = Held
      BY <2>0, <2>2, <2>4 DEF Present
    <3> HIDE DEF e
    <3> QED
      BY <2>2, <2>4, <3>1, <3>2, <3>3 DEF Recorded
  <2> QED
    BY <2>3, <2>4
<1> QED
  BY <1>1, <1>2

LEMMA RemoveFactRecords ==
    ASSUME TypeOK, NEW f \in Facts, NEW origin \in Origins, RemoveFact(f, origin)
    PROVE  Recorded(f)
<1>1. CASE origin \notin store[f]
  BY <1>1 DEF RemoveFact, Recorded
<1>2. CASE origin \in store[f]
  <2>0. store \in [Facts -> SUBSET Origins] /\ store[f] \subseteq Origins /\ Held \in Int
    BY DEF TypeOK, Held
  <2>1. store' = [store EXCEPT ![f] = @ \ {origin}]
    BY <1>2 DEF RemoveFact
  <2>2. store'[f] = store[f] \ {origin} /\ \A g \in Facts \ {f} : store'[g] = store[g]
    BY <2>0, <2>1
  <2>3. CASE store[f] = {origin}
    <3> DEFINE e == [action |-> "ADD", fact |-> f, support |-> store[f]]
    <3>1. journal' = (IF depth = 0 THEN journal ELSE Append(journal, e)) /\ Refer(f, Held - 1)
      BY <1>2, <2>3 DEF RemoveFact, Journalled
    <3>2. e \in Entries /\ e.fact = f /\ e.action # "STATE"
      BY <2>0 DEF Entries, Actions
    <3>3. Held + (Present(store'[f]) - Present(store[f])) = Held - 1
      BY <2>0, <2>2, <2>3 DEF Present
    <3> HIDE DEF e
    <3> QED
      BY <2>2, <3>1, <3>2, <3>3 DEF Recorded
  <2>4. CASE store[f] # {origin}
    <3> DEFINE e == [action |-> "STATE", fact |-> f, support |-> store[f]]
    <3>1. journal' = (IF depth = 0 THEN journal ELSE Append(journal, e)) /\ Refer(f, Held)
      BY <1>2, <2>4 DEF RemoveFact, Journalled
    <3>2. e \in Entries /\ e.fact = f
      BY <2>0 DEF Entries, Actions
    <3>3. store'[f] # {} /\ store[f] # {}
      BY <1>2, <2>2, <2>4
    <3>4. Held + (Present(store'[f]) - Present(store[f])) = Held
      BY <2>0, <3>3 DEF Present
    <3> HIDE DEF e
    <3> QED
      BY <2>2, <3>1, <3>2, <3>3, <3>4 DEF Recorded
  <2> QED
    BY <2>3, <2>4
<1> QED
  BY <1>1, <1>2

\* Such a step keeps the counts exact and every change recorded.
LEMMA RecordedKeeps ==
    ASSUME IInv, ChangeRecorded, FiniteStore, RefsExact, NEW f \in Facts, Recorded(f),
           UNCHANGED <<depth, snap, phase>>
    PROVE  ChangeRecorded' /\ FiniteStore' /\ RefsExact'
<1>1. CASE UNCHANGED <<store, journal, refs>>
  BY <1>1 DEF ChangeRecorded, FiniteStore, RefsExact, StorePlaces, Released
<1>2. CASE ~ UNCHANGED <<store, journal, refs>>
  <2>1. PICK e \in Entries :
          /\ e.fact = f
          /\ journal' = IF depth = 0 THEN journal ELSE Append(journal, e)
          /\ \A g \in Facts \ {f} : store'[g] = store[g]
          /\ e.action = "STATE" => store[f] # {} /\ store'[f] # {}
          /\ Refer(f, Held + (Present(store'[f]) - Present(store[f])))
    BY <1>2 DEF Recorded
  <2>2. journal \in Seq(Entries) /\ refs \in [Symbols -> Int] /\ Held \in Int
    BY DEF IInv, TypeOK, Held
  <2>3. ChangeRecorded'
    <3> SUFFICES ASSUME phase # "undo", depth > 0, NEW g \in Facts,
                        \A i \in DOMAIN journal' : journal'[i].fact = g
                                => journal'[i].action = "STATE"
                 PROVE  (snap[g] = {}) <=> (store'[g] = {})
      BY DEF ChangeRecorded
    <3>1. depth # 0
      BY DEF IInv, TypeOK, LockTypeOK
    <3>2. journal' = Append(journal, e)
      BY <2>1, <3>1
    <3>3. /\ Len(journal) \in Nat /\ DOMAIN journal' = 1..(Len(journal) + 1)
          /\ DOMAIN journal = 1..Len(journal)
          /\ \A i \in 1..Len(journal) : journal'[i] = journal[i]
          /\ journal'[Len(journal) + 1] = e
      BY <2>2, <3>2, PushFacts
    <3>4. \A i \in DOMAIN journal : journal[i].fact = g => journal[i].action = "STATE"
      BY <3>3
    <3>5. (snap[g] = {}) <=> (store[g] = {})
      BY <3>4 DEF ChangeRecorded
    <3>6. g = f => e.action = "STATE"
      BY <2>1, <3>3
    <3> QED
      BY <2>1, <3>5, <3>6
  <2>4. FiniteStore'
    BY <2>1, StorePlacesStep DEF FiniteStore
  <2>5. RefsExact'
    <3> SUFFICES ASSUME NEW x \in Symbols
                 PROVE  refs'[x] = Cardinality(JournalPlaces(journal',
                         x)) + Cardinality(StorePlaces(store', x))
      BY DEF RefsExact, Released, JournalPlaces, StorePlaces
    <3> DEFINE o == Occurrences(x, f)
               d == Present(store'[f]) - Present(store[f])
    <3>1. refs[x] = Cardinality(JournalPlaces(journal, x)) + Cardinality(StorePlaces(store, x))
      BY DEF RefsExact, Released, JournalPlaces, StorePlaces
    <3>2. refs'[x] = refs[x] + (Held + d) * o
      BY <2>1 DEF Refer
    <3>3. o \in Nat /\ d \in Int /\ refs[x] \in Int
      BY <2>2, OccurrencesNat DEF Present
    <3>4. /\ Cardinality(StorePlaces(store, x)) \in Nat
          /\ Cardinality(StorePlaces(store', x)) = Cardinality(StorePlaces(store, x)) + d * o
      BY <2>1, StorePlacesStep DEF FiniteStore
    <3>5. Cardinality(JournalPlaces(journal, x)) \in Nat
      BY <2>2, JournalPlacesFinite
    <3>6. Cardinality(JournalPlaces(journal', x)) = Cardinality(JournalPlaces(journal,
            x)) + Held * o
      <4>1. CASE depth = 0
        BY <2>1, <3>3, <3>5, <4>1 DEF Held
      <4>2. CASE depth # 0
        <5>1. journal' = Append(journal, e)
          BY <2>1, <4>2
        <5>2. Cardinality(JournalPlaces(journal', x)) = Cardinality(JournalPlaces(journal,
                x)) + Occurrences(x, e.fact)
          BY <2>2, <5>1, EntryAppears
        <5> QED
          BY <2>1, <3>3, <4>2, <5>2 DEF Held
      <4> QED
        BY <4>1, <4>2
    <3> HIDE DEF o, d
    <3>7. (Held + d) * o = Held * o + d * o
      BY <2>2, <3>3
    <3>8. Held * o \in Int /\ d * o \in Int
      BY <2>2, <3>3
    <3> QED
      BY <3>1, <3>2, <3>3, <3>4, <3>5, <3>6, <3>7, <3>8
  <2> QED
    BY <2>3, <2>4, <2>5
<1> QED
  BY <1>1, <1>2

\* Undoing the last entry gives its symbols back.
LEMMA UndoReleases ==
    ASSUME IInv, FiniteStore, RefsExact, journal # <<>>,
           NEW e, e = journal[Len(journal)], Undo(e),
           journal' = [i \in 1..(Len(journal) - 1) |-> journal[i]]
    PROVE  FiniteStore' /\ RefsExact'
<1> DEFINE f == e.fact
<1>1. /\ e \in Entries /\ journal' \in Seq(Entries) /\ journal \in Seq(Entries)
      /\ Len(journal') = Len(journal) - 1 /\ Len(journal) \in Nat \ {0}
      /\ \A i \in 1..(Len(journal) - 1) : journal'[i] = journal[i]
      /\ Len(journal) \in DOMAIN journal
  BY PopFacts DEF IInv, TypeOK
<1>2. f \in Facts /\ e.support \subseteq Origins /\ e.action \in Actions /\ e.support # {}
  BY <1>1 DEF Entries, IInv, EntriesSupported
<1>3. store \in [Facts -> SUBSET Origins] /\ refs \in [Symbols -> Int]
  BY DEF IInv, TypeOK
<1>4. /\ \A g \in Facts \ {f} : store'[g] = store[g]
      /\ Refer(f, Present(store'[f]) - Present(store[f]) - 1)
  <2>1. CASE e.action = "REMOVE"
    <3>1. /\ store' = [store EXCEPT ![f] = {}]
          /\ Refer(f, IF store[f] = {} THEN 0 - 1 ELSE 0 - 2)
      BY <2>1 DEF Undo
    <3>2. store'[f] = {} /\ \A g \in Facts \ {f} : store'[g] = store[g]
      BY <1>2, <1>3, <3>1
    <3>3. Present(store'[f]) - Present(store[f]) - 1 = IF store[f] = {} THEN 0 - 1 ELSE 0 - 2
      BY <3>2 DEF Present
    <3> QED
      BY <3>1, <3>2, <3>3
  <2>2. CASE e.action = "ADD" /\ store[f] = {} /\ store' = [store EXCEPT ![f] = e.support]
          /\ Refer(f, 0)
    <3>1. store'[f] # {} /\ \A g \in Facts \ {f} : store'[g] = store[g]
      BY <1>2, <1>3, <2>2
    <3>2. Present(store'[f]) - Present(store[f]) - 1 = 0
      BY <2>2, <3>1 DEF Present
    <3> QED
      BY <2>2, <3>1, <3>2
  <2>3. CASE store' = store /\ Refer(f, 0 - 1)
    <3>1. Present(store'[f]) - Present(store[f]) - 1 = 0 - 1
      BY <2>3 DEF Present
    <3> QED
      BY <2>3, <3>1
  <2>4. CASE e.action = "STATE" /\ store[f] # {} /\ store' = [store EXCEPT ![f] = e.support]
          /\ Refer(f, 0 - 1)
    <3>1. store'[f] # {} /\ \A g \in Facts \ {f} : store'[g] = store[g]
      BY <1>2, <1>3, <2>4
    <3>2. Present(store'[f]) - Present(store[f]) - 1 = 0 - 1
      BY <2>4, <3>1 DEF Present
    <3> QED
      BY <2>4, <3>1, <3>2
  <2> QED
    BY <2>1, <2>2, <2>3, <2>4 DEF Undo
<1>a. f = e.fact
  OBVIOUS
<1> HIDE DEF f
<1>5. FiniteStore'
  BY <1>2, <1>4, StorePlacesStep DEF FiniteStore
<1>6. journal = Append(journal', e)
  <2>1. Append(journal', e) \in Seq(Entries) /\ Len(Append(journal', e)) = Len(journal)
    BY <1>1
  <2>2. \A i \in 1..Len(journal) : Append(journal', e)[i] = journal[i]
    <3> TAKE i \in 1..Len(journal)
    <3>1. CASE i = Len(journal)
      BY <1>1, <3>1
    <3>2. CASE i # Len(journal)
      <4>1. i \in 1..Len(journal')
        BY <1>1, <3>2
      <4>2. Append(journal', e)[i] = journal'[i]
        BY <1>1, <4>1
      <4> QED
        BY <1>1, <4>1, <4>2
    <3> QED
      BY <3>1, <3>2
  <2> QED
    BY <1>1, <2>1, <2>2, SeqEqual
<1>7. RefsExact'
  <2> SUFFICES ASSUME NEW x \in Symbols
               PROVE  refs'[x] = Cardinality(JournalPlaces(journal',
                       x)) + Cardinality(StorePlaces(store', x))
    BY DEF RefsExact, Released, JournalPlaces, StorePlaces
  <2> DEFINE o == Occurrences(x, f)
             d == Present(store'[f]) - Present(store[f])
  <2>1. refs[x] = Cardinality(JournalPlaces(journal, x)) + Cardinality(StorePlaces(store, x))
    BY DEF RefsExact, Released, JournalPlaces, StorePlaces
  <2>2. refs'[x] = refs[x] + (d - 1) * o
    BY <1>4 DEF Refer
  <2>3. o \in Nat /\ d \in Int /\ refs[x] \in Int
    BY <1>3, OccurrencesNat DEF Present
  <2>4. /\ Cardinality(StorePlaces(store, x)) \in Nat
        /\ Cardinality(StorePlaces(store', x)) = Cardinality(StorePlaces(store, x)) + d * o
    BY <1>2, <1>4, StorePlacesStep DEF FiniteStore
  <2>5. Cardinality(JournalPlaces(journal', x)) \in Nat
    BY <1>1, JournalPlacesFinite
  <2>6. Cardinality(JournalPlaces(journal, x)) = Cardinality(JournalPlaces(journal', x)) + o
    <3>1. Cardinality(JournalPlaces(journal, x)) =
              Cardinality(JournalPlaces(journal', x)) + Occurrences(x, e.fact)
      <4>1. e \in Entries /\ journal' \in Seq(Entries)
        BY <1>1
      <4> QED
        <5>1. PICK s \in Seq(Entries), a \in Entries : s = journal' /\ a = e
          BY <4>1
        <5>2. PICK r : r = Append(s, a) /\ r = journal
          BY <1>6, <5>1
        <5>3. Cardinality(JournalPlaces(r, x)) = Cardinality(JournalPlaces(s, x)) + Occurrences(x, a.fact)
          BY <5>2, EntryAppears
        <5> QED
          BY <5>1, <5>2, <5>3, Zenon
    <3> QED
      BY <1>a, <3>1
  <2> HIDE DEF o, d
  <2>7. (d - 1) * o = d * o - o /\ d * o \in Int
    BY <2>3
  <2> QED
    BY <2>1, <2>2, <2>3, <2>4, <2>5, <2>6, <2>7
<1> QED
  BY <1>5, <1>7

\* facts_set_prop: the facts it removes, and then the one it adds.
LEMMA PropStarts ==
    ASSUME TypeOK, todo' \in Calls, UNCHANGED store
    PROVE  PropUnderWay'
<1> SUFFICES ASSUME NEW f \in todo'.prop
             PROVE  /\ todo'.origin = "asserted"
                    /\ todo'.add \subseteq {f}
                    /\ \A g \in Asserted : g[1] = f[1] /\ g[2] = f[2] => g = f
                            \/ g \in todo'.remove
                    /\ f \in todo'.add
  BY DEF PropUnderWay, Asserted
<1>1. todo' \in SetProp
  <2>1. \A o \in Origins : \A c \in AddSpo(o) \union RemoveSpo(o) : c.prop = {}
    <3> TAKE o \in Origins
    <3>1. ASSUME NEW c \in AddSpo(o) PROVE c.prop = {}
      <4>1. PICK h \in Facts : c = [Nothing EXCEPT !.add = {h}, !.origin = o]
        BY <3>1, Zenon DEF AddSpo
      <4> QED
        BY <4>1 DEF Nothing
    <3>2. ASSUME NEW c \in RemoveSpo(o) PROVE c.prop = {}
      <4>1. PICK h \in Facts : c = [Nothing EXCEPT !.remove = {h}, !.origin = o]
        BY <3>2, Zenon DEF RemoveSpo
      <4> QED
        BY <4>1 DEF Nothing
    <3> QED
      BY <3>1, <3>2
  <2>2. \A c \in AddSpec \union RemoveSpec \union RemoveAllDerived : c.prop = {}
    BY DEF AddSpec, RemoveSpec, RemoveAllDerived, Nothing
  <2> QED
    BY <2>1, <2>2 DEF Calls, Origins
<1>2. PICK h \in Facts : todo' = [Nothing EXCEPT !.remove = WithProp(h[1], h[2]), !.add = {h}, !.prop = {h}]
  BY <1>1, Zenon DEF SetProp
<1>3. f = h /\ todo'.add = {h} /\ todo'.origin = "asserted"
        /\ todo'.remove = WithProp(h[1], h[2])
  BY <1>2 DEF Nothing
<1>4. \A g \in Asserted : g[1] = h[1] /\ g[2] = h[2] => g \in WithProp(h[1], h[2])
  BY DEF Asserted, WithProp
<1> QED
  BY <1>3, <1>4

LEMMA PropRemoves ==
    ASSUME TypeOK, PropUnderWay, NEW f \in todo.remove, RemoveFact(f, todo.origin),
           todo' = [todo EXCEPT !.remove = @ \ {f}]
    PROVE  PropUnderWay'
<1>1. todo \in Work /\ f \in Facts /\ store \in [Facts -> SUBSET Origins]
  BY DEF TypeOK, Work
<1>2. /\ todo'.remove = todo.remove \ {f} /\ todo'.add = todo.add /\ todo'.prop = todo.prop
      /\ todo'.origin = todo.origin
  BY <1>1 DEF Work
<1>3. todo.origin = "asserted" => Asserted' = Asserted \ {f}
  BY <1>1 DEF RemoveFact, Asserted
<1> SUFFICES ASSUME NEW h \in todo.prop
             PROVE  /\ todo'.origin = "asserted"
                    /\ todo'.add \subseteq {h}
                    /\ \A g \in Asserted' : g[1] = h[1] /\ g[2] = h[2] => g = h
                            \/ g \in todo'.remove
                    /\ h \in todo'.add
  BY <1>2 DEF PropUnderWay
<1>4. /\ todo.origin = "asserted" /\ todo.add \subseteq {h} /\ h \in todo.add
      /\ \A g \in Asserted : g[1] = h[1] /\ g[2] = h[2] => g = h \/ g \in todo.remove
  BY DEF PropUnderWay
<1> QED
  BY <1>2, <1>3, <1>4

LEMMA PropAdds ==
    ASSUME TypeOK, PropUnderWay, todo.remove = {}, NEW f \in todo.add, AddFact(f, todo.origin),
           todo' = [todo EXCEPT !.add = @ \ {f}]
    PROVE  PropUnderWay'
<1>1. todo \in Work /\ f \in Facts /\ store \in [Facts -> SUBSET Origins]
  BY DEF TypeOK, Work
<1>2. /\ todo'.remove = {} /\ todo'.add = todo.add \ {f} /\ todo'.prop = todo.prop
      /\ todo'.origin = todo.origin
  BY <1>1 DEF Work
<1>3. todo.origin = "asserted" => Asserted' = Asserted \union {f}
  BY <1>1 DEF AddFact, Asserted
<1> SUFFICES ASSUME NEW h \in todo.prop
             PROVE  /\ todo'.origin = "asserted"
                    /\ todo'.add \subseteq {h}
                    /\ \A g \in Asserted' : g[1] = h[1] /\ g[2] = h[2] => g = h
                    /\ h \in Asserted'
  BY <1>2 DEF PropUnderWay
<1>4. /\ todo.origin = "asserted" /\ todo.add \subseteq {h}
      /\ \A g \in Asserted : g[1] = h[1] /\ g[2] = h[2] => g = h
  BY DEF PropUnderWay
<1> QED
  BY <1>2, <1>3, <1>4

-----------------------------------------------------------------------------

LEMMA InitRecording == Init => Recording
<1> SUFFICES ASSUME Init PROVE Recording
  OBVIOUS
<1>1. ChangeRecorded /\ PropUnderWay
  BY DEF Init, LockInit, ChangeRecorded, PropUnderWay, Nothing
<1>2. \A x \in Symbols : StorePlaces(store, x) = {}
  BY DEF Init, StorePlaces
<1>3. FiniteStore
  BY <1>2, FS_EmptySet DEF FiniteStore
<1>4. RefsExact
  <2> SUFFICES ASSUME NEW x \in Symbols
               PROVE  refs[x] = Cardinality(JournalPlaces(journal,
                       x)) + Cardinality(StorePlaces(store, x))
    BY DEF RefsExact, Released, JournalPlaces, StorePlaces
  <2>1. JournalPlaces(journal, x) = {}
    BY DEF Init, JournalPlaces
  <2>2. Cardinality(JournalPlaces(journal, x)) = 0 /\ Cardinality(StorePlaces(store, x)) = 0
    BY <1>2, <2>1, FS_EmptySet, Zenon
  <2>3. refs[x] = 0
    BY DEF Init
  <2> QED
    BY <2>2, <2>3
<1> QED
  BY <1>1, <1>3, <1>4 DEF Recording

\* A step that leaves the store, the journal and the counts alone.
LEMMA QuietRecording ==
    ASSUME ChangeRecorded, FiniteStore, RefsExact, UNCHANGED <<store, journal, refs, snap>>,
           phase' # "undo" /\ depth' > 0 => phase # "undo" /\ depth > 0
    PROVE  ChangeRecorded' /\ FiniteStore' /\ RefsExact'
BY DEF ChangeRecorded, FiniteStore, RefsExact, StorePlaces, Released

\* The end of a commit releases the whole journal, a reset the whole store.
LEMMA EmptiedJournal ==
    ASSUME TypeOK, FiniteStore, RefsExact, journal' = <<>>, UNCHANGED store,
           refs' = [x \in Symbols |-> refs[x] - Released(x)]
    PROVE  FiniteStore' /\ RefsExact'
<1>1. FiniteStore'
  BY DEF FiniteStore, StorePlaces
<1>2. RefsExact'
  <2> SUFFICES ASSUME NEW x \in Symbols
               PROVE  refs'[x] = Cardinality(JournalPlaces(journal',
                       x)) + Cardinality(StorePlaces(store', x))
    BY DEF RefsExact, Released, JournalPlaces, StorePlaces
  <2>0. JournalPlaces(journal', x) = {}
    BY DEF JournalPlaces
  <2>1. Cardinality(JournalPlaces(journal', x)) = 0
    BY <2>0, FS_EmptySet, Zenon
  <2>2. refs[x] = Released(x) + Cardinality(StorePlaces(store, x))
    BY DEF RefsExact, StorePlaces
  <2>3. Released(x) \in Nat /\ Cardinality(StorePlaces(store, x)) \in Nat
    BY ReleasedNat, FS_CardinalityType DEF TypeOK, FiniteStore
  <2>4. refs'[x] = refs[x] - Released(x)
    OBVIOUS
  <2>5. StorePlaces(store', x) = StorePlaces(store, x)
    BY DEF StorePlaces
  <2> QED
    BY <2>1, <2>2, <2>3, <2>4, <2>5
<1> QED
  BY <1>1, <1>2

LEMMA EmptiedStore ==
    ASSUME journal = <<>>, UNCHANGED journal, store' = [f \in Facts |-> {}],
           refs' = [x \in Symbols |-> 0]
    PROVE  FiniteStore' /\ RefsExact'
<1>1. \A x \in Symbols : StorePlaces(store', x) = {} /\ JournalPlaces(journal', x) = {}
  BY DEF StorePlaces, JournalPlaces
<1>2. IsFiniteSet({}) /\ Cardinality({}) = 0
  BY FS_EmptySet
<1>3. FiniteStore'
  BY <1>1, <1>2 DEF FiniteStore
<1>4. \A x \in Symbols : refs'[x] = Cardinality(JournalPlaces(journal',
        x)) + Cardinality(StorePlaces(store', x))
  <2> TAKE x \in Symbols
  <2>1. Cardinality(JournalPlaces(journal', x)) = 0 /\ Cardinality(StorePlaces(store', x)) = 0
    BY <1>1, <1>2, Zenon
  <2> QED
    BY <2>1
<1> QED
  BY <1>3, <1>4 DEF RefsExact, Released, JournalPlaces, StorePlaces

LEMMA StepRecording ==
    ASSUME IInv, Recording, NEW t \in Threads, Step(t)
    PROVE  Recording'
<1>0. TypeOK /\ JournalOwned /\ ChangeRecorded /\ PropUnderWay /\ FiniteStore /\ RefsExact
  BY DEF IInv, Recording
<1>a. todo \in Work /\ Nothing.prop = {}
  BY <1>0 DEF TypeOK, Nothing
<1>1. CASE Call(t)
  <2>1. depth' = 0
    BY <1>0, <1>1 DEF Call, TakeOp, Free, JournalOwned
  <2>2. ChangeRecorded' /\ FiniteStore' /\ RefsExact'
    BY <1>0, <1>1, <2>1 DEF Call, ChangeRecorded, FiniteStore, RefsExact, StorePlaces, Released
  <2>3. PropUnderWay'
    BY <1>0, <1>1, PropStarts DEF Call
  <2> QED
    BY <2>2, <2>3 DEF Recording
<1>2. CASE CallInTransaction(t)
  <2>1. PropUnderWay'
    BY <1>0, <1>2, PropStarts DEF CallInTransaction
  <2> QED
    BY <1>0, <1>2, <2>1, QuietRecording DEF CallInTransaction, lockVars, Recording
<1>3. CASE RemoveNext(t)
  <2>1. PICK f \in todo.remove : /\ RemoveFact(f, todo.origin)
                                 /\ todo' = [todo EXCEPT !.remove = @ \ {f}]
    BY <1>3 DEF RemoveNext
  <2>2. f \in Facts /\ todo.origin \in Origins
    BY <1>a DEF Work
  <2>3. PropUnderWay'
    BY <1>0, <2>1, PropRemoves
  <2>4. Recorded(f)
    BY <1>0, <2>1, <2>2, RemoveFactRecords
  <2> QED
    BY <1>0, <1>3, <2>2, <2>3, <2>4, RecordedKeeps DEF RemoveNext, lockVars, Recording
<1>4. CASE AddNext(t)
  <2>1. PICK f \in todo.add : /\ AddFact(f, todo.origin)
                              /\ todo' = [todo EXCEPT !.add = @ \ {f}]
    BY <1>4 DEF AddNext
  <2>2. f \in Facts /\ todo.origin \in Origins
    BY <1>a DEF Work
  <2>3. PropUnderWay'
    BY <1>0, <1>4, <2>1, PropAdds DEF AddNext
  <2>4. Recorded(f)
    BY <1>0, <2>1, <2>2, AddFactRecords
  <2> QED
    BY <1>0, <1>4, <2>2, <2>3, <2>4, RecordedKeeps DEF AddNext, lockVars, Recording
<1>5. CASE OutOfMemory(t)
  <2>1. todo'.prop = {}
    <3>1. CASE todo' = Nothing
      BY <1>a, <3>1
    <3>2. ASSUME NEW f \in todo.remove, todo' = [todo EXCEPT !.remove = @ \ {f}, !.prop = {}]
          PROVE  todo'.prop = {}
      BY <1>a, <3>2 DEF Work
    <3> QED
      BY <1>5, <3>1, <3>2, Zenon DEF OutOfMemory
  <2>2. PropUnderWay'
    BY <2>1 DEF PropUnderWay
  <2>3. UNCHANGED <<store, journal, refs, snap, phase, depth>>
    BY <1>5, Zenon DEF OutOfMemory, lockVars
  <2> QED
    BY <1>0, <2>2, <2>3, QuietRecording DEF Recording
<1>6. CASE Return(t)
  <2>1. PropUnderWay'
    BY <1>6, <1>a DEF Return, PropUnderWay
  <2>2. phase' # "undo" /\ depth' > 0 => phase # "undo" /\ depth > 0
    BY <1>6 DEF Return, Drop, lockVars
  <2> QED
    BY <1>0, <1>6, <2>1, <2>2, QuietRecording DEF Return, Recording
<1>7. CASE Reset(t)
  <2>1. depth = 0 /\ journal = <<>> /\ todo = Nothing
    BY <1>0, <1>7 DEF Reset, Free, JournalOwned
  <2>2. ChangeRecorded' /\ PropUnderWay'
    BY <1>7, <1>a, <2>1 DEF Reset, lockVars, ChangeRecorded, PropUnderWay
  <2> QED
    BY <1>7, <2>1, <2>2, EmptiedStore DEF Reset, Recording
<1>8. CASE Begin(t)
  <2>1. ChangeRecorded' /\ FiniteStore' /\ RefsExact'
    BY <1>0, <1>8 DEF Begin, ChangeRecorded, FiniteStore, RefsExact, StorePlaces, Released
  <2>2. PropUnderWay'
    BY <1>0, <1>8 DEF Begin, PropUnderWay, Asserted
  <2> QED
    BY <2>1, <2>2 DEF Recording
<1>9. CASE Commit(t)
  <2>1. FiniteStore' /\ RefsExact'
    BY <1>0, <1>9, EmptiedJournal DEF Commit
  <2>2. ChangeRecorded' /\ PropUnderWay'
    BY <1>0, <1>9 DEF Commit, Drop, ChangeRecorded, PropUnderWay, Asserted
  <2> QED
    BY <2>1, <2>2 DEF Recording
<1>10. CASE UndoNext(t)
  <2>1. FiniteStore' /\ RefsExact'
    BY <1>0, <1>10, UndoReleases DEF UndoNext
  <2>2. todo.prop = {} /\ todo' = todo
    BY <1>0, <1>10, <1>a DEF UndoNext, JournalOwned
  <2>3. ChangeRecorded' /\ PropUnderWay'
    BY <1>10, <2>2 DEF UndoNext, ChangeRecorded, PropUnderWay
  <2> QED
    BY <2>1, <2>3 DEF Recording
<1>11. CASE Nested(t) \/ Listen(t) \/ Notify(t) \/ Rollback(t) \/ RolledBack(t)
        \/ ReadBegin(t) \/ ReadEnd(t)
  <2>1. UNCHANGED <<store, journal, refs, snap, todo>>
    BY <1>11 DEF Nested, Listen, Notify, Rollback, RolledBack, ReadBegin, ReadEnd
  <2>2. phase' # "undo" /\ depth' > 0 => phase # "undo" /\ depth > 0
    BY <1>11 DEF Nested, Nest, Unnest, Listen, Notify, Rollback, RolledBack, ReadBegin, ReadEnd,
                 Drop, StartReading, StopReading, lockVars, Ready
  <2>3. PropUnderWay'
    BY <1>0, <2>1 DEF PropUnderWay, Asserted
  <2> QED
    BY <1>0, <2>1, <2>2, <2>3, QuietRecording DEF Recording
<1> QED
  BY <1>1, <1>2, <1>3, <1>4, <1>5, <1>6, <1>7, <1>8, <1>9, <1>10, <1>11 DEF Step

LEMMA NextRecording == IInv /\ Recording /\ [Next]_vars => Recording'
<1> SUFFICES ASSUME IInv, Recording, [Next]_vars PROVE Recording'
  OBVIOUS
<1>1. CASE Next
  BY <1>1, StepRecording DEF Next
<1>2. CASE UNCHANGED vars
  <2>1. UNCHANGED <<store, journal, refs, snap, phase, depth, todo>>
    BY <1>2 DEF vars
  <2>2. PropUnderWay'
    BY <2>1 DEF Recording, PropUnderWay, Asserted
  <2> QED
    BY <2>1, <2>2, QuietRecording DEF Recording
<1> QED
  BY <1>1, <1>2

LEMMA RecordingHolds == Spec => []Recording
BY InitRecording, NextRecording, InvariantHolds, PTL DEF Spec

\* The usage count that facts_intern and facts_unintern keep of a symbol is the
\* number of positions of stored facts and of journal entries that hold it, in the
\* middle of a transaction, of a commit and of a rollback too.
THEOREM RefsCorrect == Spec => []RefsExact
<1>1. Recording => RefsExact
  BY DEF Recording
<1> QED
  BY <1>1, RecordingHolds, PTL

\* The summary of transaction_commit_impl names the subject of every fact that the
\* transaction made appear or disappear.
THEOREM ChangesAnnounced == Spec => ChangeAnnounced
<1>1. ASSUME IInv, Recording, NEW t \in Threads, Commit(t), NEW f \in Facts,
             (snap[f] = {}) # (store[f] = {})
      PROVE  f[1] \in notify'[t]
  <2>1. phase # "undo" /\ depth > 0
    BY <1>1 DEF Commit, Ready
  <2>2. PICK i \in DOMAIN journal : journal[i].fact = f /\ journal[i].action # "STATE"
    BY <1>1, <2>1 DEF Recording, ChangeRecorded
  <2>3. f[1] \in Summary
    BY <2>2 DEF Summary
  <2>4. notify'[t] = Summary
    BY <1>1 DEF Commit, IInv, TypeOK
  <2> QED
    BY <2>3, <2>4
<1>2. IInv /\ Recording =>
        [\A t \in Threads : Commit(t) =>
            \A f \in Facts : (snap[f] = {}) # (store[f] = {}) => f[1] \in notify'[t]]_vars
  BY <1>1
<1> QED
  BY <1>2, InvariantHolds, RecordingHolds, PTL DEF ChangeAnnounced

\* When facts_set_prop returns without having failed, its value is the only
\* asserted one, inside a transaction and outside.
THEOREM PropsReplaced == Spec => PropReplaced
<1>1. ASSUME IInv, Recording, NEW t \in Threads, Return(t), NEW f \in todo.prop
      PROVE  {g \in Asserted : g[1] = f[1] /\ g[2] = f[2]} = {f}
  <2>1. todo.remove = {} /\ todo.add = {}
    BY <1>1 DEF Return, Idle
  <2>2. f \in Asserted /\ \A g \in Asserted : g[1] = f[1] /\ g[2] = f[2] => g = f
    BY <1>1, <2>1 DEF Recording, PropUnderWay
  <2> QED
    BY <2>2
<1>2. IInv /\ Recording =>
        [\A t \in Threads : Return(t) =>
            \A f \in todo.prop : {g \in Asserted : g[1] = f[1] /\ g[2] = f[2]} = {f}]_vars
  BY <1>1
<1> QED
  BY <1>2, InvariantHolds, RecordingHolds, PTL DEF PropReplaced
=============================================================================
