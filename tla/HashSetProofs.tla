--------------------------- MODULE HashSetProofs ---------------------------
(***************************************************************************)
(* For every set of keys, every hash function and every table size         *)
(* (HashSet.tla): set_get finds exactly the members, the counters are what *)
(* the table holds, and a lookup comes to a free slot.                     *)
(***************************************************************************)
EXTENDS HashSet, SequenceTheorems, FiniteSetTheorems, TLAPS

USE HashSetAssumption

\* A hash modulo the number of slots is a slot.
LEMMA BucketSlot ==
    ASSUME NEW k \in Keys, NEW m \in Nat \ {0}
    PROVE  Hash[k] % m \in 0..(m - 1)
<1>1. Hash[k] \in Nat
    OBVIOUS
<1>2. \A n \in Nat : n % m \in 0..(m - 1)
    BY SMT
<1> QED
    BY <1>1, <1>2

LEMMA FirstSlot ==
    ASSUME NEW m \in 1..MaxSlots
    PROVE  0 \in 0..(m - 1)
    OBVIOUS

\* The stack of resizes, and its three changes.
IsStack(s) ==
    /\ s \in Seq({s[n] : n \in DOMAIN s})
    /\ \A n \in DOMAIN s : IsFrame(s[n])

LEMMA StackFacts ==
    ASSUME NEW s, IsStack(s)
    PROVE  /\ Len(s) \in Nat
           /\ DOMAIN s = 1..Len(s)
           /\ s = <<>> <=> Len(s) = 0
    BY EmptySeq DEF IsStack

LEMMA StackOf ==
    ASSUME NEW S, NEW s \in Seq(S), \A n \in DOMAIN s : IsFrame(s[n])
    PROVE  IsStack(s)
<1> DEFINE R == {s[n] : n \in DOMAIN s}
<1>1. Len(s) \in Nat /\ DOMAIN s = 1..Len(s)
    OBVIOUS
<1>2. \A n \in 1..Len(s) : s[n] \in R
    BY <1>1
<1>3. s = [n \in 1..Len(s) |-> s[n]]
    OBVIOUS
<1> HIDE DEF R
<1>4. s \in Seq(R)
    BY <1>1, <1>2, <1>3
<1> QED
    BY <1>4 DEF IsStack, R

LEMMA AdvancedFacts ==
    ASSUME IsStack(frames), frames # <<>>, Top.next < Top.size
    PROVE  /\ IsStack(Advanced)
           /\ DOMAIN Advanced = DOMAIN frames
           /\ Len(Advanced) = Len(frames)
           /\ \A n \in DOMAIN frames : n # Len(frames) => Advanced[n] = frames[n]
           /\ Advanced[Len(frames)] = [Top EXCEPT !.next = @ + 1]
           /\ Len(frames) \in DOMAIN frames
<1> DEFINE top == [Top EXCEPT !.next = @ + 1]
           S == {frames[n] : n \in DOMAIN frames} \union {top}
<1>1. /\ Len(frames) \in Nat \ {0}
      /\ DOMAIN frames = 1..Len(frames)
      /\ Len(frames) \in DOMAIN frames
      /\ IsFrame(Top)
    BY StackFacts DEF Top, IsStack
<1>2. IsFrame(top)
    BY <1>1 DEF IsFrame
<1>3. Advanced = [frames EXCEPT ![Len(frames)] = top]
    BY DEF Advanced, Top
<1>4. /\ DOMAIN Advanced = 1..Len(frames)
      /\ \A n \in 1..Len(frames) : Advanced[n] = IF n = Len(frames) THEN top ELSE frames[n]
    BY <1>1, <1>3
<1>5. \A n \in 1..Len(frames) : Advanced[n] \in S
    BY <1>1, <1>4
<1>6. Advanced = [n \in 1..Len(frames) |-> Advanced[n]]
    BY <1>1, <1>3
<1> HIDE DEF top, S
<1>7. Advanced \in Seq(S) /\ Len(Advanced) = Len(frames)
    BY <1>1, <1>5, <1>6
<1>8. \A n \in DOMAIN Advanced : IsFrame(Advanced[n])
    BY <1>1, <1>2, <1>4 DEF IsStack
<1>9. IsStack(Advanced)
    BY <1>7, <1>8, StackOf
<1> QED
    BY <1>1, <1>4, <1>7, <1>9 DEF top

LEMMA BelowTopFacts ==
    ASSUME IsStack(frames), frames # <<>>
    PROVE  /\ IsStack(BelowTop)
           /\ Len(BelowTop) = Len(frames) - 1
           /\ DOMAIN BelowTop = 1..(Len(frames) - 1)
           /\ \A n \in DOMAIN BelowTop : BelowTop[n] = frames[n]
           /\ BelowTop = <<>> <=> Len(frames) = 1
<1> DEFINE S == {frames[n] : n \in DOMAIN frames}
<1>1. Len(frames) \in Nat \ {0} /\ DOMAIN frames = 1..Len(frames)
    BY StackFacts
<1>2. \A n \in 1..(Len(frames) - 1) : frames[n] \in S /\ IsFrame(frames[n])
    BY <1>1 DEF IsStack
<1> HIDE DEF S
<1>3. BelowTop \in Seq(S) /\ Len(BelowTop) = Len(frames) - 1
    BY <1>1, <1>2 DEF BelowTop
<1>4. DOMAIN BelowTop = 1..(Len(frames) - 1)
    BY <1>1 DEF BelowTop
<1>5. \A n \in DOMAIN BelowTop : BelowTop[n] = frames[n]
    BY <1>1 DEF BelowTop
<1>6. IsStack(BelowTop)
    BY <1>2, <1>3, <1>4, <1>5, StackOf
<1>7. BelowTop = <<>> <=> Len(BelowTop) = 0
    BY <1>6, StackFacts
<1> QED
    BY <1>1, <1>3, <1>4, <1>5, <1>6, <1>7

LEMMA PushFacts ==
    ASSUME NEW s, IsStack(s), NEW f, IsFrame(f)
    PROVE  /\ IsStack(Append(s, f))
           /\ Len(s) \in Nat
           /\ Len(Append(s, f)) = Len(s) + 1
           /\ DOMAIN Append(s, f) = 1..(Len(s) + 1)
           /\ \A n \in 1..Len(s) : Append(s, f)[n] = s[n]
           /\ Append(s, f)[Len(s) + 1] = f
           /\ Append(s, f) # <<>>
<1> DEFINE S == {s[n] : n \in DOMAIN s} \union {f}
           r == Append(s, f)
<1>1. Len(s) \in Nat /\ DOMAIN s = 1..Len(s) /\ s = [n \in 1..Len(s) |-> s[n]]
    BY StackFacts DEF IsStack
<1>2. \A n \in 1..Len(s) : s[n] \in S
    BY <1>1
<1>3. f \in S
    OBVIOUS
<1> HIDE DEF S
<1>4. s \in Seq(S)
    BY <1>1, <1>2
<1>5. /\ r \in Seq(S)
      /\ Len(r) = Len(s) + 1
      /\ DOMAIN r = 1..(Len(s) + 1)
      /\ \A n \in 1..Len(s) : r[n] = s[n]
      /\ r[Len(s) + 1] = f
    BY <1>1, <1>3, <1>4
<1> HIDE DEF r
<1>6. \A n \in 1..(Len(s) + 1) : n \in 1..Len(s) \/ n = Len(s) + 1
    BY <1>1
<1>7. \A n \in DOMAIN r : IsFrame(r[n])
    BY <1>1, <1>5, <1>6 DEF IsStack
<1>8. IsStack(r)
    BY <1>5, <1>7, StackOf
<1>9. r # <<>>
    BY <1>1, <1>5, <1>8, StackFacts
<1> QED
    BY <1>1, <1>5, <1>8, <1>9 DEF r

-----------------------------------------------------------------------------
(* Probing in one table *)

\* In a table where probing works, it finds what is stored and nothing else.
LEMMA FoundStored ==
    ASSUME max \in 1..MaxSlots, items \in [Slots -> Entries],
           Probed(items, max), Unique(items, max), NEW k \in Keys
    PROVE  Found(k) <=> Stores(items, max, k)
<1>1. ASSUME Found(k) PROVE Stores(items, max, k)
    BY <1>1 DEF Found, Stores, Slots
<1>2. ASSUME Stores(items, max, k) PROVE Found(k)
    <2>1. PICK s \in Slots : items[s] = k
        BY <1>2 DEF Stores, Slots
    <2>2. \A x \in Slots : Between(Bucket(k), x, s) => items[x] # Free
        BY <2>1 DEF Probed, Bucket, Slots
    <2>3. \A x \in Slots : Between(Bucket(k), x, s) => x # s
        BY DEF Between, Slots
    <2>4. \A x \in Slots : Between(Bucket(k), x, s) => items[x] # k
        BY <2>1, <2>3 DEF Unique, Slots
    <2> QED
        BY <2>1, <2>2, <2>4 DEF Found, ProbeEnds
<1> QED
    BY <1>1, <1>2

\* An insertion keeps it so and stores the key.
LEMMA PlaceKeeps ==
    ASSUME max \in 1..MaxSlots, items \in [Slots -> Entries],
           Probed(items, max), Unique(items, max),
           NEW k \in Keys, Place(k)
    PROVE  /\ max' = max
           /\ items' \in [Slots' -> Entries]
           /\ Probed(items', max')
           /\ Unique(items', max')
           /\ \A j \in Keys : Stores(items', max', j) <=> Stores(items, max, j) \/ j = k
<1>1. PICK i \in Slots :
          /\ ProbeEnds(k, i)
          /\ items' = [items EXCEPT ![i] = k]
          /\ max' = max
    BY DEF Place
<1>2. items' \in [Slots -> Entries] /\ Slots' = Slots
    BY <1>1 DEF Slots, Entries
<1>4. Bucket(k) \in Slots
    BY BucketSlot DEF Bucket, Slots
<1>5. items[i] = k \/ items[i] = Free
    BY <1>1 DEF ProbeEnds
<1>6. \A x \in Slots : items'[x] = IF x = i THEN k ELSE items[x]
    BY <1>1
<1>7. \A s \in Slots : items[s] = k => s = i
    <2> SUFFICES ASSUME NEW s \in Slots, items[s] = k, s # i
                 PROVE  FALSE
        OBVIOUS
    <2>1. Between(Bucket(k), i, s) \/ Between(Bucket(k), s, i)
        BY <1>4 DEF Between, Slots
    <2>2. ~ Between(Bucket(k), s, i)
        BY <1>1 DEF ProbeEnds
    <2>3. items[i] # Free
        BY <2>1, <2>2 DEF Probed, Slots, Bucket
    <2>4. items[i] = k
        BY <1>5, <2>3
    <2> QED
        BY <2>4 DEF Unique, Slots
<1>8. Unique(items', max')
    BY <1>1, <1>2, <1>6, <1>7 DEF Unique, Slots
<1>9. Probed(items', max')
    <2> SUFFICES ASSUME NEW s \in Slots, items'[s] # Free, NEW x \in Slots,
                        Between(Hash[items'[s]] % max, x, s)
                 PROVE  items'[x] # Free
        BY <1>1 DEF Probed, Slots
    <2>1. CASE s = i
        BY <1>1, <1>6, <2>1 DEF ProbeEnds, Bucket
    <2>2. CASE s # i
        BY <1>6, <2>2 DEF Probed, Slots
    <2> QED
        BY <2>1, <2>2
<1>10. ASSUME NEW j \in Keys
       PROVE  Stores(items', max', j) <=> Stores(items, max, j) \/ j = k
    BY <1>1, <1>5, <1>6 DEF Stores, Slots
<1> QED
    BY <1>1, <1>2, <1>8, <1>9, <1>10

-----------------------------------------------------------------------------
(* The invariant *)

LEMMA InitIInv == Init => IInv
<1> SUFFICES ASSUME Init PROVE IInv
    OBVIOUS
<1>1. max \in 1..MaxSlots /\ items = [i \in 0..(max - 1) |-> Free] /\ frames = <<>>
    BY DEF Init, Slots
<1>2. DOMAIN frames = {} /\ frames \in Seq({frames[n] : n \in DOMAIN frames})
    BY <1>1
<1>3. TableOK
    BY <1>1, <1>2 DEF Init, TableOK, Slots, Entries
<1>4. Probed(items, max) /\ Unique(items, max)
    BY <1>1 DEF Probed, Unique
<1>5. \A k \in Keys : ~ Stores(items, max, k) /\ ~ InResize(k)
    BY <1>1, <1>2 DEF Stores, InResize
<1> QED
    BY <1>1, <1>2, <1>3, <1>4, <1>5 DEF Init, IInv, Probing, Accounted, OldIntact

\* An empty stack hides no key.
LEMMA NoResize ==
    ASSUME frames = <<>>, NEW k
    PROVE  ~ InResize(k) /\ DOMAIN frames = {} /\ IsStack(frames)
<1>1. DOMAIN frames = {} /\ frames \in Seq({frames[n] : n \in DOMAIN frames})
    OBVIOUS
<1> QED
    BY <1>1 DEF InResize, IsStack

LEMMA AddKeeps ==
    ASSUME IInv, NEW k \in Keys, Add(k)
    PROVE  IInv'
<1>1. /\ frames = <<>> /\ frames' = <<>> /\ ~ shifting /\ ~ shifting'
      /\ Place(k) /\ hole' = 0 /\ scan' = 0
      /\ shifting' = shifting
      /\ members' = members \union {k}
    BY DEF Add, Idle, NoShift
<1>2. /\ max \in 1..MaxSlots /\ items \in [Slots -> Entries] /\ members \subseteq Keys
      /\ shifting \in BOOLEAN
      /\ Probed(items, max) /\ Unique(items, max)
    BY <1>1 DEF IInv, TableOK, Probing
<1>3. /\ max' = max
      /\ items' \in [Slots' -> Entries]
      /\ Probed(items', max')
      /\ Unique(items', max')
      /\ \A j \in Keys : Stores(items', max', j) <=> Stores(items, max, j) \/ j = k
    BY <1>1, <1>2, PlaceKeeps
<1>4. DOMAIN frames' = {} /\ frames' \in Seq({frames'[n] : n \in DOMAIN frames'})
    BY <1>1
<1>5. TableOK'
    BY <1>1, <1>2, <1>3, <1>4 DEF TableOK, Slots
<1>6. \A j \in Keys : j \in members' <=> Stores(items', max', j)
    BY <1>1, <1>3, NoResize DEF IInv, Accounted
<1> QED
    BY <1>1, <1>3, <1>4, <1>5, <1>6 DEF IInv, Probing, Accounted, OldIntact, InResize

\* A new, empty table.
LEMMA ReplaceFacts ==
    ASSUME NEW m \in Nat \ {0}, Replace(m)
    PROVE  /\ max' = m /\ max' \in 1..MaxSlots
           /\ items' \in [Slots' -> Entries]
           /\ Probed(items', max')
           /\ Unique(items', max')
           /\ \A k \in Keys : ~ Stores(items', max', k)
<1>1. /\ max' = m /\ m \in 1..MaxSlots
      /\ items' = [i \in 0..(m - 1) |-> Free]
    BY DEF Replace
<1> QED
    BY <1>1 DEF Slots, Entries, Probed, Unique, Stores

\* The first resize of a stack begins.
LEMMA ResizeBegins ==
    ASSUME IInv, Idle, NEW m \in Nat \ {0}, Replace(m), NEW key \in Entries,
           frames' = <<Frame(key)>>, NoShift, UNCHANGED members
    PROVE  IInv'
<1> DEFINE f == Frame(key)
<1>1. /\ frames = <<>> /\ ~ shifting /\ ~ shifting' /\ hole' = 0 /\ scan' = 0
      /\ shifting' = shifting
      /\ members' = members
    BY DEF Idle, NoShift
<1>2. /\ max \in 1..MaxSlots /\ items \in [Slots -> Entries] /\ members \subseteq Keys
      /\ shifting \in BOOLEAN
      /\ Probed(items, max) /\ Unique(items, max)
    BY <1>1 DEF IInv, TableOK, Probing
<1>3. IsFrame(f) /\ f.old = items /\ f.size = max /\ f.next = 0
    BY <1>2 DEF Frame, IsFrame, Slots
<1> HIDE DEF f
<1>4. DOMAIN frames' = {1} /\ frames'[1] = f
    BY DEF f
<1>5. frames' \in Seq({f}) /\ \A n \in DOMAIN frames' : IsFrame(frames'[n])
    BY <1>3, <1>4 DEF f
<1>6. IsStack(frames')
    BY <1>5, StackOf
<1>7. TableOK'
    BY <1>1, <1>2, <1>6, ReplaceFacts DEF TableOK, IsStack, Slots
<1>8. \A k \in Keys : k \in members <=> Stores(items, max, k)
    BY <1>1, NoResize DEF IInv, Accounted
<1>9. \A k \in Keys : Left(f, k) <=> Stores(items, max, k)
    BY <1>3 DEF Left, Stores
<1>10. \A k \in Keys : InResize(k)' <=> Left(f, k)
    BY <1>4 DEF InResize
<1>11. Accounted'
    BY <1>1, <1>8, <1>9, <1>10, ReplaceFacts DEF Accounted
<1>12. OldIntact'
    BY <1>1, <1>2, <1>3, <1>4, <1>8 DEF OldIntact
<1> QED
    BY <1>1, <1>4, <1>7, <1>11, <1>12, ReplaceFacts DEF IInv, Probing

LEMMA GrowKeeps ==
    ASSUME IInv, NEW k \in Keys, AddGrows(k)
    PROVE  IInv'
<1>1. 2 * max \in Nat \ {0}
    BY DEF IInv, TableOK
<1> QED
    BY <1>1, ResizeBegins DEF AddGrows, Entries

LEMMA ResizeKeeps ==
    ASSUME IInv, NEW m \in Sizes, Resize(m)
    PROVE  IInv'
<1>1. m \in Nat \ {0}
    OBVIOUS
<1> QED
    BY <1>1, ResizeBegins DEF Resize, Entries

\* What a step of the rehashing loop starts from.
LEMMA MovingFacts ==
    ASSUME IInv, frames # <<>>
    PROVE  /\ IsStack(frames)
           /\ ~ shifting /\ shifting \in BOOLEAN
           /\ Len(frames) \in Nat \ {0} /\ DOMAIN frames = 1..Len(frames)
           /\ 1 \in DOMAIN frames /\ Len(frames) \in DOMAIN frames
           /\ IsFrame(Top)
           /\ max \in 1..MaxSlots /\ items \in [Slots -> Entries]
           /\ members \subseteq Keys
           /\ Probed(items, max) /\ Unique(items, max)
<1>1. IsStack(frames)
    BY DEF IInv, TableOK, IsStack
<1>2. /\ Len(frames) \in Nat \ {0} /\ DOMAIN frames = 1..Len(frames)
      /\ 1 \in DOMAIN frames /\ Len(frames) \in DOMAIN frames
    BY <1>1, StackFacts
<1>3. IsFrame(Top)
    BY <1>1, <1>2 DEF Top, IsStack
<1>4. ~ shifting
    BY DEF IInv, Probing
<1> QED
    BY <1>1, <1>2, <1>3, <1>4 DEF IInv, TableOK, Probing

\* The keys that are still to move, when one more item of the top has moved.
LEMMA AdvancedLeft ==
    ASSUME IsStack(frames), frames # <<>>, Top.next < Top.size, IsFrame(Top),
           NEW k \in Keys
    PROVE  LET f == [Top EXCEPT !.next = @ + 1]
           IN  /\ Left(Top, k) <=> Left(f, k) \/ Top.old[Top.next] = k
               /\ f.old = Top.old /\ f.size = Top.size /\ f.key = Top.key
<1> DEFINE f == [Top EXCEPT !.next = @ + 1]
<1>1. f.old = Top.old /\ f.size = Top.size /\ f.key = Top.key /\ f.next = Top.next + 1
    BY DEF IsFrame
<1>2. Top.next \in Nat /\ Top.size \in Nat
    BY DEF IsFrame
<1>3. Left(Top, k) <=> Left(f, k) \/ Top.old[Top.next] = k
    BY <1>1, <1>2 DEF Left
<1> QED
    BY <1>1, <1>3

\* A step that advances the top and stores, or skips, its item.
LEMMA AdvanceKeeps ==
    ASSUME IInv, Moving, frames' = Advanced, NoShift, UNCHANGED members,
           max' = max, items' \in [Slots' -> Entries],
           Probed(items', max'), Unique(items', max'),
           \A k \in Keys : Stores(items', max', k)
                              <=> Stores(items, max, k) \/ Top.old[Top.next] = k
    PROVE  IInv'
<1> DEFINE f == [Top EXCEPT !.next = @ + 1]
<1>1. frames # <<>> /\ Top.next < Top.size
    BY DEF Moving
<1>2. /\ IsStack(frames')
      /\ DOMAIN frames' = DOMAIN frames
      /\ \A n \in DOMAIN frames : n # Len(frames) => frames'[n] = frames[n]
      /\ frames'[Len(frames)] = f
      /\ frames' # <<>>
    BY <1>1, AdvancedFacts, MovingFacts
<1>3. /\ f.old = Top.old /\ f.size = Top.size /\ f.key = Top.key
      /\ \A k \in Keys : Left(Top, k) <=> Left(f, k) \/ Top.old[Top.next] = k
    <2>1. IsStack(frames) /\ frames # <<>> /\ Top.next < Top.size /\ IsFrame(Top)
        BY <1>1, MovingFacts
    <2>2. f.old = Top.old /\ f.size = Top.size /\ f.key = Top.key
        BY <2>1 DEF IsFrame
    <2>3. ASSUME NEW k \in Keys
          PROVE  Left(Top, k) <=> Left(f, k) \/ Top.old[Top.next] = k
        BY <2>1, AdvancedLeft
    <2> QED
        BY <2>2, <2>3
<1> HIDE DEF f
<1>4. /\ hole' = 0 /\ scan' = 0 /\ shifting' = shifting /\ members' = members
    BY DEF NoShift
<1>5. TableOK'
    BY <1>1, <1>2, <1>4, MovingFacts DEF TableOK, IsStack, Slots
<1>6. \A n \in DOMAIN frames :
          /\ frames'[n].old = frames[n].old
          /\ frames'[n].size = frames[n].size
          /\ frames'[n].key = frames[n].key
    BY <1>2, <1>3 DEF Top
<1>7. \A k \in Keys : InResize(k) \/ Stores(items, max, k)
                         <=> InResize(k)' \/ Stores(items', max', k)
    <2> SUFFICES ASSUME NEW k \in Keys
                 PROVE  InResize(k) \/ Stores(items, max, k)
                           <=> InResize(k)' \/ Stores(items', max', k)
        OBVIOUS
    <2>1. ASSUME NEW n \in DOMAIN frames, n # Len(frames)
          PROVE  Left(frames[n], k) <=> Left(frames'[n], k)
        BY <1>2, <2>1
    <2>2. Left(frames[Len(frames)], k)
              <=> Left(frames'[Len(frames)], k) \/ Top.old[Top.next] = k
        BY <1>2, <1>3 DEF Top
    <2>3. Len(frames) \in DOMAIN frames
        BY <1>1, MovingFacts
    <2>4. ASSUME InResize(k) PROVE InResize(k)' \/ Stores(items', max', k)
        BY <1>2, <1>6, <2>1, <2>2, <2>4 DEF InResize
    <2>5. ASSUME InResize(k)' PROVE InResize(k)
        BY <1>2, <1>6, <2>1, <2>2, <2>5 DEF InResize
    <2>6. ASSUME Stores(items', max', k) PROVE InResize(k) \/ Stores(items, max, k)
        BY <2>2, <2>3, <2>6 DEF InResize
    <2> QED
        BY <2>4, <2>5, <2>6
<1>8. Accounted'
    BY <1>4, <1>7 DEF IInv, Accounted
<1>9. OldIntact'
    BY <1>1, <1>4, <1>6, MovingFacts DEF IInv, OldIntact
<1>10. \A n \in DOMAIN frames' : n > 1 => frames'[n].key # Free
    BY <1>2, <1>6 DEF IInv
<1>11. Probing'
    BY <1>1, <1>4, MovingFacts DEF Probing
<1> QED
    BY <1>5, <1>8, <1>9, <1>10, <1>11 DEF IInv

LEMMA FreeKeeps ==
    ASSUME IInv, RehashFree
    PROVE  IInv'
<1>1. \A k \in Keys : Top.old[Top.next] # k
    BY DEF RehashFree
<1>2. /\ Moving /\ frames' = Advanced /\ NoShift /\ UNCHANGED members
      /\ max' = max /\ items' = items
    BY DEF RehashFree
<1>3. items' \in [Slots' -> Entries] /\ Probed(items', max') /\ Unique(items', max')
    BY <1>2, MovingFacts DEF Slots, Moving
<1> QED
    BY <1>1, <1>2, <1>3, AdvanceKeeps

LEMMA ItemKeeps ==
    ASSUME IInv, RehashItem
    PROVE  IInv'
<1>1. /\ Moving /\ frames' = Advanced /\ NoShift /\ UNCHANGED members
      /\ Place(Top.old[Top.next]) /\ Top.old[Top.next] # Free
      /\ frames # <<>> /\ Top.next < Top.size
    BY DEF RehashItem, Moving
<1>2. Top.old[Top.next] \in Keys
    BY <1>1, MovingFacts DEF IsFrame, Entries
<1>3. /\ max' = max
      /\ items' \in [Slots' -> Entries]
      /\ Probed(items', max')
      /\ Unique(items', max')
      /\ \A j \in Keys : Stores(items', max', j)
                            <=> Stores(items, max, j) \/ j = Top.old[Top.next]
    BY <1>1, <1>2, MovingFacts, PlaceKeeps
<1> QED
    BY <1>1, <1>3, AdvanceKeeps

\* A resize inside a resize: what the table held moves to the new frame.
LEMMA NestedKeeps ==
    ASSUME IInv, RehashGrows
    PROVE  IInv'
<1> DEFINE key == Top.old[Top.next]
           f == Frame(key)
           top == [Top EXCEPT !.next = @ + 1]
<1>1. /\ frames # <<>> /\ Top.next < Top.size /\ key # Free
      /\ Replace(2 * max) /\ frames' = Append(Advanced, f)
      /\ hole' = 0 /\ scan' = 0 /\ shifting' = shifting /\ members' = members
    BY DEF RehashGrows, Moving, NoShift
<1>2. key \in Keys
    BY <1>1, MovingFacts DEF IsFrame, Entries
<1>3. IsFrame(f) /\ f.old = items /\ f.size = max /\ f.next = 0 /\ f.key = key
    BY <1>1, <1>2, MovingFacts DEF Frame, IsFrame, Slots, Entries
<1>0. frames # <<>> /\ Top.next < Top.size /\ IsStack(frames) /\ IsFrame(Top)
    BY <1>1, MovingFacts
<1>4. /\ top.old = Top.old /\ top.size = Top.size /\ top.key = Top.key
      /\ \A k \in Keys : Left(Top, k) <=> Left(top, k) \/ key = k
    <2>1. ASSUME NEW k \in Keys
          PROVE  Left(Top, k) <=> Left(top, k) \/ key = k
        BY <1>0, AdvancedLeft
    <2>2. top.old = Top.old /\ top.size = Top.size /\ top.key = Top.key
        BY <1>0 DEF IsFrame
    <2> QED
        BY <2>1, <2>2
<1> HIDE DEF key, f, top
<1>5. /\ Len(frames) \in Nat \ {0} /\ DOMAIN frames = 1..Len(frames)
      /\ IsStack(Advanced) /\ Len(Advanced) = Len(frames)
      /\ \A n \in DOMAIN frames : n # Len(frames) => Advanced[n] = frames[n]
      /\ Advanced[Len(frames)] = top
    BY <1>1, MovingFacts, AdvancedFacts DEF top
<1>6. /\ IsStack(frames')
      /\ DOMAIN frames' = 1..(Len(frames) + 1)
      /\ \A n \in 1..Len(frames) : frames'[n] = Advanced[n]
      /\ frames'[Len(frames) + 1] = f
      /\ frames' # <<>>
    BY <1>1, <1>3, <1>5, PushFacts
<1>7. /\ \A n \in 1..Len(frames) :
            /\ frames'[n].old = frames[n].old
            /\ frames'[n].size = frames[n].size
            /\ frames'[n].key = frames[n].key
      /\ \A n \in 1..Len(frames) : n # Len(frames) => frames'[n] = frames[n]
      /\ frames'[Len(frames)] = top
    <2>1. /\ \A n \in 1..Len(frames) : n # Len(frames) => frames'[n] = frames[n]
          /\ frames'[Len(frames)] = top
        <3>1. \A n \in 1..Len(frames) : n # Len(frames) => Advanced[n] = frames[n]
            BY <1>5
        <3>2. \A n \in 1..Len(frames) : frames'[n] = Advanced[n]
            BY <1>6
        <3>3. Len(frames) \in 1..Len(frames) /\ Advanced[Len(frames)] = top
            BY <1>5
        <3> QED
            BY <3>1, <3>2, <3>3
    <2>2. frames[Len(frames)] = Top
        BY DEF Top
    <2> QED
        BY <1>4, <2>1, <2>2
<1>8. 2 * max \in Nat \ {0}
    BY <1>1, MovingFacts
<1>16. /\ max' \in 1..MaxSlots
       /\ items' \in [Slots' -> Entries]
       /\ Probed(items', max') /\ Unique(items', max')
       /\ \A k \in Keys : ~ Stores(items', max', k)
    BY <1>1, <1>8, ReplaceFacts
<1>17. shifting \in BOOLEAN /\ ~ shifting /\ members \subseteq Keys
    BY <1>0, MovingFacts
<1>18. 0 \in Slots'
    BY <1>16, FirstSlot DEF Slots
<1>9. TableOK'
    BY <1>1, <1>6, <1>16, <1>17, <1>18 DEF TableOK, IsStack
<1>10. \A k \in Keys : Left(f, k) <=> Stores(items, max, k)
    BY <1>3 DEF Left, Stores
<1>11. \A k \in Keys : InResize(k)' <=> InResize(k) \/ Stores(items, max, k)
    <2> SUFFICES ASSUME NEW k \in Keys
                 PROVE  InResize(k)' <=> InResize(k) \/ Stores(items, max, k)
        OBVIOUS
    <2>1. /\ Len(frames) + 1 \in DOMAIN frames'
          /\ Len(frames) + 1 > 1
          /\ Len(frames) \in DOMAIN frames
          /\ \A n \in DOMAIN frames : n \in DOMAIN frames'
          /\ \A n \in DOMAIN frames' : n \in DOMAIN frames \/ n = Len(frames) + 1
        BY <1>5, <1>6
    <2>2. ASSUME NEW n \in DOMAIN frames, n # Len(frames)
          PROVE  Left(frames[n], k) <=> Left(frames'[n], k)
        BY <1>5, <1>7, <2>2
    <2>3. Left(frames[Len(frames)], k) <=> Left(frames'[Len(frames)], k) \/ key = k
        BY <1>4, <1>7 DEF Top
    <2>4. ASSUME InResize(k) PROVE InResize(k)'
        <3>1. PICK n \in DOMAIN frames :
                  Left(frames[n], k) \/ (n > 1 /\ frames[n].key = k)
            BY <2>4 DEF InResize
        <3>2. n > 1 /\ frames[n].key = k => InResize(k)'
            BY <1>5, <1>7, <2>1 DEF InResize
        <3>3. key = k => InResize(k)'
            BY <1>3, <1>6, <2>1 DEF InResize
        <3>4. Left(frames'[n], k) => InResize(k)'
            BY <2>1 DEF InResize
        <3> QED
            BY <2>2, <2>3, <3>1, <3>2, <3>3, <3>4
    <2>5. ASSUME Stores(items, max, k) PROVE InResize(k)'
        BY <1>6, <1>10, <2>1, <2>5 DEF InResize
    <2>6. ASSUME InResize(k)' PROVE InResize(k) \/ Stores(items, max, k)
        <3>1. PICK n \in DOMAIN frames' :
                  Left(frames'[n], k) \/ (n > 1 /\ frames'[n].key = k)
            BY <2>6 DEF InResize
        <3>2. CASE n \in DOMAIN frames
            BY <1>5, <1>7, <2>2, <2>3, <3>1, <3>2 DEF InResize
        <3>3. CASE n = Len(frames) + 1
            <4>1. Left(f, k) \/ key = k
                BY <1>3, <1>6, <3>1, <3>3
            <4>2. key = k => Left(frames[Len(frames)], k)
                BY <2>3
            <4> QED
                BY <1>10, <2>1, <4>1, <4>2 DEF InResize
        <3> QED
            BY <2>1, <3>2, <3>3
    <2> QED
        BY <2>4, <2>5, <2>6
<1>12. Accounted'
    BY <1>1, <1>11, <1>16 DEF IInv, Accounted
<1>13. OldIntact'
    <2>1. 1 \in 1..Len(frames)
        BY <1>5
    <2>2. frames'[1].old = frames[1].old /\ frames'[1].size = frames[1].size
        BY <1>7, <2>1
    <2> QED
        BY <1>0, <1>1, <2>2 DEF IInv, OldIntact
<1>14. \A n \in DOMAIN frames' : n > 1 => frames'[n].key # Free
    <2>1. \A n \in DOMAIN frames' : n \in 1..Len(frames) \/ n = Len(frames) + 1
        BY <1>5, <1>6
    <2>2. frames'[Len(frames) + 1].key # Free
        BY <1>1, <1>3, <1>6
    <2> QED
        BY <1>5, <1>7, <2>1, <2>2 DEF IInv
<1>15. Probing'
    BY <1>1, <1>16, <1>17 DEF Probing
<1> QED
    BY <1>9, <1>12, <1>13, <1>14, <1>15, <1>16 DEF IInv

\* A failed resize puts back a table that works.
LEMMA FailsKeeps ==
    ASSUME IInv, RehashFails
    PROVE  IInv'
<1>1. /\ frames # <<>> /\ frames' = <<>>
      /\ items' = frames[1].old /\ max' = frames[1].size
      /\ hole' = 0 /\ scan' = 0 /\ shifting' = shifting /\ members' = members
    BY DEF RehashFails, Moving, NoShift
<1>2. IsFrame(frames[1])
    BY <1>1, MovingFacts DEF IsStack
<1>3. DOMAIN frames' = {} /\ frames' \in Seq({frames'[n] : n \in DOMAIN frames'})
    BY <1>1
<1>4. TableOK'
    BY <1>1, <1>2, <1>3, MovingFacts DEF TableOK, IsFrame, Slots
<1>5. Probed(items', max') /\ Unique(items', max')
    BY <1>1 DEF IInv, OldIntact
<1>6. Accounted'
    BY <1>1, <1>3 DEF IInv, OldIntact, Accounted, InResize
<1> QED
    BY <1>1, <1>3, <1>4, <1>5, <1>6, MovingFacts DEF IInv, Probing, OldIntact

\* The key that a finished resize goes on to store.
LEMMA RehashedKeeps ==
    ASSUME IInv, Rehashed
    PROVE  IInv'
<1>1. /\ frames # <<>> /\ ~ (Top.next < Top.size) /\ frames' = BelowTop
      /\ IF Top.key = Free THEN UNCHANGED tableVars ELSE Place(Top.key)
      /\ members' = IF Len(frames) = 1 THEN members \union ({Top.key} \ {Free}) ELSE members
      /\ hole' = 0 /\ scan' = 0 /\ shifting' = shifting
    BY DEF Rehashed, Moving, NoShift
<1>2. \A k \in Keys : ~ Left(Top, k)
    BY <1>1, MovingFacts DEF Left, IsFrame
<1>3. Top.key \in Entries
    BY <1>1, MovingFacts DEF IsFrame
<1>4. /\ max' = max
      /\ items' \in [Slots' -> Entries]
      /\ Probed(items', max') /\ Unique(items', max')
      /\ \A k \in Keys : Stores(items', max', k) <=> Stores(items, max, k) \/ Top.key = k
    <2>1. CASE Top.key = Free
        BY <1>1, <2>1, MovingFacts DEF tableVars, Slots
    <2>2. CASE Top.key # Free
        <3>1. Top.key \in Keys /\ Place(Top.key)
            BY <1>1, <1>3, <2>2 DEF Entries
        <3> QED
            BY <1>1, <3>1, MovingFacts, PlaceKeeps
    <2> QED
        BY <2>1, <2>2
<1>5. /\ IsStack(frames')
      /\ DOMAIN frames' = 1..(Len(frames) - 1)
      /\ \A n \in DOMAIN frames' : frames'[n] = frames[n]
      /\ frames' = <<>> <=> Len(frames) = 1
      /\ Len(frames) \in Nat \ {0} /\ DOMAIN frames = 1..Len(frames)
    BY <1>1, BelowTopFacts, MovingFacts
<1>6. members' \subseteq Keys
    BY <1>1, <1>3, MovingFacts DEF Entries
<1>7. TableOK'
    <2>1. max' \in 1..MaxSlots /\ hole' \in Slots' /\ scan' \in Slots'
        BY <1>1, <1>4, MovingFacts, HashSetAssumption DEF Slots
    <2>2. shifting' \in BOOLEAN
        BY <1>1, MovingFacts
    <2>3. /\ frames' \in Seq({frames'[n] : n \in DOMAIN frames'})
          /\ \A n \in DOMAIN frames' : IsFrame(frames'[n])
        BY <1>5 DEF IsStack
    <2> QED
        BY <1>4, <1>6, <2>1, <2>2, <2>3 DEF TableOK
<1>8. \A k \in Keys : InResize(k) <=> InResize(k)' \/ (Len(frames) > 1 /\ Top.key = k)
    <2> SUFFICES ASSUME NEW k \in Keys
                 PROVE  InResize(k) <=> InResize(k)' \/ (Len(frames) > 1 /\ Top.key = k)
        OBVIOUS
    <2>1. /\ Len(frames) \in DOMAIN frames
          /\ \A n \in DOMAIN frames' : n \in DOMAIN frames
          /\ \A n \in DOMAIN frames : n \in DOMAIN frames' \/ n = Len(frames)
        BY <1>5
    <2> QED
        BY <1>2, <1>5, <2>1 DEF InResize, Top
<1>9. Accounted'
    <2>1. CASE Len(frames) = 1
        BY <1>1, <1>3, <1>4, <1>8, <2>1 DEF IInv, Accounted, Entries
    <2>2. CASE Len(frames) > 1
        BY <1>1, <1>4, <1>8, <2>2 DEF IInv, Accounted
    <2> QED
        BY <1>5, <2>1, <2>2
<1>10. OldIntact'
    <2> SUFFICES ASSUME frames' # <<>> PROVE OldIntact'
        BY DEF OldIntact
    <2>1. Len(frames) > 1 /\ frames'[1] = frames[1] /\ members' = members
        BY <1>1, <1>5
    <2> QED
        BY <1>1, <2>1 DEF IInv, OldIntact
<1>11. \A n \in DOMAIN frames' : n > 1 => frames'[n].key # Free
    BY <1>5 DEF IInv
<1> QED
    BY <1>1, <1>4, <1>7, <1>9, <1>10, <1>11, MovingFacts DEF IInv, Probing

-----------------------------------------------------------------------------
(* Removal *)

\* can_move asks whether the hole interrupts the way to the item in slot j.
LEMMA CanMoveIff ==
    ASSUME max \in 1..MaxSlots, items \in [Slots -> Entries], hole \in Slots,
           NEW j \in Slots, items[j] # Free, j # hole
    PROVE  /\ Bucket(items[j]) \in Slots
           /\ CanMove(j) <=> Between(Bucket(items[j]), hole, j)
<1>1. items[j] \in Keys
    BY DEF Entries
<1>2. Bucket(items[j]) \in Slots
    BY <1>1, BucketSlot DEF Bucket, Slots
<1>3. CanMove(j) <=> Between(Bucket(items[j]), hole, j)
    BY <1>2 DEF CanMove, Between, Slots
<1> QED
    BY <1>2, <1>3

\* The ring of slots around the hole, the scan and the slot after it.
LEMMA Ring ==
    ASSUME max \in 1..MaxSlots, hole \in Slots, scan \in Slots
    PROVE  /\ Succ(scan) \in Slots
           /\ Succ(scan) = hole => \A s \in Slots : s # hole => Passed(s)
           /\ Succ(scan) # hole =>
                 \A x \in Slots :
                     x # hole /\ (Between(hole, x, Succ(scan)) \/ x = Succ(scan))
                         => Passed(x) \/ x = Succ(scan)
           /\ Succ(scan) # hole =>
                 \A b, s \in Slots :
                     /\ s # hole /\ s # Succ(scan) /\ ~ Passed(s)
                     /\ Between(b, hole, s)
                     => Between(b, Succ(scan), s)
           /\ \A b, j, x \in Slots :
                 Between(b, hole, j) /\ Between(b, x, hole)
                     => Between(b, x, j) /\ x # hole /\ x # j
<1>1. Succ(scan) \in Slots
    BY DEF Succ, Slots
<1>2. Succ(scan) = hole => \A s \in Slots : s # hole => Passed(s)
    BY DEF Succ, Slots, Passed, Between
<1>3. ASSUME Succ(scan) # hole, NEW x \in Slots, x # hole,
             Between(hole, x, Succ(scan)) \/ x = Succ(scan)
      PROVE  Passed(x) \/ x = Succ(scan)
    BY <1>3 DEF Succ, Slots, Passed, Between
<1>4. ASSUME Succ(scan) # hole, NEW b \in Slots, NEW s \in Slots,
             s # hole, s # Succ(scan), ~ Passed(s), Between(b, hole, s)
      PROVE  Between(b, Succ(scan), s)
    BY <1>4 DEF Succ, Slots, Passed, Between
<1>5. ASSUME NEW b \in Slots, NEW j \in Slots, NEW x \in Slots,
             Between(b, hole, j), Between(b, x, hole)
      PROVE  Between(b, x, j) /\ x # hole /\ x # j
    BY <1>5 DEF Slots, Between
<1> QED
    BY <1>1, <1>2, <1>3, <1>4, <1>5

LEMMA RemoveKeeps ==
    ASSUME IInv, NEW k \in Keys, Remove(k)
    PROVE  IInv'
<1>1. PICK i \in Slots :
          /\ ProbeEnds(k, i) /\ items[i] = k
          /\ items' = [items EXCEPT ![i] = Free]
          /\ hole' = i /\ scan' = i
    BY DEF Remove
<1>2. /\ frames = <<>> /\ ~ shifting /\ shifting' = TRUE /\ frames' = frames
      /\ max' = max /\ members' = members \ {k}
    BY DEF Remove, Idle
<1>3. /\ max \in 1..MaxSlots /\ items \in [Slots -> Entries] /\ members \subseteq Keys
      /\ Probed(items, max) /\ Unique(items, max)
      /\ frames \in Seq({frames[n] : n \in DOMAIN frames}) /\ DOMAIN frames = {}
    BY <1>2 DEF IInv, TableOK, Probing
<1>4. Slots' = Slots
    BY <1>2 DEF Slots
<1>5. \A s \in Slots : items'[s] = IF s = i THEN Free ELSE items[s]
    BY <1>1, <1>3
<1>6. items' \in [Slots -> Entries]
    BY <1>1, <1>3 DEF Entries
<1>7. TableOK'
    BY <1>1, <1>2, <1>3, <1>4, <1>6 DEF TableOK
<1>8. \A x \in Slots : ~ Passed(x)'
    BY <1>1, <1>4 DEF Passed, Between, Slots
<1>9. \A s \in Slots : items'[s] # Free =>
          \A x \in Slots : Between(Bucket(items[s]), x, s) => items'[x] # Free \/ x = i
    BY <1>3, <1>5 DEF Probed, Bucket, Slots
<1>10. ProbedButHole'
    BY <1>1, <1>2, <1>4, <1>5, <1>8, <1>9 DEF ProbedButHole, Bucket
<1>11. Unique(items', max')
    BY <1>2, <1>3, <1>5 DEF Unique, Slots
<1>12. \A j \in Keys : Stores(items', max', j) <=> Stores(items, max, j) /\ j # k
    BY <1>1, <1>2, <1>3, <1>5 DEF Stores, Unique, Slots
<1>13. Accounted'
    BY <1>2, <1>3, <1>12, NoResize DEF IInv, Accounted, InResize
<1> QED
    BY <1>2, <1>3, <1>7, <1>10, <1>11, <1>13 DEF IInv, Probing, OldIntact

\* What a step of the shifting loop starts from.
LEMMA ShiftFacts ==
    ASSUME IInv, shifting
    PROVE  /\ frames = <<>> /\ DOMAIN frames = {}
           /\ frames \in Seq({frames[n] : n \in DOMAIN frames})
           /\ max \in 1..MaxSlots /\ items \in [Slots -> Entries] /\ members \subseteq Keys
           /\ hole \in Slots /\ scan \in Slots
           /\ ProbedButHole /\ Unique(items, max)
    BY DEF IInv, TableOK, Probing

LEMMA SkipKeeps ==
    ASSUME IInv, ShiftSkip
    PROVE  IInv'
<1> DEFINE j == Succ(scan)
<1>1. /\ shifting /\ items[j] # Free /\ ~ CanMove(j) /\ scan' = j
      /\ items' = items /\ max' = max /\ frames' = frames /\ shifting' = shifting
      /\ hole' = hole /\ members' = members
    BY DEF ShiftSkip
<1>2. j \in Slots /\ j # hole
    BY <1>1, ShiftFacts, Ring DEF ProbedButHole
<1>3. \A x \in Slots : Passed(x)' => Passed(x) \/ x = j
    BY <1>1, <1>2, ShiftFacts, Ring DEF Passed, Between
<1>4. ~ Between(Bucket(items[j]), hole, j)
    BY <1>1, <1>2, ShiftFacts, CanMoveIff
<1> HIDE DEF j
<1>5. Slots' = Slots
    BY <1>1 DEF Slots
<1>6. /\ items[hole] = Free
      /\ \A x \in Slots : Passed(x) => items[x] # Free
      /\ \A s \in Slots : items[s] # Free =>
            \A x \in Slots :
                Between(Bucket(items[s]), x, s) =>
                    items[x] # Free \/ (x = hole /\ ~ Passed(s))
    BY <1>1, ShiftFacts DEF ProbedButHole
<1>7. \A x \in Slots : Passed(x)' => items[x] # Free
    BY <1>1, <1>3, <1>6
<1>8. \A s \in Slots : items[s] # Free =>
          \A x \in Slots :
              Between(Bucket(items[s]), x, s) =>
                  items[x] # Free \/ (x = hole /\ ~ Passed(s)')
    BY <1>3, <1>4, <1>6
<1>9. ProbedButHole'
    BY <1>1, <1>5, <1>6, <1>7, <1>8 DEF ProbedButHole, Bucket
<1>10. TableOK'
    BY <1>1, <1>2, <1>5, ShiftFacts DEF TableOK, IInv
<1>11. Accounted'
    BY <1>1 DEF IInv, Accounted, InResize
<1> QED
    BY <1>1, <1>9, <1>10, <1>11, ShiftFacts DEF IInv, Probing, OldIntact

LEMMA MoveKeeps ==
    ASSUME IInv, ShiftMove
    PROVE  IInv'
<1> DEFINE j == Succ(scan)
           k == items[j]
<1>1. /\ shifting /\ k # Free /\ CanMove(j) /\ scan' = j /\ hole' = j
      /\ items' = [items EXCEPT ![hole] = k, ![j] = Free]
      /\ max' = max /\ frames' = frames /\ shifting' = shifting /\ members' = members
    BY DEF ShiftMove
<1>2. j \in Slots /\ j # hole /\ hole \in Slots
    BY <1>1, ShiftFacts, Ring DEF ProbedButHole
<1>3. Bucket(k) \in Slots /\ Between(Bucket(k), hole, j)
    BY <1>1, <1>2, ShiftFacts, CanMoveIff
<1>4. \A x \in Slots : Between(Bucket(k), x, hole)
                          => Between(Bucket(k), x, j) /\ x # hole /\ x # j
    BY <1>1, <1>2, <1>3, ShiftFacts, Ring
<1> HIDE DEF j
<1>5. Slots' = Slots
    BY <1>1 DEF Slots
<1>6. \A x \in Slots : items'[x] = IF x = j THEN Free ELSE IF x = hole THEN k ELSE items[x]
    BY <1>1, <1>2, ShiftFacts
<1>7. /\ items[hole] = Free
      /\ \A s \in Slots : items[s] # Free =>
            \A x \in Slots :
                Between(Bucket(items[s]), x, s) => items[x] # Free \/ x = hole
    BY <1>1, ShiftFacts DEF ProbedButHole
<1>8. \A x \in Slots : ~ Passed(x)'
    BY <1>1, <1>2, <1>5 DEF Passed, Between, Slots
<1>9. ASSUME NEW s \in Slots, items'[s] # Free, NEW x \in Slots,
             Between(Bucket(items'[s]), x, s), x # j
      PROVE  items'[x] # Free
    <2>1. s # j
        BY <1>6, <1>9
    <2>2. CASE s = hole
        <3>1. items'[s] = k
            BY <1>2, <1>6, <2>2
        <3>2. Between(Bucket(k), x, j) /\ x # hole
            BY <1>4, <1>9, <2>2, <3>1
        <3>3. items[x] # Free
            BY <1>1, <1>2, <1>7, <3>2
        <3> QED
            BY <1>6, <1>9, <3>2, <3>3
    <2>3. CASE s # hole
        <3>1. items'[s] = items[s]
            BY <1>6, <2>1, <2>3
        <3>2. items[x] # Free \/ x = hole
            BY <1>7, <1>9, <3>1
        <3> QED
            BY <1>1, <1>6, <1>9, <3>2
    <2> QED
        BY <2>2, <2>3
<1>10. ProbedButHole'
    BY <1>1, <1>2, <1>5, <1>6, <1>8, <1>9 DEF ProbedButHole, Bucket
<1>11. items' \in [Slots -> Entries]
    BY <1>1, <1>2, ShiftFacts DEF Entries
<1>12. TableOK'
    BY <1>1, <1>2, <1>5, <1>11, ShiftFacts DEF TableOK, IInv
<1>13. \A r, s \in Slots : items[r] # Free /\ items[r] = items[s] => r = s
    BY <1>1, ShiftFacts DEF Unique, Slots
<1>14. \A r, s \in Slots : items'[r] # Free /\ items'[r] = items'[s] => r = s
    BY <1>1, <1>2, <1>6, <1>7, <1>13
<1>15. Unique(items', max')
    BY <1>1, <1>14 DEF Unique, Slots
<1>16. \A i \in Keys : (\E s \in Slots : items'[s] = i) <=> (\E s \in Slots : items[s] = i)
    BY <1>1, <1>2, <1>6, <1>7
<1>17. \A i \in Keys : Stores(items', max', i) <=> Stores(items, max, i)
    BY <1>1, <1>16 DEF Stores, Slots
<1>18. Accounted'
    BY <1>1, <1>17 DEF IInv, Accounted, InResize
<1> QED
    BY <1>1, <1>10, <1>12, <1>15, <1>18, ShiftFacts DEF IInv, Probing, OldIntact

LEMMA ShiftEndsKeeps ==
    ASSUME IInv, ShiftEnds
    PROVE  IInv'
<1> DEFINE j == Succ(scan)
<1>1. /\ shifting /\ items[j] = Free /\ shifting' = FALSE /\ hole' = 0 /\ scan' = 0
      /\ items' = items /\ max' = max /\ frames' = frames /\ members' = members
    BY DEF ShiftEnds
<1>2. j \in Slots
    BY <1>1, ShiftFacts, Ring
<1>3. /\ items[hole] = Free
      /\ \A s \in Slots : items[s] # Free =>
            \A x \in Slots :
                Between(Bucket(items[s]), x, s) =>
                    items[x] # Free \/ (x = hole /\ ~ Passed(s))
    BY <1>1, ShiftFacts DEF ProbedButHole
<1>4. ASSUME NEW s \in Slots, items[s] # Free, Between(Bucket(items[s]), hole, s),
             ~ Passed(s)
      PROVE  FALSE
    <2>1. s # hole /\ s # j
        BY <1>1, <1>3, <1>4
    <2>2. Bucket(items[s]) \in Slots
        <3>1. items[s] \in Keys /\ max \in 1..MaxSlots
            BY <1>1, <1>4, ShiftFacts DEF Entries
        <3> QED
            BY <3>1, BucketSlot DEF Bucket, Slots
    <2>3. j # hole
        BY <1>1, <1>4, <2>1, ShiftFacts, Ring
    <2>4. Between(Bucket(items[s]), j, s)
        BY <1>1, <1>4, <2>1, <2>2, <2>3, ShiftFacts, Ring
    <2> QED
        BY <1>1, <1>2, <1>3, <1>4, <2>3, <2>4
<1>5. \A s \in Slots : items[s] # Free =>
          \A x \in Slots : Between(Bucket(items[s]), x, s) => items[x] # Free
    BY <1>3, <1>4
<1>6. Probed(items', max')
    BY <1>1, <1>5 DEF Probed, Bucket, Slots
<1>7. TableOK'
    BY <1>1, ShiftFacts, FirstSlot DEF TableOK, IInv, Slots
<1>8. Accounted'
    BY <1>1 DEF IInv, Accounted, InResize
<1> QED
    BY <1>1, <1>6, <1>7, <1>8, ShiftFacts DEF IInv, Probing, OldIntact

-----------------------------------------------------------------------------

\* IInv is inductive.
LEMMA NextIInv ==
    ASSUME IInv, [Next]_vars
    PROVE  IInv'
<1>1. CASE Next
    BY <1>1, AddKeeps, GrowKeeps, RemoveKeeps, ResizeKeeps, FreeKeeps, ItemKeeps,
       NestedKeeps, FailsKeeps, RehashedKeeps, MoveKeeps, SkipKeeps, ShiftEndsKeeps
       DEF Next
<1>2. CASE UNCHANGED vars
    BY <1>2 DEF vars, IInv, TableOK, Probing, ProbedButHole, Accounted, OldIntact,
                InResize, Passed, Bucket, Slots
<1> QED
    BY <1>1, <1>2

LEMMA IInvGet == IInv => GetCorrect
<1> SUFFICES ASSUME IInv, Idle, NEW k \in Keys
             PROVE  Found(k) <=> k \in members
    BY DEF GetCorrect
<1>1. /\ max \in 1..MaxSlots /\ items \in [Slots -> Entries]
      /\ Probed(items, max) /\ Unique(items, max) /\ frames = <<>>
    BY DEF IInv, TableOK, Probing, Idle
<1>2. Found(k) <=> Stores(items, max, k)
    BY <1>1, FoundStored
<1> QED
    BY <1>1, <1>2, NoResize DEF IInv, Accounted

\* Every lookup in a table at rest finds exactly the keys that were added and not
\* removed (GetCorrect): set_add_h, set_resize_checked and the shifting loop of
\* set_remove lose no item, for any hash function and any sizes.
THEOREM LookupCorrect == Spec => []GetCorrect
<1>1. Init => IInv
    BY InitIInv
<1>2. IInv /\ [Next]_vars => IInv'
    BY NextIInv
<1>3. IInv => GetCorrect
    BY IInvGet
<1> QED
    BY <1>1, <1>2, <1>3, PTL DEF Spec

-----------------------------------------------------------------------------
(* Counters, and a free slot *)

\* The slots in use of a table are finitely many.
LEMMA UsedFinite ==
    ASSUME NEW m \in Nat, NEW table, DOMAIN table = 0..(m - 1)
    PROVE  /\ IsFiniteSet(Used(table)) /\ Cardinality(Used(table)) \in Nat
           /\ \A size : /\ IsFiniteSet(Displaced(table, size))
                        /\ Cardinality(Displaced(table, size)) \in Nat
<1>1. 0 \in Int /\ m - 1 \in Int
    OBVIOUS
<1>2. IsFiniteSet(0..(m - 1))
    BY <1>1, FS_Interval, Zenon
<1>3. Used(table) \in SUBSET (0..(m - 1))
    BY DEF Used
<1>4. IsFiniteSet(Used(table))
    BY <1>2, <1>3, FS_Subset
<1>5. ASSUME NEW size PROVE IsFiniteSet(Displaced(table, size))
    <2>1. Displaced(table, size) \in SUBSET Used(table)
        BY DEF Displaced
    <2> QED
        BY <1>4, <2>1, FS_Subset
<1> QED
    BY <1>4, <1>5, FS_CardinalityType

LEMMA EmptyTable ==
    ASSUME NEW m \in Nat, NEW size
    PROVE  /\ Cardinality(Used([i \in 0..(m - 1) |-> Free])) = 0
           /\ Cardinality(Displaced([i \in 0..(m - 1) |-> Free], size)) = 0
<1>1. Used([i \in 0..(m - 1) |-> Free]) = {}
    BY DEF Used
<1>2. Displaced([i \in 0..(m - 1) |-> Free], size) = {}
    BY <1>1 DEF Displaced
<1> QED
    BY <1>1, <1>2, FS_EmptySet, Zenon

\* A table of m slots.
IsTable(table, m) == m \in Nat /\ table \in [0..(m - 1) -> Entries]

\* What an item in slot i adds to the collisions.
Away(i, k, m) == IF i = Hash[k] % m THEN 0 ELSE 1

\* An item is put into a free slot.
LEMMA PutCounts ==
    ASSUME NEW m, NEW table, IsTable(table, m), NEW i \in 0..(m - 1),
           table[i] = Free, NEW k \in Keys
    PROVE  /\ Cardinality(Used([table EXCEPT ![i] = k])) = Cardinality(Used(table)) + 1
           /\ Cardinality(Displaced([table EXCEPT ![i] = k], m)) =
                  Cardinality(Displaced(table, m)) + Away(i, k, m)
<1> DEFINE after == [table EXCEPT ![i] = k]
<1> USE DEF IsTable
<1>0. /\ IsFiniteSet(Used(table)) /\ Cardinality(Used(table)) \in Nat
      /\ IsFiniteSet(Displaced(table, m)) /\ Cardinality(Displaced(table, m)) \in Nat
      /\ k # Free
    BY UsedFinite
<1>1. /\ DOMAIN after = 0..(m - 1) /\ after[i] = k
      /\ \A s \in 0..(m - 1) : s # i => after[s] = table[s]
    OBVIOUS
<1> HIDE DEF after
<1>2. Used(after) = Used(table) \cup {i} /\ i \notin Used(table)
    BY <1>0, <1>1 DEF Used
<1>3. Cardinality(Used(after)) = Cardinality(Used(table)) + 1
    BY <1>0, <1>2, FS_AddElement
<1>4. i \notin Displaced(table, m)
    BY <1>2 DEF Displaced
<1>5. ASSUME i = Hash[k] % m
      PROVE  Cardinality(Displaced(after, m)) = Cardinality(Displaced(table, m)) + Away(i, k, m)
    <2>1. Displaced(after, m) = Displaced(table, m)
        <3> SUFFICES ASSUME NEW s \in 0..(m - 1) PROVE s \in Displaced(after, m) <=> s \in Displaced(table, m)
            BY <1>1 DEF Displaced, Used
        <3>1. CASE s = i
            BY <1>1, <1>4, <1>5, <3>1 DEF Displaced
        <3>2. CASE s # i
            BY <1>1, <3>2 DEF Displaced, Used
        <3> QED
            BY <3>1, <3>2
    <2> QED
        BY <1>0, <1>3, <1>5, <2>1 DEF Away
<1>6. ASSUME i # Hash[k] % m
      PROVE  Cardinality(Displaced(after, m)) = Cardinality(Displaced(table, m)) + Away(i, k, m)
    <2>1. Displaced(after, m) = Displaced(table, m) \cup {i}
        BY <1>1, <1>2, <1>6 DEF Displaced, Used
    <2>2. Cardinality(Displaced(after, m)) = Cardinality(Displaced(table, m)) + 1
        BY <1>0, <1>4, <2>1, FS_AddElement
    <2> QED
        BY <1>3, <1>6, <2>2 DEF Away
<1>7. /\ Cardinality(Used(after)) = Cardinality(Used(table)) + 1
      /\ Cardinality(Displaced(after, m)) = Cardinality(Displaced(table, m)) + Away(i, k, m)
    BY <1>3, <1>5, <1>6
<1> QED
    BY <1>7 DEF after

\* And taken out of its slot.
LEMMA TakeCounts ==
    ASSUME NEW m, NEW table, IsTable(table, m), NEW i \in 0..(m - 1),
           NEW k \in Keys, table[i] = k
    PROVE  /\ Cardinality(Used([table EXCEPT ![i] = Free])) = Cardinality(Used(table)) - 1
           /\ Cardinality(Displaced([table EXCEPT ![i] = Free], m)) =
                  Cardinality(Displaced(table, m)) - Away(i, k, m)
<1> DEFINE after == [table EXCEPT ![i] = Free]
<1>0. IsTable(after, m) /\ i \in 0..(m - 1) /\ after[i] = Free /\ k \in Keys
    BY DEF Entries, IsTable
<1>1. table = [after EXCEPT ![i] = k] /\ m \in Nat /\ DOMAIN after = 0..(m - 1)
    BY DEF Entries, IsTable
<1> HIDE DEF after
<1>2. /\ Cardinality(Used(table)) = Cardinality(Used(after)) + 1
      /\ Cardinality(Displaced(table, m)) = Cardinality(Displaced(after, m)) + Away(i, k, m)
    <2>1. /\ Cardinality(Used([after EXCEPT ![i] = k])) = Cardinality(Used(after)) + 1
          /\ Cardinality(Displaced([after EXCEPT ![i] = k], m)) =
                 Cardinality(Displaced(after, m)) + Away(i, k, m)
        BY ONLY <1>0, PutCounts, Zenon
    <2> QED
        BY <1>1, <2>1, Zenon
<1>3. Cardinality(Used(after)) \in Nat /\ Cardinality(Displaced(after, m)) \in Nat
    BY <1>1, UsedFinite
<1>4. Away(i, k, m) \in {0, 1}
    BY DEF Away
<1>5. /\ Cardinality(Used(after)) = Cardinality(Used(table)) - 1
      /\ Cardinality(Displaced(after, m)) = Cardinality(Displaced(table, m)) - Away(i, k, m)
    BY <1>2, <1>3, <1>4
<1> QED
    BY <1>5 DEF after

\* What set_add_h does to the counters.
LEMMA PlaceCounts ==
    ASSUME max \in 1..MaxSlots, items \in [Slots -> Entries], CountsExact, NEW k \in Keys,
           Place(k)
    PROVE  /\ CountsExact' /\ max' = max /\ count \in Nat
           /\ count' = count \/ count' = count + 1
<1>1. /\ IsTable(items, max) /\ max \in Nat
      /\ items \in [0..(max - 1) -> Entries] /\ DOMAIN items = 0..(max - 1)
    BY DEF Slots, IsTable
<1>2. PICK i \in Slots :
        /\ items[i] \in {k, Free}
        /\ items' = [items EXCEPT ![i] = k]
        /\ IF items[i] = k
              THEN UNCHANGED <<count, collisions>>
              ELSE /\ count' = count + 1
                   /\ collisions' = IF i = Bucket(k) THEN collisions ELSE collisions + 1
        /\ UNCHANGED max
    BY DEF Place, ProbeEnds
<1>3. count \in Nat /\ collisions \in Nat
    BY <1>1, UsedFinite DEF CountsExact
<1>4. CASE items[i] = k
    <2>1. items' = items
        BY <1>1, <1>2, <1>4
    <2> QED
        BY <1>2, <1>3, <1>4, <2>1 DEF CountsExact
<1>5. CASE items[i] # k
    <2>1. items[i] = Free /\ i \in 0..(max - 1) /\ items' = [items EXCEPT ![i] = k]
        BY <1>2, <1>5 DEF Slots
    <2>2. /\ Cardinality(Used(items')) = Cardinality(Used(items)) + 1
          /\ Cardinality(Displaced(items', max)) =
                 Cardinality(Displaced(items, max)) + Away(i, k, max)
        <3>1. /\ Cardinality(Used([items EXCEPT ![i] = k])) = Cardinality(Used(items)) + 1
              /\ Cardinality(Displaced([items EXCEPT ![i] = k], max)) =
                     Cardinality(Displaced(items, max)) + Away(i, k, max)
            <4>1. IsTable(items, max) /\ i \in 0..(max - 1) /\ items[i] = Free /\ k \in Keys
                BY <1>1, <2>1
            <4> QED
                BY ONLY <4>1, PutCounts, Zenon
        <3> QED
            BY <2>1, <3>1, Zenon
    <2>3. /\ count' = count + 1 /\ max' = max
          /\ collisions' = IF i = Hash[k] % max THEN collisions ELSE collisions + 1
        BY <1>2, <1>5 DEF Bucket
    <2>4. CASE i = Hash[k] % max
        BY <1>3, <2>2, <2>3, <2>4 DEF CountsExact, Away
    <2>5. CASE i # Hash[k] % max
        BY <1>3, <2>2, <2>3, <2>5 DEF CountsExact, Away
    <2> QED
        BY <2>4, <2>5
<1> QED
    BY <1>4, <1>5

LEMMA ReplaceCounts ==
    ASSUME NEW m \in Nat, Replace(m)
    PROVE  CountsExact' /\ count' = 0
BY EmptyTable DEF Replace, CountsExact

\* The counters of a removal.
LEMMA RemoveCounts ==
    ASSUME IInv, CountsExact, NEW k \in Keys, Remove(k)
    PROVE  CountsExact' /\ count' = count - 1 /\ count \in Nat /\ max' = max
<1>1. PICK i \in Slots :
          /\ items[i] = k
          /\ items' = [items EXCEPT ![i] = Free]
          /\ collisions' = IF i = Bucket(k) THEN collisions ELSE collisions - 1
    BY DEF Remove
<1>2. count' = count - 1 /\ max' = max
    BY DEF Remove
<1>3. /\ IsTable(items, max) /\ max \in Nat
      /\ items \in [0..(max - 1) -> Entries] /\ i \in 0..(max - 1)
    BY DEF IInv, TableOK, Slots, IsTable
<1>4. /\ Cardinality(Used(items')) = Cardinality(Used(items)) - 1
      /\ Cardinality(Displaced(items', max)) =
             Cardinality(Displaced(items, max)) - Away(i, k, max)
    <2>1. /\ Cardinality(Used([items EXCEPT ![i] = Free])) = Cardinality(Used(items)) - 1
          /\ Cardinality(Displaced([items EXCEPT ![i] = Free], max)) =
                 Cardinality(Displaced(items, max)) - Away(i, k, max)
        <3>1. IsTable(items, max) /\ i \in 0..(max - 1) /\ items[i] = k /\ k \in Keys
            BY <1>1, <1>3
        <3> QED
            BY ONLY <3>1, TakeCounts, Zenon
    <2> QED
        BY <1>1, <2>1, Zenon
<1>5. count \in Nat /\ collisions \in Nat
    BY <1>3, UsedFinite DEF CountsExact
<1>6. CASE i = Hash[k] % max
    BY <1>1, <1>2, <1>4, <1>5, <1>6 DEF CountsExact, Bucket, Away
<1>7. CASE i # Hash[k] % max
    BY <1>1, <1>2, <1>4, <1>5, <1>7 DEF CountsExact, Bucket, Away
<1> QED
    BY <1>2, <1>5, <1>6, <1>7

\* And those of an item that shifts back into the hole.
LEMMA MoveCounts ==
    ASSUME IInv, CountsExact, ShiftMove
    PROVE  CountsExact' /\ count' = count /\ max' = max
<1> DEFINE j == Succ(scan)
           k == items[j]
           mid == [items EXCEPT ![j] = Free]
<1>1. /\ shifting /\ k # Free /\ items' = [items EXCEPT ![hole] = k, ![j] = Free]
      /\ collisions' = IF j # Bucket(k) /\ hole = Bucket(k)
                          THEN collisions - 1
                       ELSE IF j = Bucket(k) /\ hole # Bucket(k)
                          THEN collisions + 1
                       ELSE collisions
      /\ count' = count /\ max' = max
    BY DEF ShiftMove
<1>2. j \in Slots /\ j # hole /\ hole \in Slots /\ items[hole] = Free
    BY <1>1, ShiftFacts, Ring DEF ProbedButHole
<1>3. /\ IsTable(items, max) /\ max \in Nat /\ items \in [0..(max - 1) -> Entries]
      /\ j \in 0..(max - 1) /\ hole \in 0..(max - 1)
    BY <1>1, <1>2, ShiftFacts DEF Slots, IsTable
<1>4. k \in Keys /\ items[j] = k
    BY <1>1, <1>3 DEF Entries
<1> HIDE DEF j, k
<1>5. IsTable(mid, max) /\ mid[hole] = Free
    BY <1>2, <1>3 DEF Entries, IsTable
<1>6. items' = [mid EXCEPT ![hole] = k]
    BY <1>1, <1>2, <1>3
<1>7. /\ Cardinality(Used(mid)) = Cardinality(Used(items)) - 1
      /\ Cardinality(Displaced(mid, max)) =
             Cardinality(Displaced(items, max)) - Away(j, k, max)
    <2>1. IsTable(items, max) /\ j \in 0..(max - 1) /\ items[j] = k /\ k \in Keys
        BY <1>3, <1>4
    <2> QED
        BY ONLY <2>1, TakeCounts, Zenon
<1> HIDE DEF mid
<1>8. /\ Cardinality(Used(items')) = Cardinality(Used(mid)) + 1
      /\ Cardinality(Displaced(items', max)) =
             Cardinality(Displaced(mid, max)) + Away(hole, k, max)
    <2>1. /\ Cardinality(Used([mid EXCEPT ![hole] = k])) = Cardinality(Used(mid)) + 1
          /\ Cardinality(Displaced([mid EXCEPT ![hole] = k], max)) =
                 Cardinality(Displaced(mid, max)) + Away(hole, k, max)
        <3>1. IsTable(mid, max) /\ hole \in 0..(max - 1) /\ mid[hole] = Free /\ k \in Keys
            BY <1>3, <1>4, <1>5
        <3> QED
            BY ONLY <3>1, PutCounts, Zenon
    <2> QED
        BY <1>6, <2>1, Zenon
<1>9. count \in Nat /\ collisions \in Nat
    BY <1>3, UsedFinite DEF CountsExact
<1>10. Cardinality(Used(items')) = count
    BY <1>7, <1>8, <1>9 DEF CountsExact
<1>11. Cardinality(Displaced(items', max)) = collisions'
    <2>1. Bucket(k) = Hash[k] % max /\ collisions = Cardinality(Displaced(items, max))
        BY DEF Bucket, CountsExact
    <2>2. CASE j = Hash[k] % max
        BY <1>1, <1>2, <1>7, <1>8, <1>9, <2>1, <2>2 DEF Away
    <2>3. CASE hole = Hash[k] % max
        BY <1>1, <1>2, <1>7, <1>8, <1>9, <2>1, <2>3 DEF Away
    <2>4. CASE j # Hash[k] % max /\ hole # Hash[k] % max
        BY <1>1, <1>7, <1>8, <1>9, <2>1, <2>4 DEF Away
    <2> QED
        BY <2>2, <2>3, <2>4
<1> QED
    BY <1>1, <1>10, <1>11 DEF CountsExact

\* The last insertion of a resize, with or without a key that waited for the room.
LEMMA RehashedCounts ==
    ASSUME IInv, CountsExact, Rehashed
    PROVE  /\ CountsExact' /\ max' = max /\ count \in Nat
           /\ count' = count \/ (Top.key # Free /\ count' = count + 1)
<1>1. /\ frames # <<>>
      /\ IF Top.key = Free THEN UNCHANGED tableVars ELSE Place(Top.key)
    BY DEF Rehashed
<1>2. /\ max \in 1..MaxSlots /\ items \in [Slots -> Entries] /\ Top.key \in Entries
    BY <1>1, MovingFacts DEF IsFrame
<1>3. count \in Nat
    BY <1>2, UsedFinite DEF CountsExact, Slots
<1>4. CASE Top.key = Free
    BY <1>1, <1>3, <1>4 DEF tableVars, CountsExact
<1>5. CASE Top.key # Free
    <2>1. Top.key \in Keys /\ Place(Top.key)
        BY <1>1, <1>2, <1>5 DEF Entries
    <2> QED
        BY <1>2, <1>5, <2>1, PlaceCounts
<1> QED
    BY <1>4, <1>5

LEMMA InitCounts == Init => CountsExact
<1> SUFFICES ASSUME Init PROVE CountsExact
    OBVIOUS
<1>1. max \in Nat /\ items = [i \in 0..(max - 1) |-> Free] /\ count = 0 /\ collisions = 0
    BY DEF Init, Slots
<1> QED
    BY <1>1, EmptyTable DEF CountsExact

LEMMA NextCounts ==
    ASSUME IInv, CountsExact, [Next]_vars
    PROVE  CountsExact'
<1>0. /\ max \in Nat /\ 2 * max \in Nat /\ max \in 1..MaxSlots /\ items \in [Slots -> Entries]
    BY DEF IInv, TableOK
<1>1. ASSUME NEW k \in Keys, Add(k) PROVE CountsExact'
    BY <1>0, <1>1, PlaceCounts DEF Add
<1>2. ASSUME NEW k \in Keys, AddGrows(k) PROVE CountsExact'
    BY <1>0, <1>2, ReplaceCounts DEF AddGrows
<1>3. ASSUME NEW k \in Keys, Remove(k) PROVE CountsExact'
    BY <1>3, RemoveCounts
<1>4. ASSUME NEW m \in Sizes, Resize(m) PROVE CountsExact'
    <2>1. m \in Nat
        OBVIOUS
    <2> QED
        BY <1>4, <2>1, ReplaceCounts DEF Resize
<1>5. CASE RehashFree
    BY <1>5 DEF RehashFree, CountsExact
<1>6. CASE RehashItem
    <2>1. Top.old[Top.next] \in Keys
        BY <1>6, MovingFacts DEF RehashItem, Moving, IsFrame, Entries
    <2> QED
        BY <1>0, <1>6, <2>1, PlaceCounts DEF RehashItem
<1>7. CASE RehashGrows
    BY <1>0, <1>7, ReplaceCounts DEF RehashGrows
<1>8. CASE RehashFails
    BY <1>8 DEF RehashFails, CountsExact
<1>9. CASE Rehashed
    BY <1>9, RehashedCounts
<1>10. CASE ShiftMove
    BY <1>10, MoveCounts
<1>11. CASE ShiftSkip
    BY <1>11 DEF ShiftSkip, CountsExact
<1>12. CASE ShiftEnds
    BY <1>12 DEF ShiftEnds, CountsExact
<1>13. CASE UNCHANGED vars
    BY <1>13 DEF vars, CountsExact
<1> QED
    BY <1>1, <1>2, <1>3, <1>4, <1>5, <1>6, <1>7, <1>8, <1>9, <1>10, <1>11, <1>12, <1>13
       DEF Next

\* count and collisions, which set_add_h and set_remove keep step by step, are at
\* every step of every loop what the table holds (CountsExact), so neither goes
\* below zero.
THEOREM CountsHold == Spec => []CountsExact
<1>1. Init => IInv /\ CountsExact
    BY InitIInv, InitCounts
<1>2. IInv /\ CountsExact /\ [Next]_vars => IInv' /\ CountsExact'
    BY NextIInv, NextCounts
<1> QED
    BY <1>1, <1>2, PTL DEF Spec

-----------------------------------------------------------------------------
(* A free slot *)

LEMMA MovedFacts ==
    ASSUME NEW f, IsFrame(f)
    PROVE  /\ Moved(f) \in Nat /\ Cardinality(Used(f.old)) \in Nat /\ f.size \in Nat
           /\ Moved(f) <= Cardinality(Used(f.old))
<1>1. /\ f.size \in Nat /\ f.next \in 0..f.size /\ DOMAIN f.old = 0..(f.size - 1)
    BY DEF IsFrame
<1> DEFINE M == {i \in 0..(f.next - 1) : f.old[i] # Free}
           U == Used(f.old)
<1>2. IsFiniteSet(U)
    BY <1>1, UsedFinite
<1>3. M \subseteq U
    BY <1>1 DEF Used
<1> HIDE DEF M, U
<1>4. /\ Cardinality(M) \in Nat /\ Cardinality(U) \in Nat
      /\ Cardinality(M) <= Cardinality(U)
    BY <1>2, <1>3, FS_Subset, FS_CardinalityType
<1> QED
    BY <1>1, <1>4 DEF M, U, Moved

LEMMA MovedStep ==
    ASSUME NEW f, IsFrame(f), f.next < f.size, NEW g, g = [f EXCEPT !.next = @ + 1]
    PROVE  /\ g.size = f.size /\ g.old = f.old /\ g.key = f.key /\ IsFrame(g)
           /\ Moved(g) >= Moved(f)
           /\ f.old[f.next] # Free => Moved(g) = Moved(f) + 1
<1>1. /\ f.size \in Nat /\ f.next \in 0..f.size /\ DOMAIN f.old = 0..(f.size - 1)
      /\ g.next = f.next + 1 /\ g.size = f.size /\ g.old = f.old /\ g.key = f.key /\ IsFrame(g)
    BY DEF IsFrame
<1> DEFINE M == {i \in 0..(f.next - 1) : f.old[i] # Free}
           N == {i \in 0..(g.next - 1) : g.old[i] # Free}
           U == Used(f.old)
<1>2. IsFiniteSet(U)
    BY <1>1, UsedFinite
<1>3. M \subseteq U
    BY <1>1 DEF Used
<1>4. f.next \notin M
    BY <1>1
<1>5. N = IF f.old[f.next] # Free THEN M \cup {f.next} ELSE M
    BY <1>1
<1> HIDE DEF M, N, U
<1>6. IsFiniteSet(M)
    BY <1>2, <1>3, FS_Subset
<1>7. Cardinality(M) \in Nat
    BY <1>6, FS_CardinalityType
<1>8. CASE f.old[f.next] # Free
    <2>1. Cardinality(M \cup {f.next}) = Cardinality(M) + 1
        BY <1>4, <1>6, FS_AddElement
    <2>2. Cardinality(N) = Cardinality(M) + 1
        BY <1>5, <1>8, <2>1
    <2> QED
        BY <1>1, <1>7, <2>2 DEF M, N, Moved
<1>9. CASE f.old[f.next] = Free
    <2>1. Cardinality(N) = Cardinality(M)
        BY <1>5, <1>9
    <2> QED
        BY <1>1, <1>7, <1>9, <2>1 DEF M, N, Moved
<1> QED
    BY <1>8, <1>9

\* What the steps start from.
LEMMA RoomFacts ==
    ASSUME IInv, CountsExact, RoomLeft
    PROVE  /\ max \in Nat /\ max \in 1..MaxSlots /\ max >= 2
           /\ items \in [Slots -> Entries]
           /\ count \in Nat /\ 2 * count <= max + 1 /\ count = Cardinality(Used(items))
<1>1. max \in Nat /\ max \in 1..MaxSlots /\ items \in [Slots -> Entries]
    BY DEF IInv, TableOK
<1>2. count \in Nat
    BY <1>1, UsedFinite DEF CountsExact, Slots
<1> QED
    BY <1>1, <1>2 DEF RoomLeft, CountsExact

\* The first resize of a stack begins.
LEMMA BeginsRoom ==
    ASSUME IInv, CountsExact, RoomLeft, NEW m \in Nat, m >= 2, Replace(m),
           NEW key \in Entries, key # Free => 2 * max <= m, frames' = <<Frame(key)>>
    PROVE  RoomLeft'
<1> DEFINE f == Frame(key)
<1>1. f.size = max /\ f.old = items /\ f.key = key /\ IsFrame(f)
    BY RoomFacts DEF Frame, IsFrame, Slots
<1>2. count' = 0 /\ max' = m
    BY DEF Replace
<1>3. DOMAIN frames' = {1} /\ Len(frames') = 1 /\ frames'[1] = f
    OBVIOUS
<1> HIDE DEF f
<1>4. FrameRoom(f, 0, m)
    BY <1>1, RoomFacts, MovedFacts DEF FrameRoom
<1> QED
    BY <1>2, <1>3, <1>4 DEF RoomLeft

\* The room of a resize under way.
LEMMA TopRoom ==
    ASSUME IInv, CountsExact, RoomLeft, frames # <<>>
    PROVE  FrameRoom(Top, count, max)
    BY MovingFacts DEF RoomLeft, Top

\* An item of the top has moved, or a free slot of it was skipped.
LEMMA AdvanceRoom ==
    ASSUME IInv, CountsExact, RoomLeft, Moving, frames' = Advanced, max' = max,
           count' \in Nat, 2 * count' <= max + 1,
           count' = count \/ (Top.old[Top.next] # Free /\ count' = count + 1)
    PROVE  RoomLeft'
<1> DEFINE g == [Top EXCEPT !.next = @ + 1]
<1>1. frames # <<>> /\ Top.next < Top.size /\ IsFrame(Top)
    BY MovingFacts DEF Moving
<1>2. /\ DOMAIN frames' = DOMAIN frames /\ Len(frames') = Len(frames)
      /\ DOMAIN frames = 1..Len(frames) /\ Len(frames) \in Nat
      /\ \A n \in DOMAIN frames : n # Len(frames) => frames'[n] = frames[n]
      /\ frames'[Len(frames)] = g
    BY <1>1, AdvancedFacts, MovingFacts
<1>3. /\ g.size = Top.size /\ g.old = Top.old /\ g.key = Top.key /\ IsFrame(g)
      /\ Moved(g) >= Moved(Top)
      /\ Top.old[Top.next] # Free => Moved(g) = Moved(Top) + 1
    BY <1>1, MovedStep
<1> HIDE DEF g
<1>4. FrameRoom(g, count', max)
    <2>1. FrameRoom(Top, count, max) /\ count \in Nat
        BY <1>1, TopRoom, RoomFacts
    <2>2. Moved(Top) \in Nat /\ Moved(g) \in Nat
        BY <1>1, <1>3, MovedFacts
    <2>3. count' <= Moved(g)
        BY <1>3, <2>1, <2>2 DEF FrameRoom
    <2> QED
        BY <1>3, <2>1, <2>3 DEF FrameRoom
<1>5. ASSUME NEW n \in DOMAIN frames, n # Len(frames)
      PROVE  FrameRoom(frames'[n], Cardinality(Used(frames'[n + 1].old)) + 1, frames'[n + 1].size)
    <2>1. n + 1 \in DOMAIN frames
        BY <1>2, <1>5
    <2>2. frames'[n + 1].old = frames[n + 1].old /\ frames'[n + 1].size = frames[n + 1].size
        BY <1>2, <1>3, <2>1 DEF Top
    <2> QED
        BY <1>2, <1>5, <2>2 DEF RoomLeft
<1> QED
    BY <1>2, <1>4, <1>5, RoomFacts DEF RoomLeft

\* The new table is replaced in its turn.
LEMMA GrowsRoom ==
    ASSUME IInv, CountsExact, RoomLeft, RehashGrows
    PROVE  RoomLeft'
<1> DEFINE g == [Top EXCEPT !.next = @ + 1]
           f == Frame(Top.old[Top.next])
           top == Len(frames)
<1>1. /\ Moving /\ frames # <<>> /\ Top.next < Top.size /\ IsFrame(Top)
      /\ Top.old[Top.next] # Free /\ Top.old[Top.next] \in Entries
      /\ Replace(2 * max) /\ frames' = Append(Advanced, f)
    BY MovingFacts DEF RehashGrows, Moving, IsFrame
<1>2. /\ IsStack(Advanced) /\ DOMAIN Advanced = DOMAIN frames
      /\ Len(Advanced) = top
      /\ DOMAIN frames = 1..top /\ top \in Nat \ {0}
      /\ \A n \in DOMAIN frames : n # top => Advanced[n] = frames[n]
      /\ Advanced[top] = g
    BY <1>1, AdvancedFacts, MovingFacts
<1>3. f.size = max /\ f.old = items /\ f.key # Free /\ IsFrame(f)
    BY <1>1, RoomFacts DEF Frame, IsFrame, Slots
<1>4. /\ g.size = Top.size /\ g.old = Top.old /\ g.key = Top.key /\ IsFrame(g)
      /\ Moved(g) = Moved(Top) + 1
    BY <1>1, MovedStep
<1> HIDE DEF f, g
<1>5. /\ Len(frames') = top + 1
      /\ DOMAIN frames' = 1..(top + 1)
      /\ \A n \in 1..top : frames'[n] = Advanced[n]
      /\ frames'[top + 1] = f
    <2>1. PICK s : s = Advanced /\ IsStack(s) /\ Len(s) = top /\ frames' = Append(s, f)
        BY <1>1, <1>2
    <2> HIDE DEF top
    <2>2. /\ Len(Append(s, f)) = Len(s) + 1
          /\ DOMAIN Append(s, f) = 1..(Len(s) + 1)
          /\ \A n \in 1..Len(s) : Append(s, f)[n] = s[n]
          /\ Append(s, f)[Len(s) + 1] = f
        BY <1>3, <2>1, PushFacts
    <2> QED
        BY <2>1, <2>2
<1>6. count' = 0 /\ max' = 2 * max
    BY <1>1 DEF Replace
<1>7. FrameRoom(f, 0, 2 * max)
    BY <1>3, RoomFacts, MovedFacts DEF FrameRoom
<1>8. FrameRoom(g, Cardinality(Used(items)) + 1, max)
    BY <1>1, <1>4, TopRoom, RoomFacts, MovedFacts DEF FrameRoom
<1>9. FrameRoom(frames'[top], Cardinality(Used(frames'[top + 1].old)) + 1, frames'[top + 1].size)
    <2>1. frames'[top] = g
        BY <1>2, <1>5
    <2> QED
        BY <1>3, <1>5, <1>8, <2>1
<1>10. ASSUME NEW n \in 1..top, n # top
       PROVE  FrameRoom(frames'[n], Cardinality(Used(frames'[n + 1].old)) + 1, frames'[n + 1].size)
    <2>0. n + 1 \in 1..top
        <3> HIDE DEF top
        <3> QED
            BY <1>2, <1>10
    <2>1. n \in DOMAIN frames /\ n + 1 \in DOMAIN frames /\ n + 1 \in 1..top
        BY <1>2, <1>10, <2>0, Zenon
    <2>2. frames'[n] = frames[n]
        BY <1>2, <1>5, <1>10, <2>1
    <2>3. frames'[n + 1].old = frames[n + 1].old /\ frames'[n + 1].size = frames[n + 1].size
        BY <1>2, <1>4, <1>5, <2>1 DEF Top
    <2>4. FrameRoom(frames[n], Cardinality(Used(frames[n + 1].old)) + 1, frames[n + 1].size)
        BY <1>10, <2>1 DEF RoomLeft
    <2> QED
        BY <2>2, <2>3, <2>4
<1>11. \A n \in DOMAIN frames' : n = top + 1 \/ n \in 1..top
    BY <1>2, <1>5
<1>12. max' >= 2 /\ 2 * count' <= max' + 1
    BY <1>6, RoomFacts
<1>13. \A n \in 1..top : n # top + 1
    BY <1>2
<1> QED
    BY <1>5, <1>6, <1>7, <1>9, <1>10, <1>11, <1>12, <1>13 DEF RoomLeft

\* A resize ends, and the key that waited for it gets its place.
LEMMA RehashedRoom ==
    ASSUME IInv, CountsExact, RoomLeft, Rehashed
    PROVE  RoomLeft'
<1> DEFINE top == Len(frames)
<1>1. /\ frames # <<>> /\ IsFrame(Top) /\ top \in Nat \ {0} /\ DOMAIN frames = 1..top
    BY MovingFacts DEF Rehashed
<1>2. /\ Len(frames') = top - 1 /\ DOMAIN frames' = 1..(top - 1)
      /\ \A n \in DOMAIN frames' : frames'[n] = frames[n]
    <2>1. frames' = BelowTop /\ IsStack(frames)
        BY <1>1, MovingFacts DEF Rehashed
    <2>2. /\ Len(BelowTop) = top - 1 /\ DOMAIN BelowTop = 1..(top - 1)
          /\ \A n \in DOMAIN BelowTop : BelowTop[n] = frames[n]
        BY <1>1, <2>1, BelowTopFacts, Zenon
    <2> QED
        BY <2>1, <2>2, Zenon
<1>3. /\ max' = max /\ count \in Nat
      /\ count' = count \/ (Top.key # Free /\ count' = count + 1)
    BY RehashedCounts
<1>4. /\ Top.size \in Nat /\ Top.size >= 2 /\ Cardinality(Used(Top.old)) \in Nat
      /\ count <= Cardinality(Used(Top.old))
      /\ 2 * Cardinality(Used(Top.old)) <= Top.size + 1
      /\ Top.key # Free => 2 * Top.size <= max
    BY <1>1, <1>3, TopRoom, MovedFacts DEF FrameRoom
<1>5. max' >= 2 /\ 2 * count' <= max' + 1
    BY <1>3, <1>4, RoomFacts
<1>6. ASSUME NEW n \in 1..(top - 1), n = top - 1
      PROVE  FrameRoom(frames[n], count', max)
    <2>0. n \in 1..top /\ n # top /\ n + 1 = top
        <3> HIDE DEF top
        <3> QED
            BY <1>1, <1>6
    <2>1. n \in DOMAIN frames /\ n # top /\ n + 1 = top /\ IsFrame(frames[n])
        <3>1. IsStack(frames) /\ n \in DOMAIN frames
            BY <1>1, <2>0, MovingFacts, Zenon
        <3> QED
            BY <2>0, <3>1, Zenon DEF IsStack
    <2>2. FrameRoom(frames[n], Cardinality(Used(Top.old)) + 1, Top.size)
        BY <2>1 DEF RoomLeft, Top
    <2>3. Top.key # Free
        BY <1>1, <1>6, MovingFacts DEF IInv, Top
    <2>4. frames[n].size \in Nat /\ Moved(frames[n]) \in Nat
        BY <2>1, MovedFacts
    <2>5. Top.size <= max /\ max \in Nat
        BY <1>4, <2>3, RoomFacts
    <2>6. count' \in Nat /\ count' <= Cardinality(Used(Top.old)) + 1
        BY <1>3, <1>4
    <2> QED
        <3>1. count' <= Moved(frames[n])
            BY <1>4, <2>2, <2>4, <2>6 DEF FrameRoom
        <3>2. frames[n].key # Free => 2 * frames[n].size <= max
            <4>1. PICK z \in Nat, m \in Nat : z = frames[n].size /\ m = Top.size
                BY <1>4, <2>4 DEF FrameRoom, IsFrame
            <4>2. frames[n].key # Free => 2 * z <= m
                BY <2>2, <4>1 DEF FrameRoom
            <4> QED
                BY <2>5, <4>1, <4>2
        <3> QED
            BY <2>2, <3>1, <3>2 DEF FrameRoom
<1>7. ASSUME NEW n \in 1..(top - 1), n # top - 1
      PROVE  FrameRoom(frames'[n], Cardinality(Used(frames'[n + 1].old)) + 1, frames'[n + 1].size)
    <2>0. n \in 1..top /\ n # top /\ n + 1 \in 1..(top - 1)
        <3> HIDE DEF top
        <3> QED
            BY <1>1, <1>7
    <2>1. n \in DOMAIN frames /\ n # top /\ n \in DOMAIN frames' /\ n + 1 \in DOMAIN frames'
        BY <1>1, <1>2, <1>7, <2>0, Zenon
    <2>2. frames'[n] = frames[n] /\ frames'[n + 1] = frames[n + 1]
        BY <1>2, <2>1
    <2>3. FrameRoom(frames[n], Cardinality(Used(frames[n + 1].old)) + 1, frames[n + 1].size)
        BY <2>1 DEF RoomLeft
    <2> QED
        BY <2>2, <2>3
<1> QED
    BY <1>2, <1>3, <1>5, <1>6, <1>7 DEF RoomLeft

LEMMA NextRoom ==
    ASSUME 1 \notin Sizes, IInv, CountsExact, RoomLeft, [Next]_vars
    PROVE  RoomLeft'
<1>0. /\ max \in Nat /\ 2 * max \in Nat /\ max \in 1..MaxSlots /\ max >= 2
      /\ items \in [Slots -> Entries] /\ count \in Nat /\ 2 * count <= max + 1
    BY RoomFacts
<1>1. ASSUME NEW k \in Keys, Add(k) PROVE RoomLeft'
    <2>1. frames' = <<>> /\ ~ Loaded /\ Place(k)
        BY <1>1 DEF Add, Idle
    <2>2. max' = max /\ (count' = count \/ count' = count + 1)
        BY <1>0, <2>1, PlaceCounts
    <2> QED
        BY <1>0, <2>1, <2>2 DEF RoomLeft, Loaded
<1>2. ASSUME NEW k \in Keys, AddGrows(k) PROVE RoomLeft'
    BY <1>0, <1>2, BeginsRoom DEF AddGrows, Entries
<1>3. ASSUME NEW k \in Keys, Remove(k) PROVE RoomLeft'
    <2>1. frames' = <<>>
        BY <1>3 DEF Remove, Idle
    <2> QED
        BY <1>0, <1>3, <2>1, RemoveCounts DEF RoomLeft
<1>4. ASSUME NEW m \in Sizes, Resize(m) PROVE RoomLeft'
    <2>1. m \in Nat /\ m >= 2
        OBVIOUS
    <2> QED
        BY <1>4, <2>1, BeginsRoom DEF Resize, Entries
<1>5. CASE RehashFree
    BY <1>0, <1>5, AdvanceRoom DEF RehashFree
<1>6. CASE RehashItem
    <2>1. Top.old[Top.next] \in Keys
        BY <1>6, MovingFacts DEF RehashItem, Moving, IsFrame, Entries
    <2>2. max' = max /\ (count' = count \/ count' = count + 1)
        BY <1>0, <1>6, <2>1, PlaceCounts DEF RehashItem
    <2>3. count' \in Nat /\ 2 * count' <= max + 1
        BY <1>0, <1>6, <2>2 DEF RehashItem, Loaded
    <2> QED
        BY <1>6, <2>2, <2>3, AdvanceRoom DEF RehashItem
<1>7. CASE RehashGrows
    BY <1>7, GrowsRoom
<1>8. CASE RehashFails
    <2>1. /\ frames' = <<>> /\ max' = frames[1].size
          /\ count' = Cardinality(Used(frames[1].old))
          /\ 1 \in DOMAIN frames
        BY <1>8, MovingFacts DEF RehashFails, Moving
    <2>2. frames[1].size >= 2 /\ 2 * Cardinality(Used(frames[1].old)) <= frames[1].size + 1
        BY <2>1 DEF RoomLeft, FrameRoom
    <2> QED
        BY <2>1, <2>2 DEF RoomLeft
<1>9. CASE Rehashed
    BY <1>9, RehashedRoom
<1>10. ASSUME shifting, count' = count, max' = max, frames' = frames
       PROVE  RoomLeft'
    BY <1>10 DEF RoomLeft
<1>11. CASE ShiftMove
    BY <1>10, <1>11 DEF ShiftMove
<1>12. CASE ShiftSkip
    BY <1>10, <1>12 DEF ShiftSkip
<1>13. CASE ShiftEnds
    BY <1>10, <1>13 DEF ShiftEnds
<1>14. CASE UNCHANGED vars
    BY <1>14 DEF vars, RoomLeft
<1> QED
    BY <1>1, <1>2, <1>3, <1>4, <1>5, <1>6, <1>7, <1>8, <1>9, <1>11, <1>12, <1>13, <1>14
       DEF Next

LEMMA RoomEnds ==
    ASSUME IInv, CountsExact, RoomLeft
    PROVE  LookupEnds
<1> SUFFICES ASSUME \A i \in Slots : items[i] # Free PROVE FALSE
    BY DEF LookupEnds
<1>1. /\ max \in Nat /\ max >= 2 /\ items \in [Slots -> Entries]
      /\ 2 * count <= max + 1 /\ count = Cardinality(Used(items))
    BY RoomFacts
<1>2. Used(items) = 0..(max - 1)
    BY <1>1 DEF Used, Slots
<1>3. 0 \in Int /\ max - 1 \in Int
    BY <1>1
<1>4. Cardinality(0..(max - 1)) = IF 0 > max - 1 THEN 0 ELSE (max - 1) - 0 + 1
    BY <1>3, FS_Interval, Zenon
<1> QED
    BY <1>1, <1>2, <1>4

\* The probing loop for a key that is not there comes to a free slot and ends
\* (LookupEnds): set_add_h grows the table in time, also while a resize to a
\* smaller size moves the items, unless a caller asks for a table of one slot.
THEOREM LookupEndsHolds ==
    ASSUME 1 \notin Sizes
    PROVE  Spec => []LookupEnds
<1>1. Init => IInv /\ CountsExact /\ RoomLeft
    <2> SUFFICES ASSUME Init PROVE RoomLeft
        BY InitIInv, InitCounts
    <2>1. max >= 2 /\ max \in Nat /\ count = 0 /\ frames = <<>>
        BY DEF Init
    <2> QED
        BY <2>1 DEF RoomLeft
<1>2. IInv /\ CountsExact /\ RoomLeft /\ [Next]_vars => IInv' /\ CountsExact' /\ RoomLeft'
    BY NextIInv, NextCounts, NextRoom
<1>3. IInv /\ CountsExact /\ RoomLeft => LookupEnds
    BY RoomEnds
<1> QED
    BY <1>1, <1>2, <1>3, PTL DEF Spec
=============================================================================
