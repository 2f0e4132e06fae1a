------------------------------ MODULE HashSet ------------------------------
(***************************************************************************)
(* The open-addressing set of lib/set.c: linear probing, growth before an  *)
(* insertion, removal by shifting back.  It indexes the facts of a         *)
(* database and the multiplicities of a tuple space.                       *)
(*                                                                         *)
(* An iteration of the rehashing loop and one of the shifting loop are a   *)
(* step each; the callers see the states in which no loop is under way.    *)
(* Data, length and hash of an item are its key.  `members' is the set     *)
(* that the table stands for.                                              *)
(***************************************************************************)
EXTENDS Integers, Sequences, FiniteSets

CONSTANTS
    Keys,
    Free,      \* a slot whose len is 0; also: no key
    Hash,      \* [Keys -> Nat]
    Sizes,     \* the sizes that callers give to set_init and set_resize
    MaxSlots   \* SIZE_MAX / sizeof(s_set_item)

ASSUME HashSetAssumption ==
    /\ Free \notin Keys
    /\ Hash \in [Keys -> Nat]
    /\ MaxSlots \in Nat
    /\ Sizes \subseteq 1..MaxSlots

VARIABLES
    items,       \* set->items: [0..max-1 -> Keys or Free]
    max,
    count,
    collisions,
    frames,      \* the calls of set_resize_checked under way, the outer one first
    shifting,    \* set_remove is in its loop
    hole, scan,  \* its i and j
    members

tableVars == <<items, max, count, collisions>>
vars == <<items, max, count, collisions, frames, shifting, hole, scan, members>>

Slots == 0..(max - 1)

Entries == Keys \union {Free}

\* A call of set_resize_checked: the old items and their number, the next one to
\* move, and the key whose insertion asked for the room (Free: it was called
\* directly).
IsFrame(f) ==
    /\ DOMAIN f = {"old", "size", "next", "key"}
    /\ f.size \in 1..MaxSlots
    /\ f.old \in [0..(f.size - 1) -> Entries]
    /\ f.next \in 0..f.size
    /\ f.key \in Entries

TableOK ==
    /\ max \in 1..MaxSlots
    /\ items \in [Slots -> Entries]
    /\ frames \in Seq({frames[n] : n \in DOMAIN frames})
    /\ \A n \in DOMAIN frames : IsFrame(frames[n])
    /\ shifting \in BOOLEAN
    /\ hole \in Slots
    /\ scan \in Slots
    /\ members \subseteq Keys

TypeOK == TableOK /\ count \in Nat /\ collisions \in Nat

\* set_init_checked
Init ==
    /\ max \in Sizes
    /\ items = [i \in Slots |-> Free]
    /\ count = 0
    /\ collisions = 0
    /\ frames = <<>>
    /\ shifting = FALSE
    /\ hole = 0
    /\ scan = 0
    /\ members = {}

Idle == frames = <<>> /\ ~ shifting

-----------------------------------------------------------------------------
(* Probing *)

Bucket(k) == Hash[k] % max

\* (i + 1) % max
Succ(i) == IF i + 1 = max THEN 0 ELSE i + 1

\* The slots from `from' up to, not including, `to', going round.
Between(from, i, to) ==
    IF from <= to THEN from <= i /\ i < to ELSE from <= i \/ i < to

\* The probing loop for a key ends in slot i.
ProbeEnds(k, i) ==
    /\ items[i] \in {k, Free}
    /\ \A x \in Slots : Between(Bucket(k), x, i) => items[x] \notin {k, Free}

\* set_get_h returns an item.
Found(k) == \E i \in Slots : ProbeEnds(k, i) /\ items[i] = k

\* The part of set_add_h after the growth: an equal item, or a free slot.
Place(k) ==
    \E i \in Slots :
        /\ ProbeEnds(k, i)
        /\ items' = [items EXCEPT ![i] = k]
        /\ IF items[i] = k
              THEN UNCHANGED <<count, collisions>>
              ELSE /\ count' = count + 1
                   /\ collisions' = IF i = Bucket(k) THEN collisions ELSE collisions + 1
        /\ UNCHANGED max

-----------------------------------------------------------------------------
(* Insertion and growth *)

\* Mutation: growth when more than half of the slots are in use.
LoadedLate == count * 2 > max

Loaded == count * 2 >= max

\* set_resize_checked up to its loop.
Replace(m) ==
    /\ m <= MaxSlots
    /\ max' = m
    /\ items' = [i \in 0..(m - 1) |-> Free]
    /\ count' = 0
    /\ collisions' = 0

\* The position of set_remove's loop means nothing outside it.
NoShift == hole' = 0 /\ scan' = 0 /\ UNCHANGED shifting

Frame(key) == [old |-> items, size |-> max, next |-> 0, key |-> key]

\* set_add_h into a table with room.  (Without memory for a larger one it
\* returns NULL and changes nothing.)
Add(k) ==
    /\ Idle
    /\ ~ Loaded
    /\ Place(k)
    /\ members' = members \union {k}
    /\ NoShift
    /\ UNCHANGED frames

\* set_add_h asks for twice the room before it looks for the key.
AddGrows(k) ==
    /\ Idle
    /\ Loaded
    /\ Replace(2 * max)
    /\ frames' = <<Frame(k)>>
    /\ NoShift
    /\ UNCHANGED members

\* set_resize_checked called directly; the size it has is no change.
Resize(m) ==
    /\ Idle
    /\ m # max
    /\ count <= m
    /\ Replace(m)
    /\ frames' = <<Frame(Free)>>
    /\ NoShift
    /\ UNCHANGED members

Top == frames[Len(frames)]

BelowTop == [n \in 1..(Len(frames) - 1) |-> frames[n]]

Advanced == [frames EXCEPT ![Len(frames)].next = @ + 1]

Moving == frames # <<>> /\ Top.next < Top.size

\* The loop of set_resize_checked skips a free slot.
RehashFree ==
    /\ Moving
    /\ Top.old[Top.next] = Free
    /\ frames' = Advanced
    /\ NoShift
    /\ UNCHANGED <<items, max, count, collisions, members>>

\* It adds an item to the new table.
RehashItem ==
    /\ Moving
    /\ Top.old[Top.next] # Free
    /\ ~ Loaded
    /\ Place(Top.old[Top.next])
    /\ frames' = Advanced
    /\ NoShift
    /\ UNCHANGED members

\* The new table is too small for that: set_add_h resizes it in its turn.
RehashGrows ==
    /\ Moving
    /\ Top.old[Top.next] # Free
    /\ Loaded
    /\ Replace(2 * max)
    /\ frames' = Append(Advanced, Frame(Top.old[Top.next]))
    /\ NoShift
    /\ UNCHANGED members

\* The slots in use, and those of them whose item is not in its bucket.
Used(table) == {i \in DOMAIN table : table[i] # Free}

Displaced(table, size) == {i \in Used(table) : i # Hash[table[i]] % size}

\* There is no memory for it: the outer call puts the old items back.
RehashFails ==
    /\ Moving
    /\ Top.old[Top.next] # Free
    /\ Loaded
    /\ items' = frames[1].old
    /\ max' = frames[1].size
    /\ count' = Cardinality(Used(frames[1].old))
    /\ collisions' = Cardinality(Displaced(frames[1].old, frames[1].size))
    /\ frames' = <<>>
    /\ NoShift
    /\ UNCHANGED members

\* The loop is over; the insertion that asked for the room goes on.
Rehashed ==
    /\ frames # <<>>
    /\ ~ Moving
    /\ frames' = BelowTop
    /\ IF Top.key = Free THEN UNCHANGED tableVars ELSE Place(Top.key)
    /\ members' = IF Len(frames) = 1 THEN members \union ({Top.key} \ {Free}) ELSE members
    /\ NoShift

-----------------------------------------------------------------------------
(* Removal *)

\* set_remove of an item that set_get returned, up to the loop.
Remove(k) ==
    /\ Idle
    /\ \E i \in Slots :
          /\ ProbeEnds(k, i)
          /\ items[i] = k
          /\ items' = [items EXCEPT ![i] = Free]
          /\ collisions' = IF i = Bucket(k) THEN collisions ELSE collisions - 1
          /\ hole' = i
          /\ scan' = i
    /\ count' = count - 1
    /\ shifting' = TRUE
    /\ members' = members \ {k}
    /\ UNCHANGED <<max, frames>>

\* Mutation: can_move without the case of a scan that has gone round the end.
CanMoveNoWrap(j) ==
    LET bucket == Bucket(items[j])
    IN  bucket <= hole \/ bucket > j

\* can_move: the bucket of the item in slot j is not between the hole and j.
CanMove(j) ==
    LET bucket == Bucket(items[j])
    IN  IF hole < j THEN bucket <= hole \/ bucket > j ELSE bucket <= hole /\ bucket > j

\* Mutation: an item that comes home is still counted as displaced.
ShiftMoveUncounted ==
    LET j == Succ(scan)
    IN  /\ shifting
        /\ items[j] # Free
        /\ CanMove(j)
        /\ items' = [items EXCEPT ![hole] = items[j], ![j] = Free]
        /\ hole' = j
        /\ scan' = j
        /\ UNCHANGED <<max, count, collisions, frames, shifting, members>>

\* The item in the slot under the scan goes into the hole and leaves its own.
ShiftMove ==
    LET j == Succ(scan)
    IN  /\ shifting
        /\ items[j] # Free
        /\ CanMove(j)
        /\ items' = [items EXCEPT ![hole] = items[j], ![j] = Free]
        /\ collisions' = IF j # Bucket(items[j]) /\ hole = Bucket(items[j])
                            THEN collisions - 1
                         ELSE IF j = Bucket(items[j]) /\ hole # Bucket(items[j])
                            THEN collisions + 1
                         ELSE collisions
        /\ hole' = j
        /\ scan' = j
        /\ UNCHANGED <<max, count, frames, shifting, members>>

\* It stays where it is.
ShiftSkip ==
    LET j == Succ(scan)
    IN  /\ shifting
        /\ items[j] # Free
        /\ ~ CanMove(j)
        /\ scan' = j
        /\ UNCHANGED <<items, max, count, collisions, frames, shifting, hole, members>>

ShiftEnds ==
    /\ shifting
    /\ items[Succ(scan)] = Free
    /\ shifting' = FALSE
    /\ hole' = 0
    /\ scan' = 0
    /\ UNCHANGED <<items, max, count, collisions, frames, members>>

Next ==
    \/ \E k \in Keys : Add(k) \/ AddGrows(k) \/ Remove(k)
    \/ \E m \in Sizes : Resize(m)
    \/ RehashFree \/ RehashItem \/ RehashGrows \/ RehashFails \/ Rehashed
    \/ ShiftMove \/ ShiftSkip \/ ShiftEnds

Spec == Init /\ [][Next]_vars

-----------------------------------------------------------------------------
(* Properties *)

\* set_get finds exactly the keys that were added and not removed: no growth and
\* no shifting of a removal leaves an item where probing does not come by.
GetCorrect == Idle => \A k \in Keys : Found(k) <=> k \in members

\* count and collisions are what the table holds; as size_t they must not go
\* below zero when items move (set_remove keeps them incrementally).
CountsExact ==
    /\ count = Cardinality(Used(items))
    /\ collisions = Cardinality(Displaced(items, max))

\* A lookup of a key that is not there ends: a slot is free.
LookupEnds == Idle => \E i \in Slots : items[i] = Free

-----------------------------------------------------------------------------
(* The inductive invariant of GetCorrect *)

\* A table in which probing works: no slot is free between the bucket of an item
\* and the item, and no key is stored twice.
Probed(table, size) ==
    \A s \in 0..(size - 1) : table[s] # Free =>
        \A x \in 0..(size - 1) :
            Between(Hash[table[s]] % size, x, s) => table[x] # Free

Unique(table, size) ==
    \A r, s \in 0..(size - 1) : table[r] # Free /\ table[r] = table[s] => r = s

Stores(table, size, k) == \E s \in 0..(size - 1) : table[s] = k

\* The slots after the hole that the scan has passed.
Passed(x) == x # hole /\ (Between(hole, x, scan) \/ x = scan)

\* During a removal the hole may interrupt the way to an item, but only to one
\* that the scan has still to come to, and the scan has passed no free slot.
ProbedButHole ==
    /\ items[hole] = Free
    /\ \A x \in Slots : Passed(x) => items[x] # Free
    /\ \A s \in Slots : items[s] # Free =>
          \A x \in Slots :
              Between(Bucket(items[s]), x, s) =>
                  items[x] # Free \/ (x = hole /\ ~ Passed(s))

\* A key that a resize has still to put into the new table.
Left(frame, k) == \E i \in frame.next..(frame.size - 1) : frame.old[i] = k

InResize(k) ==
    \E n \in DOMAIN frames : Left(frames[n], k) \/ (n > 1 /\ frames[n].key = k)

Probing == IF shifting THEN frames = <<>> /\ ProbedButHole ELSE Probed(items, max)

Accounted == \A k \in Keys : k \in members <=> Stores(items, max, k) \/ InResize(k)

\* The items that a failing resize would put back.
OldIntact ==
    frames # <<>> =>
        /\ Probed(frames[1].old, frames[1].size)
        /\ Unique(frames[1].old, frames[1].size)
        /\ \A k \in Keys : k \in members <=> Stores(frames[1].old, frames[1].size, k)

IInv ==
    /\ TableOK
    /\ \A n \in DOMAIN frames : n > 1 => frames[n].key # Free
    /\ Probing
    /\ Unique(items, max)
    /\ Accounted
    /\ OldIntact

(* What LookupEnds needs besides *)

\* The items that a resize has passed.
Moved(frame) == Cardinality({i \in 0..(frame.next - 1) : frame.old[i] # Free})

\* The old table is at most half full, rounded up; where a key waits for its place
\* the new one is twice as large; and the new one holds no more than was passed.
FrameRoom(frame, filled, room) ==
    /\ frame.size >= 2 /\ 2 * Cardinality(Used(frame.old)) <= frame.size + 1
    /\ frame.key # Free => 2 * frame.size <= room
    /\ filled <= Moved(frame)

\* At most half of the slots, rounded up, are in use.  The table that a resize
\* fills is the current one, or the old one of the resize above it, which a key
\* waits for to be added.
RoomLeft ==
    /\ max >= 2 /\ 2 * count <= max + 1
    /\ \A n \in DOMAIN frames :
          IF n = Len(frames)
             THEN FrameRoom(frames[n], count, max)
             ELSE FrameRoom(frames[n], Cardinality(Used(frames[n + 1].old)) + 1,
                            frames[n + 1].size)
=============================================================================
