-------------------------------- MODULE Urcu --------------------------------
(***************************************************************************)
(* include/urcu.h: epoch-based reclamation for one writer and many         *)
(* readers.                                                                *)
(*                                                                         *)
(* A reader announces in its slot the epoch it entered in, and then reads  *)
(* the shared pointer.  The writer replaces the block the pointer leads    *)
(* to, retires the old one with the epoch of the moment, and frees it once *)
(* no slot announces an epoch that old.  The writer reads the slots one    *)
(* after the other, while readers come and go.                             *)
(*                                                                         *)
(* A release store need not be visible when the next load is done: each    *)
(* reader has a buffer of stores, which reach memory in order and later.   *)
(* Taking the registry mutex empties it.  The pointer and the blocks       *)
(* belong to the caller; the radix trees of deps/rax would use them so.    *)
(***************************************************************************)
EXTENDS Integers, Sequences, FiniteSets

CONSTANTS
    Readers,    \* reader threads
    MaxThreads, \* URCU_MAX_THREADS
    MaxBlocks,  \* bound: how many blocks the pointer leads to, one after the other
    MaxRegistrations, \* bound on the registrations of a thread
    MaxDepth,   \* bound on the nesting of read-side sections
    StoreBuffer, \* how many stores of a thread may be on the way to memory
    None        \* no slot

ASSUME UrcuAssumption ==
    /\ MaxThreads \in Nat \ {0}
    /\ MaxDepth \in Nat \ {0}
    /\ StoreBuffer \in Nat /\ StoreBuffer >= 2
    /\ MaxBlocks \in Nat \ {0}
    /\ MaxRegistrations \in Nat \ {0}
    /\ None \notin 1..MaxThreads

Slots == 1..MaxThreads

VARIABLES
    global_epoch,
    readers,    \* the slots: [epoch, active]
    idx,        \* of each reader: its registration's slot, or None
    registered, \* of each reader: how often it has registered
    depth,      \* of each reader: the nesting of its sections
    buffer,     \* of each reader: stores on the way to memory
    rpc,        \* of each reader: "out", or inside urcu_read_lock_checked, or "in"
    loaded,     \* of each reader: the epoch it loaded
    held,       \* of each reader: the block it reads
    seen,       \* history: its announcement was in memory when it read the pointer
    shared,     \* the pointer
    retired,    \* retired_queue: [ptr, epoch], in no order since all of it is gone through
    freed,      \* the blocks given back
    wpc,        \* the writer
    old,        \* the block it has replaced
    scan,       \* its loop over the slots: [slot, bound, active]
    target      \* the epoch urcu_synchronize waits for

rvars == <<readers, idx, registered, depth, buffer, rpc, loaded, held, seen>>
wvars == <<global_epoch, shared, retired, freed, wpc, old, scan, target>>
urcuVars == <<rvars, wvars>>

\* A loop over the slots that has not begun.
NoScan == [slot |-> 1, bound |-> 0, active |-> FALSE]

\* urcu_init_checked
UrcuInit ==
    /\ global_epoch = 1
    /\ readers = [s \in Slots |-> [epoch |-> 0, active |-> FALSE]]
    /\ idx = [r \in Readers |-> None]
    /\ registered = [r \in Readers |-> 0]
    /\ depth = [r \in Readers |-> 0]
    /\ buffer = [r \in Readers |-> <<>>]
    /\ rpc = [r \in Readers |-> "out"]
    /\ loaded = [r \in Readers |-> 0]
    /\ held = [r \in Readers |-> 0]
    /\ seen = [r \in Readers |-> FALSE]
    /\ shared = 1
    /\ retired = {}
    /\ freed = {}
    /\ wpc = "idle"
    /\ old = 0
    /\ scan = NoScan
    /\ target = 0

-----------------------------------------------------------------------------
(* Readers *)

FreeSlots == {s \in Slots : ~readers[s].active /\ readers[s].epoch = 0}

\* urcu_register_thread: the first free slot.  Without one, or without memory,
\* it returns -1 and leaves all as it was.
urcu_register_thread(r) ==
    /\ idx[r] = None
    /\ registered[r] < MaxRegistrations
    /\ \E s \in FreeSlots :
          /\ \A m \in FreeSlots : s <= m
          /\ readers' = [readers EXCEPT ![s] = [epoch |-> 1, active |-> FALSE]]
          /\ idx' = [idx EXCEPT ![r] = s]
    /\ registered' = [registered EXCEPT ![r] = @ + 1]
    /\ UNCHANGED <<depth, buffer, rpc, loaded, held, seen, wvars>>

\* urcu_unregister_thread, and the destructor at the end of a thread.
urcu_unregister_thread(r) ==
    /\ idx[r] # None
    /\ rpc[r] = "out"
    /\ buffer[r] = <<>>
    /\ readers' = [readers EXCEPT ![idx[r]] = [epoch |-> 0, active |-> FALSE]]
    /\ idx' = [idx EXCEPT ![r] = None]
    /\ UNCHANGED <<registered, depth, buffer, rpc, loaded, held, seen, wvars>>

\* urcu_read_lock_checked: the outermost section loads the epoch.
LockOuter(r) ==
    /\ idx[r] # None
    /\ rpc[r] = "out"
    /\ depth' = [depth EXCEPT ![r] = 1]
    /\ loaded' = [loaded EXCEPT ![r] = global_epoch]
    /\ rpc' = [rpc EXCEPT ![r] = "announce"]
    /\ UNCHANGED <<readers, idx, registered, buffer, held, seen, wvars>>

\* Two release stores: the epoch, then the flag.
Announce(r) ==
    /\ rpc[r] = "announce"
    /\ Len(buffer[r]) + 2 <= StoreBuffer
    /\ buffer' = [buffer EXCEPT ![r] = @ \o << <<"epoch", loaded[r]>>, <<"active", TRUE>> >>]
    /\ rpc' = [rpc EXCEPT ![r] = "in"]
    /\ loaded' = [loaded EXCEPT ![r] = 0]
    /\ UNCHANGED <<readers, idx, registered, depth, held, seen, wvars>>

LockNested(r) ==
    /\ rpc[r] = "in"
    /\ depth[r] < MaxDepth
    /\ depth' = [depth EXCEPT ![r] = @ + 1]
    /\ UNCHANGED <<readers, idx, registered, buffer, rpc, loaded, held, seen, wvars>>

\* The caller follows the pointer.
FollowPointer(r) ==
    /\ rpc[r] = "in"
    /\ held' = [held EXCEPT ![r] = shared]
    /\ seen' = [seen EXCEPT ![r] = buffer[r] = <<>>]
    /\ UNCHANGED <<readers, idx, registered, depth, buffer, rpc, loaded, wvars>>

\* urcu_read_unlock; what the section read is not used after it.
urcu_read_unlock(r) ==
    /\ rpc[r] = "in"
    /\ Len(buffer[r]) < StoreBuffer
    /\ depth' = [depth EXCEPT ![r] = @ - 1]
    /\ IF depth[r] = 1
       THEN /\ buffer' = [buffer EXCEPT ![r] = Append(@, <<"active", FALSE>>)]
            /\ rpc' = [rpc EXCEPT ![r] = "out"]
            /\ held' = [held EXCEPT ![r] = 0]
            /\ seen' = [seen EXCEPT ![r] = FALSE]
       ELSE UNCHANGED <<buffer, rpc, held, seen>>
    /\ UNCHANGED <<readers, idx, registered, loaded, wvars>>

\* The oldest store of a reader reaches memory.
Drain(r) ==
    /\ buffer[r] # <<>>
    /\ readers' = LET store == Head(buffer[r])
                  IN  IF store[1] = "epoch" THEN [readers EXCEPT ![idx[r]].epoch = store[2]]
                      ELSE [readers EXCEPT ![idx[r]].active = store[2]]
    /\ buffer' = [buffer EXCEPT ![r] = Tail(@)]
    /\ UNCHANGED <<idx, registered, depth, rpc, loaded, held, seen, wvars>>

-----------------------------------------------------------------------------
(* The writer *)

\* The caller replaces the block; the blocks are numbered as they are published.
Publish ==
    /\ wpc = "idle"
    /\ shared < MaxBlocks
    /\ shared' = shared + 1
    /\ old' = shared
    /\ wpc' = "retire"
    /\ UNCHANGED <<global_epoch, retired, freed, scan, target, rvars>>

\* urcu_retire_checked
Retire ==
    /\ wpc = "retire"
    /\ retired' = retired \union {[ptr |-> old, epoch |-> global_epoch]}
    /\ global_epoch' = global_epoch + 1
    /\ old' = 0
    /\ wpc' = "idle"
    /\ UNCHANGED <<shared, freed, scan, target, rvars>>

\* urcu_retire when the queue cannot grow: wait for the readers, as
\* urcu_synchronize does.
RetireSynchronously ==
    /\ wpc = "retire"
    /\ global_epoch' = global_epoch + 1
    /\ target' = global_epoch + 1
    /\ scan' = NoScan
    /\ wpc' = "wait"
    /\ UNCHANGED <<shared, retired, freed, old, rvars>>

\* urcu_gc
Collect ==
    /\ wpc = "idle"
    /\ retired # {}
    /\ scan' = [slot |-> 1, bound |-> global_epoch, active |-> FALSE]
    /\ wpc' = "gc"
    /\ UNCHANGED <<global_epoch, shared, retired, freed, old, target, rvars>>

\* Both loops look at a slot's epoch and flag, and if it is taken and active, at
\* its epoch once more.  The first two loads are one step: an active slot is
\* taken, so what they find together is what the later of them finds.
LoadActive ==
    /\ wpc \in {"gc", "wait"}
    /\ scan.slot \in Slots
    /\ ~scan.active
    /\ LET s == readers[scan.slot]
       IN  scan' = IF s.epoch # 0 /\ s.active THEN [scan EXCEPT !.active = TRUE]
                   ELSE [scan EXCEPT !.slot = @ + 1]
    /\ UNCHANGED <<global_epoch, shared, retired, freed, wpc, old, target, rvars>>

GcLoadEpoch ==
    /\ wpc = "gc"
    /\ scan.active
    /\ scan' = LET e == readers[scan.slot].epoch
               IN  [slot |-> scan.slot + 1, bound |-> IF e < scan.bound THEN e ELSE scan.bound, active |-> FALSE]
    /\ UNCHANGED <<global_epoch, shared, retired, freed, wpc, old, target, rvars>>

\* Mutation: a block retired in the epoch of the oldest reader is freed too.
ReclaimableEqual(item, oldest) == item.epoch <= oldest

Reclaimable(item, oldest) == item.epoch < oldest

\* The blocks retired before the oldest announced epoch are freed, and the queue
\* is closed up.
Reclaim ==
    /\ wpc = "gc"
    /\ scan.slot = MaxThreads + 1
    /\ freed' = freed \union {item.ptr : item \in {i \in retired : Reclaimable(i, scan.bound)}}
    /\ retired' = {item \in retired : ~Reclaimable(item, scan.bound)}
    /\ scan' = NoScan
    /\ wpc' = "idle"
    /\ UNCHANGED <<global_epoch, shared, old, target, rvars>>

\* Mutation: a reader of the epoch that begins with the call is waited for.
PendingEqual(epoch) == epoch <= target

Pending(epoch) == epoch < target

\* urcu_synchronize begins its loop again, after a nap, while an old reader is
\* in its section.
SyncLoadEpoch ==
    /\ wpc = "wait"
    /\ scan.active
    /\ scan' = [slot |-> IF Pending(readers[scan.slot].epoch) THEN 1 ELSE scan.slot + 1,
                bound |-> scan.bound, active |-> FALSE]
    /\ UNCHANGED <<global_epoch, shared, retired, freed, wpc, old, target, rvars>>

\* Every slot was quiet: urcu_retire frees the block itself.
Synchronized ==
    /\ wpc = "wait"
    /\ scan.slot = MaxThreads + 1
    /\ freed' = freed \union {old}
    /\ old' = 0
    /\ scan' = NoScan
    /\ target' = 0
    /\ wpc' = "idle"
    /\ UNCHANGED <<global_epoch, shared, retired, rvars>>

\* urcu_destroy, when no reader is registered any more: the queue is emptied.
urcu_destroy ==
    /\ wpc = "idle"
    /\ \A r \in Readers : idx[r] = None
    /\ freed' = freed \union {item.ptr : item \in retired}
    /\ retired' = {}
    /\ wpc' = "destroyed"
    /\ UNCHANGED <<global_epoch, shared, old, scan, target, rvars>>

-----------------------------------------------------------------------------

Scan == LoadActive \/ GcLoadEpoch \/ Reclaim \/ SyncLoadEpoch \/ Synchronized

UrcuNext ==
    \/ \E r \in Readers :
        \/ wpc # "destroyed" /\ urcu_register_thread(r)
        \/ urcu_unregister_thread(r)
        \/ LockOuter(r) \/ Announce(r) \/ LockNested(r) \/ FollowPointer(r) \/ urcu_read_unlock(r) \/ Drain(r)
    \/ Publish \/ Retire \/ RetireSynchronously \/ Collect \/ Scan \/ urcu_destroy

UrcuSpec == UrcuInit /\ [][UrcuNext]_urcuVars

\* The writer's loop and the readers run on, stores reach memory, and a reader
\* does not stay in its section for ever.
FairSpec ==
    /\ UrcuSpec
    /\ WF_urcuVars(Scan)
    /\ \A r \in Readers :
        /\ WF_urcuVars(Announce(r) \/ Drain(r))
        /\ WF_urcuVars(urcu_read_unlock(r))
        /\ SF_urcuVars(depth[r] = 1 /\ urcu_read_unlock(r))

-----------------------------------------------------------------------------
(* Properties *)

\* A block is freed only when no reader reads it, as long as the reader's
\* announcement reached memory before it followed the pointer: neither a slot
\* scanned before its reader entered, nor an epoch loaded long ago, nor a reader
\* between its two stores lets the writer free too much.
NoUseAfterFree ==
    \A r \in Readers : seen[r] => held[r] \notin freed

\* "Defer reclamation of a memory pointer until all current readers exit": the
\* same of every reader.
DeferredToAllReaders ==
    \A r \in Readers : held[r] \notin freed

\* A writer that waits for the readers gets through although readers keep
\* entering, since they enter with the new epoch.
SynchronizeReturns == wpc = "wait" ~> wpc = "idle"

-----------------------------------------------------------------------------
(* The inductive invariant that SynchronizationProofs.tla proves *)

Stores == ({"epoch"} \X Nat) \union ({"active"} \X BOOLEAN)

SlotType ==
    /\ readers \in [Slots -> [epoch : Nat, active : BOOLEAN]]
    /\ idx \in [Readers -> Slots \union {None}]

ReaderType ==
    /\ registered \in [Readers -> Nat]
    /\ depth \in [Readers -> Nat]
    /\ rpc \in [Readers -> {"out", "announce", "in"}]
    /\ loaded \in [Readers -> Nat]
    /\ held \in [Readers -> Nat]
    /\ seen \in [Readers -> BOOLEAN]

BufferType == buffer \in [Readers -> Seq(Stores)]

WriterType ==
    /\ global_epoch \in Nat \ {0}
    /\ shared \in Nat
    /\ retired \subseteq [ptr : Nat, epoch : Nat]
    /\ freed \subseteq Nat
    /\ wpc \in {"idle", "retire", "gc", "wait", "destroyed"}
    /\ old \in Nat
    /\ target \in Nat

ScanType == scan \in [slot : 1..(MaxThreads + 1), bound : Nat, active : BOOLEAN]

UrcuTypeOK == SlotType /\ ReaderType /\ BufferType /\ WriterType /\ ScanType

\* A reader inside a section, or with stores under way, has a slot.
SlotsTaken ==
    \A r \in Readers :
        /\ rpc[r] # "out" \/ buffer[r] # <<>> => idx[r] # None
        /\ rpc[r] # "out" => depth[r] > 0

\* No other reader has it.
SlotsOwned == \A r, q \in Readers : idx[r] = idx[q] /\ idx[r] # None => r = q

\* What a reader has announced or will announce is an epoch that has begun.
EpochsBegun ==
    \A r \in Readers :
        /\ idx[r] # None => readers[idx[r]].epoch \in 1..global_epoch
        /\ rpc[r] = "announce" => loaded[r] \in 1..global_epoch
        /\ \A i \in DOMAIN buffer[r] :
              buffer[r][i][1] = "epoch" => buffer[r][i][2] \in 1..global_epoch

SlotsFit == SlotsTaken /\ SlotsOwned /\ EpochsBegun

\* Once its stores have reached memory, a reader in its section is announced.
AnnouncementsFit ==
    \A r \in Readers : rpc[r] = "in" =>
        IF buffer[r] = <<>> THEN readers[idx[r]].active
        ELSE buffer[r][Len(buffer[r])] = <<"active", TRUE>>

\* The pointer leads to the newest block, which has not been replaced yet.
BlocksFit ==
    /\ \A b \in freed : b < shared
    /\ \A item \in retired : item.ptr < shared
    /\ old < shared

\* The writer looks again at a slot only in its loop over them.
ScanFits == scan.active => wpc \in {"gc", "wait"} /\ scan.slot \in Slots

\* What the slot of a reader holds back: the block it reads is retired, if at all,
\* in the epoch that it announces or later, and a scan that has passed its slot
\* has taken its epoch into account.
HeldBack(r) ==
    /\ rpc[r] = "in" /\ buffer[r] = <<>>
    /\ held[r] \notin freed /\ held[r] <= shared
    /\ \A item \in retired : item.ptr = held[r] =>
          /\ readers[idx[r]].epoch <= item.epoch
          /\ wpc = "gc" /\ idx[r] < scan.slot => scan.bound <= readers[idx[r]].epoch
    /\ wpc = "wait" /\ old = held[r] =>
          readers[idx[r]].epoch < target /\ scan.slot <= idx[r]

ReadersHoldBack == \A r \in Readers : seen[r] => HeldBack(r)

UrcuInv == UrcuTypeOK /\ SlotsFit /\ AnnouncementsFit /\ BlocksFit /\ ScanFits /\ ReadersHoldBack
=============================================================================
