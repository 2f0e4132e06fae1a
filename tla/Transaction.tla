----------------------------- MODULE Transaction -----------------------------
(***************************************************************************)
(* The locking protocol of lib/transaction.c, one database (s_transaction) *)
(* used by several threads.  Every access to owner, owner_valid and level  *)
(* is inside a state_mutex section that calls nothing, so such a section   *)
(* is one step; what happens between two sections, and every wait on the   *)
(* rwlock, is a step of its own.                                           *)
(*                                                                         *)
(* The calls a thread makes follow the API: an operation is bracketed by   *)
(* transaction_acquire_writer and transaction_release_writer, operations   *)
(* nest, and user code (which begins, commits and rolls back) runs only    *)
(* between operations or inside a commit listener.                         *)
(***************************************************************************)
EXTENDS Naturals, Sequences

CONSTANTS Threads, NoThread,
          MaxLevel,    \* bound on nested transaction_begin calls
          MaxFrames,   \* bound on nested acquire_writer calls of one thread
          MaxSlot      \* bound on nested read sections of one thread

ASSUME TransactionAssumption ==
    /\ NoThread \notin Threads
    /\ MaxLevel \in Nat \ {0}
    /\ MaxFrames \in Nat \ {0}
    /\ MaxSlot \in Nat \ {0}

VARIABLES
    rwWriter,    \* pthread rwlock: the thread that holds it for writing
    rwReaders,   \* pthread rwlock: the threads that hold it for reading
    owner,       \* tx->owner, NoThread when owner_valid is 0
    level,       \* tx->level
    pc,          \* where a thread is in a call that waits or has several steps
    frames,      \* per thread, the has_lock results of its open acquire_writer calls
    slot,        \* per thread, the depth of its reader slot for this database
    committing   \* the threads inside the body of an outer commit (listeners run)

vars == <<rwWriter, rwReaders, owner, level, pc, frames, slot, committing>>

Locations ==
    { "ready",     \* in user code or in the body of an operation
      "begin",     \* transaction_begin waits in pthread_rwlock_wrlock
      "begun",     \* it has the lock and has not recorded itself as the owner
      "acquire",   \* transaction_acquire_writer waits in pthread_rwlock_wrlock
      "acquired",  \* it has the lock and has not recorded itself as the owner
      "read",      \* transaction_acquire_reader waits in pthread_rwlock_rdlock
      "unlock" }   \* owner_valid is cleared, the rwlock still held

TypeOK ==
    /\ rwWriter \in Threads \union {NoThread}
    /\ rwReaders \subseteq Threads
    /\ owner \in Threads \union {NoThread}
    /\ level \in Nat
    /\ pc \in [Threads -> Locations]
    /\ frames \in [Threads -> Seq({0, 1})]
    /\ slot \in [Threads -> Nat]
    /\ committing \subseteq Threads

\* transaction_init_checked: no owner, level 0; no thread has a slot for it yet.
Init ==
    /\ rwWriter = NoThread
    /\ rwReaders = {}
    /\ owner = NoThread
    /\ level = 0
    /\ pc = [t \in Threads |-> "ready"]
    /\ frames = [t \in Threads |-> <<>>]
    /\ slot = [t \in Threads |-> 0]
    /\ committing = {}

-----------------------------------------------------------------------------
Goto(t, where) == pc' = [pc EXCEPT ![t] = where]

\* A thread may ask to write unless it holds a read section: pthread_rwlock_wrlock
\* would then wait for its own read lock (the caller's contract).
MayWrite(t) == pc[t] = "ready" /\ slot[t] = 0

Push(t, hasLock) == frames' = [frames EXCEPT ![t] = Append(@, hasLock)]

Pop(t) == frames' = [frames EXCEPT ![t] = [i \in 1..(Len(@) - 1) |-> @[i]]]

\* transaction_begin by the owner: a nested level, no lock.
BeginNested(t) ==
    /\ MayWrite(t)
    /\ frames[t] = <<>>
    /\ owner = t
    /\ level < MaxLevel
    /\ level' = level + 1
    /\ UNCHANGED <<rwWriter, rwReaders, owner, pc, frames, slot, committing>>

\* transaction_begin by any other thread: it goes on to wait for the rwlock.
Begin(t) ==
    /\ MayWrite(t)
    /\ frames[t] = <<>>
    /\ owner # t
    /\ Goto(t, "begin")
    /\ UNCHANGED <<rwWriter, rwReaders, owner, level, frames, slot, committing>>

\* pthread_rwlock_wrlock granted.
WriteLock(t, from, to) ==
    /\ pc[t] = from
    /\ rwWriter = NoThread
    /\ rwReaders = {}
    /\ rwWriter' = t
    /\ Goto(t, to)
    /\ UNCHANGED <<rwReaders, owner, level, frames, slot, committing>>

BeginLock(t) == WriteLock(t, "begin", "begun")

BeginOwn(t) ==
    /\ pc[t] = "begun"
    /\ owner' = t
    /\ level' = 1
    /\ Goto(t, "ready")
    /\ UNCHANGED <<rwWriter, rwReaders, frames, slot, committing>>

\* transaction_acquire_writer by the owner: has_lock = 1, nothing to take.
AcquireNested(t) ==
    /\ pc[t] = "ready"
    /\ owner = t
    /\ Len(frames[t]) < MaxFrames
    /\ Push(t, 1)
    /\ UNCHANGED <<rwWriter, rwReaders, owner, level, pc, slot, committing>>

Acquire(t) ==
    /\ MayWrite(t)
    /\ owner # t
    /\ Len(frames[t]) < MaxFrames
    /\ Goto(t, "acquire")
    /\ UNCHANGED <<rwWriter, rwReaders, owner, level, frames, slot, committing>>

AcquireLock(t) == WriteLock(t, "acquire", "acquired")

AcquireOwn(t) ==
    /\ pc[t] = "acquired"
    /\ owner' = t
    /\ Goto(t, "ready")
    /\ Push(t, 0)
    /\ UNCHANGED <<rwWriter, rwReaders, level, slot, committing>>

\* Mutation: release_writer that ignores has_lock.
ReleaseNestedIgnoresHasLock(t) ==
    /\ pc[t] = "ready"
    /\ frames[t] # <<>>
    /\ Pop(t)
    /\ owner' = NoThread
    /\ Goto(t, "unlock")
    /\ UNCHANGED <<rwWriter, rwReaders, level, slot, committing>>

\* transaction_release_writer with has_lock = 1 does nothing ...
ReleaseNested(t) ==
    /\ pc[t] = "ready"
    /\ frames[t] # <<>>
    /\ frames[t][Len(frames[t])] = 1
    /\ Pop(t)
    /\ UNCHANGED <<rwWriter, rwReaders, owner, level, pc, slot, committing>>

\* ... and with has_lock = 0 clears the owner and goes on to unlock.
Release(t) ==
    /\ pc[t] = "ready"
    /\ frames[t] # <<>>
    /\ frames[t][Len(frames[t])] = 0
    /\ Pop(t)
    /\ owner' = NoThread
    /\ Goto(t, "unlock")
    /\ UNCHANGED <<rwWriter, rwReaders, level, slot, committing>>

-----------------------------------------------------------------------------
\* transaction_commit and transaction_rollback return -1 unless this holds.
InTransaction(t) ==
    /\ pc[t] = "ready"
    /\ frames[t] = <<>>
    /\ level > 0
    /\ owner = t

CommitNested(t) ==
    /\ InTransaction(t)
    /\ level > 1
    /\ level' = level - 1
    /\ UNCHANGED <<rwWriter, rwReaders, owner, pc, frames, slot, committing>>

\* The outer commit enters its body, where the listeners run.
Commit(t) ==
    /\ InTransaction(t)
    /\ level = 1
    /\ t \notin committing
    /\ committing' = committing \union {t}
    /\ UNCHANGED <<rwWriter, rwReaders, owner, level, pc, frames, slot>>

\* Mutation: rollback that leaves tx->level alone.
GiveUpKeepsLevel(t) ==
    /\ owner' = NoThread
    /\ Goto(t, "unlock")
    /\ UNCHANGED <<rwWriter, rwReaders, level, frames, slot>>

\* Whatever the level, the transaction is over and the owner cleared.
GiveUp(t) ==
    /\ level' = 0
    /\ owner' = NoThread
    /\ Goto(t, "unlock")
    /\ UNCHANGED <<rwWriter, rwReaders, frames, slot>>

\* The listeners are done: the commit, or the rollback a veto leads to, ends.
CommitEnd(t) ==
    /\ InTransaction(t)
    /\ level = 1
    /\ t \in committing
    /\ committing' = committing \ {t}
    /\ GiveUp(t)

\* A rollback ends the whole transaction, whatever its level.
Rollback(t) ==
    /\ InTransaction(t)
    /\ t \notin committing
    /\ GiveUp(t)
    /\ UNCHANGED committing

\* pthread_rwlock_unlock by whoever calls it.
Unlock(t) ==
    /\ pc[t] = "unlock"
    /\ rwWriter' = NoThread
    /\ Goto(t, "ready")
    /\ UNCHANGED <<rwReaders, owner, level, frames, slot, committing>>

-----------------------------------------------------------------------------
\* Mutation: acquire_reader without the per-thread slot: rdlock again.
ReadNestedLocks(t) ==
    /\ pc[t] = "ready"
    /\ owner # t
    /\ slot[t] \in 1..(MaxSlot - 1)
    /\ Goto(t, "read")
    /\ UNCHANGED <<rwWriter, rwReaders, owner, level, frames, slot, committing>>

\* transaction_acquire_reader by a thread that is reading already: deeper.
\* (The owner gets 0 and takes nothing.)
ReadNested(t) ==
    /\ pc[t] = "ready"
    /\ owner # t
    /\ slot[t] \in 1..(MaxSlot - 1)
    /\ slot' = [slot EXCEPT ![t] = @ + 1]
    /\ UNCHANGED <<rwWriter, rwReaders, owner, level, pc, frames, committing>>

Read(t) ==
    /\ pc[t] = "ready"
    /\ owner # t
    /\ slot[t] = 0
    /\ Goto(t, "read")
    /\ UNCHANGED <<rwWriter, rwReaders, owner, level, frames, slot, committing>>

\* pthread_rwlock_rdlock granted; the slot is thread-local.
ReadLock(t) ==
    /\ pc[t] = "read"
    /\ rwWriter = NoThread
    /\ rwReaders' = rwReaders \union {t}
    /\ slot' = [slot EXCEPT ![t] = 1]
    /\ Goto(t, "ready")
    /\ UNCHANGED <<rwWriter, owner, level, frames, committing>>

\* transaction_release_reader: the last level of nesting gives the lock back.
ReadEnd(t) ==
    /\ pc[t] = "ready"
    /\ slot[t] > 0
    /\ slot' = [slot EXCEPT ![t] = @ - 1]
    /\ rwReaders' = IF slot[t] = 1 THEN rwReaders \ {t} ELSE rwReaders
    /\ UNCHANGED <<rwWriter, owner, level, pc, frames, committing>>

Step(t) ==
    \/ BeginNested(t) \/ Begin(t) \/ BeginLock(t) \/ BeginOwn(t)
    \/ AcquireNested(t) \/ Acquire(t) \/ AcquireLock(t) \/ AcquireOwn(t)
    \/ ReleaseNested(t) \/ Release(t)
    \/ CommitNested(t) \/ Commit(t) \/ CommitEnd(t) \/ Rollback(t) \/ Unlock(t)
    \/ ReadNested(t) \/ Read(t) \/ ReadLock(t) \/ ReadEnd(t)

Next == \E t \in Threads : Step(t)

Spec == Init /\ [][Next]_vars
-----------------------------------------------------------------------------
(* Properties *)

Waiting(t) == pc[t] \in {"begin", "acquire", "read"}

\* The thread that tx->owner names, and every thread between taking the rwlock
\* and recording itself or between clearing the owner and unlocking, holds the
\* rwlock for writing, alone: no step of begin, commit, rollback, acquire_writer
\* or release_writer ever acts on a lock it does not have.
OwnerHoldsLock ==
    /\ owner # NoThread => rwWriter = owner
    /\ \A t \in Threads : pc[t] \in {"begun", "acquired", "unlock"}
                             => rwWriter = t /\ owner = NoThread
    /\ rwWriter # NoThread => rwReaders = {}

\* "Recursively calling pthread_rwlock_rdlock ... can deadlock when a writer is
\* waiting, so track read nesting per thread/DB" (transaction.c:284): whenever
\* somebody waits, the lock can be granted to a waiter, even by a rwlock that
\* prefers writers, or is held by a thread that does not itself wait for it.
LockCanBeGranted(t) ==
    /\ rwWriter = NoThread
    /\ IF pc[t] = "read"
          THEN \A u \in Threads : pc[u] \notin {"begin", "acquire"}
          ELSE rwReaders = {}

NoDeadlock ==
    (\E t \in Threads : Waiting(t)) =>
        \E t \in Threads : \/ Waiting(t) /\ LockCanBeGranted(t)
                           \/ ~ Waiting(t) /\ (rwWriter = t \/ t \in rwReaders)

\* From the outer begin to the end of the outer commit or of a rollback the
\* transaction keeps the lock: no operation made inside it, however its
\* acquire_writer and release_writer calls nest, gives it away.
TransactionKeepsLock ==
    [][ level > 0 /\ owner' # owner => level' = 0 /\ frames' = frames ]_vars

\* The protocol implements the abstract lock: the writer is the recorded owner.
Abstract == INSTANCE TxLock
            WITH holder <- owner, depth <- level, readers <- rwReaders

ImplementsTxLock == Abstract!LockSpec
(* The inductive invariant behind the properties (SynchronizationProofs.tla). *)

\* Who holds the rwlock is the owner, or on the way in or out.
WriterAccounted ==
    rwWriter # NoThread =>
        owner = rwWriter \/ pc[rwWriter] \in {"begun", "acquired", "unlock"}

\* A thread has a reader slot exactly while it holds the rwlock for reading.
SlotsMatchLock == \A t \in Threads : slot[t] > 0 <=> t \in rwReaders

\* A thread inside begin, acquire_writer, acquire_reader or an unlock has
\* nothing else open.
NothingOpenInCall ==
    \A t \in Threads : pc[t] # "ready" =>
        owner # t /\ frames[t] = <<>> /\ slot[t] = 0

\* The open operations of a thread are the owner's; the first of them took the
\* lock exactly when there is no transaction, the others never did.
FramesMatchLevel ==
    \A t \in Threads : frames[t] # <<>> =>
        /\ owner = t
        /\ \A i \in 1..Len(frames[t]) : frames[t][i] = 0 <=> (i = 1 /\ level = 0)

\* A level without an owner, or an owner with neither a level nor an open
\* operation, does not occur.
LevelMatchesOwner ==
    /\ level > 0 => owner # NoThread
    /\ owner # NoThread /\ level = 0 => frames[owner] # <<>>
    /\ \A t \in committing : owner = t /\ level > 0

IInv ==
    /\ TypeOK
    /\ OwnerHoldsLock
    /\ WriterAccounted
    /\ SlotsMatchLock
    /\ NothingOpenInCall
    /\ FramesMatchLevel
    /\ LevelMatchesOwner
=============================================================================
