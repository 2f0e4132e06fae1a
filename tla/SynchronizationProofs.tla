----------------------- MODULE SynchronizationProofs -----------------------
(***************************************************************************)
(* The two protocols by which threads share the store.                     *)
(*                                                                         *)
(* For any set of threads and any bounds: the lock protocol of             *)
(* lib/transaction.c keeps IInv, and therefore its owner holds the rwlock, *)
(* it never deadlocks, and it implements the abstract lock of TxLock.tla.  *)
(*                                                                         *)
(* For any number of readers, slots, blocks and stores under way: UrcuInv  *)
(* is an invariant of the epoch-based reclamation of include/urcu.h, so    *)
(* that no block is freed under a reader whose announcement was in memory  *)
(* when it read.                                                           *)
(***************************************************************************)
EXTENDS Transaction, Urcu, SequenceTheorems, TLAPS

-----------------------------------------------------------------------------
(* lib/transaction.c *)

\* What Pop leaves of a sequence of has_lock results.
LEMMA PopFacts ==
    ASSUME NEW s \in Seq({0, 1}), s # <<>>,
           NEW r, r = [i \in 1..(Len(s) - 1) |-> s[i]]
    PROVE  /\ r \in Seq({0, 1})
           /\ Len(r) = Len(s) - 1
           /\ \A i \in 1..Len(r) : r[i] = s[i]
           /\ r = <<>> <=> Len(s) = 1
<1>1. Len(s) \in Nat /\ Len(s) > 0
  OBVIOUS
<1>2. \A i \in 1..(Len(s) - 1) : s[i] \in {0, 1}
  BY <1>1
<1>3. r \in Seq({0, 1}) /\ Len(r) = Len(s) - 1
  BY <1>1, <1>2
<1>4. \A i \in 1..Len(r) : r[i] = s[i]
  BY <1>1, <1>3
<1>5. r = <<>> <=> Len(r) = 0
  BY <1>3, EmptySeq
<1>6. QED
  BY <1>1, <1>3, <1>4, <1>5

\* What Push does to it.
LEMMA AppendFacts ==
    ASSUME NEW s \in Seq({0, 1}), NEW e \in {0, 1}
    PROVE  /\ Append(s, e) \in Seq({0, 1})
           /\ Len(Append(s, e)) = Len(s) + 1
           /\ \A i \in 1..Len(s) : Append(s, e)[i] = s[i]
           /\ Append(s, e)[Len(s) + 1] = e
           /\ Append(s, e) # <<>>
BY AppendProperties

LEMMA InitIInv == Init => IInv
BY TransactionAssumption
   DEF Init, IInv, TypeOK, Locations, OwnerHoldsLock, WriterAccounted,
       SlotsMatchLock, NothingOpenInCall, FramesMatchLevel, LevelMatchesOwner

LEMMA StepIInv ==
    ASSUME IInv, NEW t \in Threads, Step(t)
    PROVE  IInv'
<1> USE TransactionAssumption
<1> USE DEF IInv, TypeOK, Locations, OwnerHoldsLock, WriterAccounted,
            SlotsMatchLock, NothingOpenInCall, FramesMatchLevel,
            LevelMatchesOwner
<1>1. CASE BeginNested(t)
  BY <1>1 DEF BeginNested, MayWrite
<1>2. CASE Begin(t)
  BY <1>2 DEF Begin, MayWrite, Goto
<1>3. CASE BeginLock(t)
  BY <1>3 DEF BeginLock, WriteLock, Goto
<1>4. CASE BeginOwn(t)
  BY <1>4 DEF BeginOwn, Goto
<1>5. CASE AcquireNested(t)
  <2>1. frames[t] \in Seq({0, 1}) /\ frames' = [frames EXCEPT ![t] = Append(frames[t], 1)]
    BY <1>5 DEF AcquireNested, Push
  <2>2. /\ frames'[t] \in Seq({0, 1})
        /\ Len(frames'[t]) = Len(frames[t]) + 1
        /\ \A i \in 1..Len(frames[t]) : frames'[t][i] = frames[t][i]
        /\ frames'[t][Len(frames[t]) + 1] = 1
        /\ frames'[t] # <<>>
    <3>1. frames'[t] = Append(frames[t], 1)
      BY <2>1
    <3> QED
      <4>1. PICK s \in Seq({0, 1}) : s = frames[t]
        BY <2>1
      <4>2. frames'[t] = Append(s, 1)
        BY <3>1, <4>1
      <4> HIDE DEF IInv, TypeOK, Locations, OwnerHoldsLock, WriterAccounted,
                   SlotsMatchLock, NothingOpenInCall, FramesMatchLevel, LevelMatchesOwner
      <4> QED
        BY <4>1, <4>2, AppendFacts
  <2>3. \A u \in Threads : u # t => frames'[u] = frames[u]
    BY <2>1
  <2>4. FramesMatchLevel'
    <3> SUFFICES ASSUME NEW u \in Threads, frames'[u] # <<>>,
                        NEW i \in 1..Len(frames'[u])
                 PROVE  owner' = u /\ (frames'[u][i] = 0 <=> (i = 1 /\ level' = 0))
      OBVIOUS
    <3>1. CASE u # t
      BY <3>1, <2>3, <1>5 DEF AcquireNested
    <3>2. CASE u = t /\ i <= Len(frames[t])
      BY <3>2, <2>1, <2>2, <1>5 DEF AcquireNested
    <3>3. CASE u = t /\ i = Len(frames[t]) + 1
      BY <3>3, <2>1, <2>2, <1>5 DEF AcquireNested
    <3> QED
      BY <3>1, <3>2, <3>3, <2>1, <2>2
  <2> QED
    BY <1>5, <2>1, <2>2, <2>3, <2>4 DEF AcquireNested
<1>6. CASE Acquire(t)
  BY <1>6 DEF Acquire, MayWrite, Goto
<1>7. CASE AcquireLock(t)
  BY <1>7 DEF AcquireLock, WriteLock, Goto
<1>8. CASE AcquireOwn(t)
  BY <1>8 DEF AcquireOwn, Goto, Push
<1>9. CASE ReleaseNested(t)
  <2>1. frames[t] \in Seq({0, 1}) /\ frames[t] # <<>>
    BY <1>9 DEF ReleaseNested
  <2>2. /\ frames'[t] \in Seq({0, 1})
        /\ Len(frames'[t]) = Len(frames[t]) - 1
        /\ \A i \in 1..Len(frames'[t]) : frames'[t][i] = frames[t][i]
        /\ frames'[t] = <<>> <=> Len(frames[t]) = 1
    <3>1. frames'[t] = [i \in 1..(Len(frames[t]) - 1) |-> frames[t][i]]
      BY <1>9, <2>1 DEF ReleaseNested, Pop
    <3> QED
      BY ONLY <2>1, <3>1, PopFacts
  <2>3. \A u \in Threads : u # t => frames'[u] = frames[u]
    BY <1>9 DEF ReleaseNested, Pop
  <2>4. level = 0 => Len(frames[t]) # 1
    BY <1>9, <2>1 DEF ReleaseNested
  <2>5. frames' \in [Threads -> Seq({0, 1})]
    BY <1>9, <2>2, <2>3 DEF ReleaseNested, Pop
  <2>6. FramesMatchLevel'
    <3> SUFFICES ASSUME NEW u \in Threads, frames'[u] # <<>>,
                        NEW i \in 1..Len(frames'[u])
                 PROVE  owner' = u /\ (frames'[u][i] = 0 <=> (i = 1 /\ level' = 0))
      OBVIOUS
    <3>1. CASE u # t
      BY <3>1, <2>3, <1>9 DEF ReleaseNested
    <3>2. CASE u = t
      <4>1. i \in 1..Len(frames[t]) /\ frames'[u][i] = frames[t][i]
        BY <3>2, <2>1, <2>2
      <4> QED
        BY <4>1, <3>2, <2>1, <1>9 DEF ReleaseNested
    <3> QED
      BY <3>1, <3>2
  <2>7. LevelMatchesOwner'
    BY <1>9, <2>1, <2>2, <2>3, <2>4 DEF ReleaseNested
  <2> QED
    BY <1>9, <2>1, <2>2, <2>3, <2>5, <2>6, <2>7 DEF ReleaseNested
<1>10. CASE Release(t)
  <2>1. frames[t] \in Seq({0, 1}) /\ frames[t] # <<>>
    BY <1>10 DEF Release
  <2>2. Len(frames[t]) = 1 /\ level = 0
    <3>1. Len(frames[t]) \in 1..Len(frames[t]) /\ frames[t][Len(frames[t])] = 0
      BY <1>10, <2>1, EmptySeq DEF Release
    <3> QED
      BY <2>1, <3>1
  <2>3. frames' = [frames EXCEPT ![t] = <<>>]
    <3>1. PICK r : r = [i \in 1..(Len(frames[t]) - 1) |-> frames[t][i]]
      OBVIOUS
    <3>2. r = <<>>
      BY <2>1, <2>2, <3>1, PopFacts
    <3> QED
      BY <1>10, <3>1, <3>2 DEF Release, Pop
  <2> QED
    BY <1>10, <2>2, <2>3 DEF Release, Goto
<1>11. CASE CommitNested(t)
  BY <1>11 DEF CommitNested, InTransaction
<1>12. CASE Commit(t)
  BY <1>12 DEF Commit, InTransaction
<1>13. CASE CommitEnd(t)
  BY <1>13 DEF CommitEnd, InTransaction, GiveUp, Goto
<1>14. CASE Rollback(t)
  BY <1>14 DEF Rollback, InTransaction, GiveUp, Goto
<1>15. CASE Unlock(t)
  BY <1>15 DEF Unlock, Goto
<1>16. CASE ReadNested(t)
  BY <1>16 DEF ReadNested
<1>17. CASE Read(t)
  BY <1>17 DEF Read, Goto
<1>18. CASE ReadLock(t)
  BY <1>18 DEF ReadLock, Goto
<1>19. CASE ReadEnd(t)
  BY <1>19 DEF ReadEnd
<1> QED
  BY <1>1, <1>2, <1>3, <1>4, <1>5, <1>6, <1>7, <1>8, <1>9, <1>10, <1>11,
     <1>12, <1>13, <1>14, <1>15, <1>16, <1>17, <1>18, <1>19 DEF Step

LEMMA NextIInv == IInv /\ [Next]_vars => IInv'
<1>1. IInv /\ Next => IInv'
  BY StepIInv DEF Next
<1>2. IInv /\ UNCHANGED vars => IInv'
  BY DEF vars, IInv, TypeOK, OwnerHoldsLock, WriterAccounted, SlotsMatchLock,
         NothingOpenInCall, FramesMatchLevel, LevelMatchesOwner
<1> QED
  BY <1>1, <1>2

LEMMA InvariantHolds == Spec => []IInv
BY InitIInv, NextIInv, PTL DEF Spec

\* Every variable of the lock protocol keeps its type.
THEOREM TypeCorrect == Spec => []TypeOK
<1>1. IInv => TypeOK
  BY DEF IInv
<1> QED
  BY <1>1, InvariantHolds, PTL

\* Whoever tx->owner names holds the rwlock for writing, alone, and nobody
\* unlocks a lock it does not hold, for any number of threads and any nesting of
\* begins, operations and read sections.
THEOREM OwnerSafe == Spec => []OwnerHoldsLock
<1>1. IInv => OwnerHoldsLock
  BY DEF IInv
<1> QED
  BY <1>1, InvariantHolds, PTL

LEMMA IInvNoDeadlock == IInv => NoDeadlock
<1> SUFFICES ASSUME IInv, NEW w \in Threads, Waiting(w)
             PROVE  \E t \in Threads :
                        \/ Waiting(t) /\ LockCanBeGranted(t)
                        \/ ~ Waiting(t) /\ (rwWriter = t \/ t \in rwReaders)
  BY DEF NoDeadlock
<1>1. CASE rwWriter # NoThread
  <2>1. rwWriter \in Threads /\ ~ Waiting(rwWriter)
    BY <1>1 DEF IInv, TypeOK, WriterAccounted, NothingOpenInCall, Waiting
  <2> QED
    BY <2>1
<1>2. CASE rwWriter = NoThread /\ rwReaders # {}
  <2>1. PICK r \in rwReaders : r \in Threads
    BY <1>2 DEF IInv, TypeOK
  <2>2. ~ Waiting(r)
    BY <2>1 DEF IInv, TypeOK, SlotsMatchLock, NothingOpenInCall, Waiting
  <2> QED
    BY <2>1, <2>2
<1>3. CASE rwWriter = NoThread /\ rwReaders = {}
  <2>1. CASE \E u \in Threads : pc[u] \in {"begin", "acquire"}
    <3>1. PICK u \in Threads : pc[u] \in {"begin", "acquire"}
      BY <2>1
    <3>2. Waiting(u) /\ LockCanBeGranted(u)
      BY <3>1, <1>3 DEF Waiting, LockCanBeGranted
    <3> QED
      BY <3>2
  <2>2. CASE \A u \in Threads : pc[u] \notin {"begin", "acquire"}
    <3>1. LockCanBeGranted(w)
      BY <2>2, <1>3 DEF LockCanBeGranted
    <3> QED
      BY <3>1
  <2> QED
    BY <2>1, <2>2
<1> QED
  BY <1>1, <1>2, <1>3

\* Whenever a thread waits for the rwlock, somebody can be given it or holds it
\* without waiting: nested read sections never wait behind a waiting writer.
THEOREM DeadlockFree == Spec => []NoDeadlock
BY IInvNoDeadlock, InvariantHolds, PTL

\* A transaction keeps the lock until its outer commit or a rollback.
THEOREM KeepsLock == Spec => TransactionKeepsLock
<1>1. ASSUME IInv, NEW t \in Threads, Step(t), level > 0, owner' # owner
      PROVE  level' = 0 /\ frames' = frames
  <2> USE <1>1, TransactionAssumption
  <2>1. owner # NoThread /\ rwWriter = owner
    BY DEF IInv, OwnerHoldsLock, LevelMatchesOwner
  <2>2. ~ BeginOwn(t) /\ ~ AcquireOwn(t)
    BY <2>1 DEF BeginOwn, AcquireOwn, IInv, OwnerHoldsLock, NothingOpenInCall
  <2>3. ~ Release(t)
    <3> SUFFICES ASSUME Release(t) PROVE FALSE
      OBVIOUS
    <3>1. frames[t] \in Seq({0, 1}) /\ frames[t] # <<>>
      BY DEF Release, IInv, TypeOK
    <3>2. Len(frames[t]) \in 1..Len(frames[t]) /\ frames[t][Len(frames[t])] = 0
      BY <3>1, EmptySeq DEF Release
    <3> QED
      BY <3>1, <3>2 DEF IInv, FramesMatchLevel
  <2>4. CASE CommitEnd(t)
    BY <2>4 DEF CommitEnd, GiveUp
  <2>5. CASE Rollback(t)
    BY <2>5 DEF Rollback, GiveUp
  <2> QED
    BY <2>2, <2>3, <2>4, <2>5
       DEF Step, BeginNested, Begin, BeginLock, WriteLock, AcquireNested,
           Acquire, AcquireLock, ReleaseNested, CommitNested, Commit, Unlock,
           ReadNested, Read, ReadLock, ReadEnd
<1>2. IInv /\ [Next]_vars
         => [level > 0 /\ owner' # owner => level' = 0 /\ frames' = frames]_vars
  BY <1>1 DEF Next, vars
<1> QED
  BY <1>2, InvariantHolds, PTL DEF Spec, TransactionKeepsLock

\* Every step of the protocol is a step of the abstract lock, or none.
LEMMA StepRefines ==
    ASSUME IInv, NEW t \in Threads, Step(t)
    PROVE  Abstract!LockNext \/ UNCHANGED <<owner, level, rwReaders>>
<1> USE TransactionAssumption
<1>1. CASE BeginNested(t)
  <2>1. Abstract!Nest(t)
    BY <1>1 DEF BeginNested, MayWrite, IInv, LevelMatchesOwner, TypeOK, Abstract!Nest
  <2> QED
    BY <2>1 DEF Abstract!LockNext
<1>2. CASE BeginOwn(t)
  <2>1. Abstract!TakeTx(t)
    BY <1>2 DEF BeginOwn, IInv, OwnerHoldsLock, Abstract!TakeTx, Abstract!Free
  <2> QED
    BY <2>1 DEF Abstract!LockNext
<1>3. CASE AcquireOwn(t)
  <2>1. Abstract!TakeOp(t)
    BY <1>3 DEF AcquireOwn, IInv, OwnerHoldsLock, Abstract!TakeOp, Abstract!Free
  <2> QED
    BY <2>1 DEF Abstract!LockNext
<1>4. CASE Release(t)
  <2>1. frames[t] \in Seq({0, 1}) /\ frames[t] # <<>> /\ frames[t][Len(frames[t])] = 0
    BY <1>4 DEF Release, IInv, TypeOK
  <2>2. Len(frames[t]) \in 1..Len(frames[t])
    BY <2>1, EmptySeq
  <2>3. owner = t /\ level = 0
    BY <2>1, <2>2 DEF IInv, FramesMatchLevel
  <2>4. Abstract!Drop(t)
    BY <1>4, <2>3 DEF Release, Abstract!Drop
  <2> QED
    BY <2>4 DEF Abstract!LockNext
<1>5. CASE CommitNested(t)
  <2>1. Abstract!Unnest(t)
    BY <1>5 DEF CommitNested, InTransaction, Abstract!Unnest
  <2> QED
    BY <2>1 DEF Abstract!LockNext
<1>6. CASE CommitEnd(t) \/ Rollback(t)
  <2>1. Abstract!Drop(t)
    BY <1>6 DEF CommitEnd, Rollback, InTransaction, GiveUp, Abstract!Drop
  <2> QED
    BY <2>1 DEF Abstract!LockNext
<1>7. CASE ReadLock(t)
  <2>1. owner = NoThread /\ t \notin rwReaders
    BY <1>7 DEF ReadLock, IInv, OwnerHoldsLock, SlotsMatchLock, NothingOpenInCall
  <2>2. Abstract!StartReading(t)
    BY <1>7, <2>1 DEF ReadLock, Abstract!StartReading
  <2> QED
    BY <2>2 DEF Abstract!LockNext
<1>8. CASE ReadEnd(t)
  <2>1. CASE slot[t] = 1
    <3>1. t \in rwReaders
      BY <2>1 DEF IInv, SlotsMatchLock
    <3>2. Abstract!StopReading(t)
      BY <1>8, <2>1, <3>1 DEF ReadEnd, Abstract!StopReading
    <3> QED
      BY <3>2 DEF Abstract!LockNext
  <2>2. CASE slot[t] # 1
    BY <1>8, <2>2 DEF ReadEnd
  <2> QED
    BY <2>1, <2>2
<1>9. CASE \/ Begin(t) \/ BeginLock(t) \/ AcquireNested(t) \/ Acquire(t) \/ AcquireLock(t)
           \/ ReleaseNested(t) \/ Commit(t) \/ Unlock(t) \/ ReadNested(t) \/ Read(t)
  BY <1>9 DEF Begin, BeginLock, WriteLock, AcquireNested, Acquire, AcquireLock,
              ReleaseNested, Commit, Unlock, ReadNested, Read
<1> QED
  BY <1>1, <1>2, <1>3, <1>4, <1>5, <1>6, <1>7, <1>8, <1>9 DEF Step

\* The rwlock, the owner field, the levels and the reader slots of transaction.c
\* implement the abstract lock that FactsTx.tla is built on.
THEOREM Implements == Spec => ImplementsTxLock
<1>1. Init => Abstract!LockInit
  BY DEF Init, Abstract!LockInit
<1>2. IInv /\ [Next]_vars => [Abstract!LockNext]_<<owner, level, rwReaders>>
  <2> SUFFICES ASSUME IInv, [Next]_vars
               PROVE  Abstract!LockNext \/ UNCHANGED <<owner, level, rwReaders>>
    OBVIOUS
  <2>1. CASE Next
    BY <2>1, StepRefines DEF Next
  <2>2. CASE UNCHANGED vars
    BY <2>2 DEF vars
  <2> QED
    BY <2>1, <2>2
<1> QED
  BY <1>1, <1>2, InvariantHolds, PTL DEF Spec, ImplementsTxLock, Abstract!LockSpec, Abstract!lockVars

-----------------------------------------------------------------------------
(* include/urcu.h *)

USE UrcuAssumption

LEMMA SlotTypeStep ==
    ASSUME SlotType, BufferType, SlotsFit, UrcuNext
    PROVE  SlotType'
<1> USE DEF SlotType, BufferType, SlotsFit, SlotsTaken, Stores
<1>1. ASSUME NEW r \in Readers, urcu_register_thread(r) PROVE SlotType'
  <2>1. PICK s \in FreeSlots : /\ readers' = [readers EXCEPT ![s] = [epoch |-> 1, active |-> FALSE]]
                               /\ idx' = [idx EXCEPT ![r] = s]
    BY <1>1 DEF urcu_register_thread
  <2>2. s \in Slots
    BY DEF FreeSlots
  <2> QED
    BY <2>1, <2>2
<1>2. ASSUME NEW r \in Readers, urcu_unregister_thread(r) PROVE SlotType'
  BY <1>2 DEF urcu_unregister_thread, wvars
<1>3. ASSUME NEW r \in Readers, Drain(r) PROVE SlotType'
  BY <1>3 DEF Drain, Slots, wvars
<1>4. ASSUME NEW r \in Readers, LockOuter(r) \/ Announce(r) \/ LockNested(r) \/ FollowPointer(r)
        \/ urcu_read_unlock(r)
     PROVE SlotType'
  BY <1>4 DEF LockOuter, Announce, LockNested, FollowPointer, urcu_read_unlock, wvars
<1>5. CASE Publish \/ Retire \/ RetireSynchronously \/ Collect \/ LoadActive \/ GcLoadEpoch
        \/ Reclaim \/ SyncLoadEpoch \/ Synchronized \/ urcu_destroy
  BY <1>5 DEF Publish, Retire, RetireSynchronously, Collect, LoadActive, GcLoadEpoch,
     Reclaim, SyncLoadEpoch, Synchronized, urcu_destroy, rvars
<1> QED
  BY <1>1, <1>2, <1>3, <1>4, <1>5 DEF UrcuNext, Scan

LEMMA ReaderTypeStep ==
    ASSUME ReaderType, WriterType, SlotsFit, UrcuNext
    PROVE  ReaderType'
<1> USE DEF ReaderType, WriterType, SlotsFit, SlotsTaken
<1>1. ASSUME NEW r \in Readers, urcu_register_thread(r) PROVE ReaderType'
  BY <1>1 DEF urcu_register_thread, wvars
<1>2. ASSUME NEW r \in Readers, urcu_unregister_thread(r) PROVE ReaderType'
  BY <1>2 DEF urcu_unregister_thread, wvars
<1>3. ASSUME NEW r \in Readers, LockOuter(r) PROVE ReaderType'
  BY <1>3 DEF LockOuter, wvars
<1>4. ASSUME NEW r \in Readers, Announce(r) PROVE ReaderType'
  BY <1>4 DEF Announce, wvars
<1>5. ASSUME NEW r \in Readers, LockNested(r) PROVE ReaderType'
  BY <1>5 DEF LockNested, wvars
<1>6. ASSUME NEW r \in Readers, FollowPointer(r) PROVE ReaderType'
  BY <1>6 DEF FollowPointer, wvars
<1>7. ASSUME NEW r \in Readers, urcu_read_unlock(r) PROVE ReaderType'
  <2>1. depth[r] \in Nat /\ depth[r] > 0
    BY <1>7 DEF urcu_read_unlock
  <2>2. depth' \in [Readers -> Nat]
    BY <1>7, <2>1 DEF urcu_read_unlock
  <2>3. rpc' \in [Readers -> {"out", "announce", "in"}]
    BY <1>7 DEF urcu_read_unlock
  <2>4. held' \in [Readers -> Nat]
    <3>0. [held EXCEPT ![r] = 0] \in [Readers -> Nat]
      BY DEF ReaderType
    <3>1. CASE depth[r] = 1
      <4>1. held' = [held EXCEPT ![r] = 0]
        BY <1>7, <3>1 DEF urcu_read_unlock
      <4> QED
        BY <3>0, <4>1
    <3>2. CASE depth[r] # 1
      BY <1>7, <3>2 DEF urcu_read_unlock
    <3> QED
      BY <3>1, <3>2
  <2>5. seen' \in [Readers -> BOOLEAN]
    <3>0. [seen EXCEPT ![r] = FALSE] \in [Readers -> BOOLEAN]
      BY DEF ReaderType
    <3>1. seen' = [seen EXCEPT ![r] = FALSE] \/ seen' = seen
      BY <1>7 DEF urcu_read_unlock
    <3> QED
      BY <3>0, <3>1
  <2> QED
    BY <1>7, <2>2, <2>3, <2>4, <2>5 DEF urcu_read_unlock
<1>8. ASSUME NEW r \in Readers, Drain(r) PROVE ReaderType'
  BY <1>8 DEF Drain, wvars
<1>9. CASE Publish \/ Retire \/ RetireSynchronously \/ Collect \/ LoadActive \/ GcLoadEpoch
        \/ Reclaim \/ SyncLoadEpoch \/ Synchronized \/ urcu_destroy
  BY <1>9 DEF Publish, Retire, RetireSynchronously, Collect, LoadActive, GcLoadEpoch,
     Reclaim, SyncLoadEpoch, Synchronized, urcu_destroy, rvars
<1> QED
  BY <1>1, <1>2, <1>3, <1>4, <1>5, <1>6, <1>7, <1>8, <1>9 DEF UrcuNext, Scan


LEMMA StoreFacts ==
    /\ \A e \in Nat : <<"epoch", e>> \in Stores
    /\ \A b \in BOOLEAN : <<"active", b>> \in Stores
BY DEF Stores

LEMMA BufferTypeStep ==
    ASSUME ReaderType, BufferType, UrcuNext
    PROVE  BufferType'
<1> USE DEF BufferType
<1>1. ASSUME NEW r \in Readers, Announce(r) PROVE BufferType'
  <2>1. <<"epoch", loaded[r]>> \in Stores /\ <<"active", TRUE>> \in Stores
    BY StoreFacts DEF ReaderType
  <2>2. buffer[r] \o << <<"epoch", loaded[r]>>, <<"active", TRUE>> >> \in Seq(Stores)
    BY <2>1
  <2> QED
    BY <1>1, <2>2 DEF Announce
<1>2. ASSUME NEW r \in Readers, urcu_read_unlock(r) PROVE BufferType'
  <2>0. <<"active", FALSE>> \in Stores /\ buffer[r] \in Seq(Stores)
    BY StoreFacts
  <2>1. Append(buffer[r], <<"active", FALSE>>) \in Seq(Stores)
    BY <2>0
  <2> QED
    BY <1>2, <2>1 DEF urcu_read_unlock
<1>3. ASSUME NEW r \in Readers, Drain(r) PROVE BufferType'
  BY <1>3 DEF Drain, wvars
<1>4. ASSUME NEW r \in Readers, urcu_register_thread(r) \/ urcu_unregister_thread(r)
        \/ LockOuter(r) \/ LockNested(r) \/ FollowPointer(r)
     PROVE BufferType'
  BY <1>4 DEF urcu_register_thread, urcu_unregister_thread, LockOuter, LockNested, FollowPointer,
     wvars
<1>5. CASE Publish \/ Retire \/ RetireSynchronously \/ Collect \/ LoadActive \/ GcLoadEpoch
        \/ Reclaim \/ SyncLoadEpoch \/ Synchronized \/ urcu_destroy
  BY <1>5 DEF Publish, Retire, RetireSynchronously, Collect, LoadActive, GcLoadEpoch,
     Reclaim, SyncLoadEpoch, Synchronized, urcu_destroy, rvars
<1> QED
  BY <1>1, <1>2, <1>3, <1>4, <1>5 DEF UrcuNext, Scan

LEMMA WriterTypeStep ==
    ASSUME WriterType, UrcuNext
    PROVE  WriterType'
<1> USE DEF WriterType
<1>1. CASE Publish
  BY <1>1 DEF Publish, rvars
<1>2. CASE Retire
  BY <1>2 DEF Retire, rvars
<1>3. CASE RetireSynchronously
  BY <1>3 DEF RetireSynchronously, NoScan, rvars
<1>4. CASE Collect
  BY <1>4 DEF Collect, rvars
<1>5. CASE LoadActive
  BY <1>5 DEF LoadActive, rvars
<1>6. CASE GcLoadEpoch
  BY <1>6 DEF GcLoadEpoch, rvars
<1>7. CASE Reclaim
  BY <1>7 DEF Reclaim, NoScan, rvars
<1>8. CASE SyncLoadEpoch
  BY <1>8 DEF SyncLoadEpoch, rvars
<1>9. CASE Synchronized
  BY <1>9 DEF Synchronized, NoScan, rvars
<1>10. CASE urcu_destroy
  BY <1>10 DEF urcu_destroy, rvars
<1>11. ASSUME NEW r \in Readers, urcu_register_thread(r) \/ urcu_unregister_thread(r)
        \/ LockOuter(r) \/ Announce(r) \/ LockNested(r) \/ FollowPointer(r) \/ urcu_read_unlock(r)
        \/ Drain(r)
     PROVE WriterType'
  BY <1>11 DEF urcu_register_thread, urcu_unregister_thread, LockOuter, Announce,
     LockNested, FollowPointer, urcu_read_unlock, Drain, wvars
<1> QED
  BY <1>1, <1>2, <1>3, <1>4, <1>5, <1>6, <1>7, <1>8, <1>9, <1>10, <1>11 DEF UrcuNext, Scan

LEMMA ScanTypeStep ==
    ASSUME WriterType, SlotType, ScanType, ScanFits, UrcuNext
    PROVE  ScanType'
<1> USE DEF WriterType, SlotType, ScanType, NoScan
<1>1. CASE Publish
  BY <1>1 DEF Publish, rvars
<1>2. CASE Retire
  BY <1>2 DEF Retire, rvars
<1>3. CASE RetireSynchronously
  BY <1>3 DEF RetireSynchronously, NoScan, rvars
<1>4. CASE Collect
  BY <1>4 DEF Collect, rvars
<1>5. CASE LoadActive
  <2>1. CASE readers[scan.slot].epoch # 0 /\ readers[scan.slot].active
    BY <1>5, <2>1 DEF LoadActive, Slots
  <2>2. CASE ~ (readers[scan.slot].epoch # 0 /\ readers[scan.slot].active)
    <3>1. scan' = [scan EXCEPT !.slot = @ + 1] /\ scan.slot \in 1..MaxThreads /\ UNCHANGED rvars
      BY <1>5, <2>2 DEF LoadActive, Slots
    <3> QED
      BY <3>1
  <2> QED
    BY <2>1, <2>2
<1>6. CASE GcLoadEpoch
  <2>1. scan.slot \in 1..MaxThreads /\ readers[scan.slot].epoch \in Nat
    BY <1>6 DEF GcLoadEpoch, ScanFits, Slots
  <2> QED
    BY <1>6, <2>1 DEF GcLoadEpoch
<1>7. CASE Reclaim
  BY <1>7 DEF Reclaim, NoScan, rvars
<1>8. CASE SyncLoadEpoch
  <2>1. scan.slot \in 1..MaxThreads
    BY <1>8 DEF SyncLoadEpoch, ScanFits, Slots
  <2>2. CASE Pending(readers[scan.slot].epoch)
    BY <1>8, <2>1, <2>2 DEF SyncLoadEpoch
  <2>3. CASE ~ Pending(readers[scan.slot].epoch)
    BY <1>8, <2>1, <2>3 DEF SyncLoadEpoch
  <2> QED
    BY <2>2, <2>3
<1>9. CASE Synchronized
  BY <1>9 DEF Synchronized, NoScan, rvars
<1>10. CASE urcu_destroy
  BY <1>10 DEF urcu_destroy, rvars
<1>11. ASSUME NEW r \in Readers, urcu_register_thread(r) \/ urcu_unregister_thread(r)
        \/ LockOuter(r) \/ Announce(r) \/ LockNested(r) \/ FollowPointer(r) \/ urcu_read_unlock(r)
        \/ Drain(r)
     PROVE ScanType'
  BY <1>11 DEF urcu_register_thread, urcu_unregister_thread, LockOuter, Announce,
     LockNested, FollowPointer, urcu_read_unlock, Drain, wvars
<1> QED
  BY <1>1, <1>2, <1>3, <1>4, <1>5, <1>6, <1>7, <1>8, <1>9, <1>10, <1>11 DEF UrcuNext, Scan


\* What a reader's buffer holds after stores are added or one has reached memory.
LEMMA BufferFacts ==
    ASSUME NEW s \in Seq(Stores), NEW x \in Stores, NEW y \in Stores
    PROVE  /\ s \o <<x, y>> # <<>> /\ (s \o <<x, y>>)[Len(s \o <<x, y>>)] = y
           /\ \A i \in DOMAIN (s \o <<x, y>>) :
                 (i \in DOMAIN s /\ (s \o <<x, y>>)[i] = s[i]) \/ (s \o <<x, y>>)[i] = x
                         \/ (s \o <<x, y>>)[i] = y
           /\ \A i \in DOMAIN Append(s, x) :
                 (i \in DOMAIN s /\ Append(s, x)[i] = s[i]) \/ Append(s, x)[i] = x
<1>1. Len(s) \in Nat /\ DOMAIN s = 1..Len(s) /\ s \o <<x, y>> \in Seq(Stores)
        /\ Append(s, x) \in Seq(Stores)
  OBVIOUS
<1>2. Len(s \o <<x, y>>) = Len(s) + 2 /\ Len(Append(s, x)) = Len(s) + 1
  OBVIOUS
<1>3. (s \o <<x, y>>)[Len(s) + 2] = y /\ (s \o <<x, y>>)[Len(s) + 1] = x
  OBVIOUS
<1>4. \A i \in 1..Len(s) : (s \o <<x, y>>)[i] = s[i]
  OBVIOUS
<1>5. \A i \in 1..Len(s) : Append(s, x)[i] = s[i]
  OBVIOUS
<1>6. Append(s, x)[Len(s) + 1] = x
  OBVIOUS
<1>7. DOMAIN (s \o <<x, y>>) = 1..(Len(s) + 2) /\ DOMAIN Append(s, x) = 1..(Len(s) + 1)
  BY <1>1, <1>2
<1>8. s \o <<x, y>> # <<>>
  BY <1>1, <1>2
<1> QED
  BY <1>1, <1>2, <1>3, <1>4, <1>5, <1>6, <1>7, <1>8

LEMMA TailFacts ==
    ASSUME NEW s \in Seq(Stores), s # <<>>
    PROVE  /\ Head(s) \in Stores /\ Len(s) > 0 /\ 1 \in DOMAIN s /\ Head(s) = s[1]
           /\ \A i \in DOMAIN Tail(s) : i + 1 \in DOMAIN s /\ Tail(s)[i] = s[i + 1]
           /\ Tail(s) # <<>> => Tail(s)[Len(Tail(s))] = s[Len(s)]
           /\ Tail(s) = <<>> => s[Len(s)] = Head(s)
<1>1. Len(s) \in Nat \ {0} /\ Len(Tail(s)) = Len(s) - 1 /\ DOMAIN s = 1..Len(s)
        /\ Tail(s) \in Seq(Stores)
  OBVIOUS
<1>2. DOMAIN Tail(s) = 1..(Len(s) - 1)
  BY <1>1
<1>3. \A i \in 1..(Len(s) - 1) : Tail(s)[i] = s[i + 1]
  OBVIOUS
<1>4. Head(s) = s[1] /\ s[1] \in Stores
  BY <1>1
<1>5. Tail(s) = <<>> => Len(s) = 1
  <2>0. Len(<<>>) = 0
    OBVIOUS
  <2>1. Tail(s) = <<>> => Len(Tail(s)) = 0
    BY <2>0, Zenon
  <2> QED
    BY <1>1, <2>1
<1>6. Tail(s) # <<>> => Len(s) > 1
  BY <1>1
<1> QED
  BY <1>1, <1>2, <1>3, <1>4, <1>5, <1>6

LEMMA SlotsTakenStep ==
    ASSUME SlotType, ReaderType, BufferType, SlotsTaken, UrcuNext
    PROVE  SlotsTaken'
<1> USE DEF SlotsTaken, SlotType, ReaderType, BufferType
<1>1. ASSUME NEW r \in Readers, urcu_register_thread(r) PROVE SlotsTaken'
  <2>1. PICK s \in FreeSlots : idx' = [idx EXCEPT ![r] = s]
    BY <1>1 DEF urcu_register_thread
  <2>2. s # None
    BY DEF FreeSlots, Slots
  <2> QED
    BY <1>1, <2>1, <2>2 DEF urcu_register_thread
<1>2. ASSUME NEW r \in Readers, urcu_unregister_thread(r) PROVE SlotsTaken'
  BY <1>2 DEF urcu_unregister_thread, wvars
<1>3. ASSUME NEW r \in Readers, LockOuter(r) PROVE SlotsTaken'
  BY <1>3 DEF LockOuter, wvars
<1>4. ASSUME NEW r \in Readers, Announce(r) PROVE SlotsTaken'
  <2>1. idx[r] # None /\ depth[r] > 0
    BY <1>4 DEF Announce
  <2> QED
    BY <1>4, <2>1 DEF Announce
<1>5. ASSUME NEW r \in Readers, LockNested(r) PROVE SlotsTaken'
  BY <1>5 DEF LockNested, wvars
<1>6. ASSUME NEW r \in Readers, FollowPointer(r) PROVE SlotsTaken'
  BY <1>6 DEF FollowPointer, wvars
<1>7. ASSUME NEW r \in Readers, urcu_read_unlock(r) PROVE SlotsTaken'
  <2>1. idx[r] # None /\ depth[r] \in Nat /\ depth[r] > 0
    BY <1>7 DEF urcu_read_unlock
  <2>2. \A q \in Readers \ {r} : rpc'[q] = rpc[q] /\ buffer'[q] = buffer[q]
          /\ depth'[q] = depth[q]
    BY <1>7 DEF urcu_read_unlock
  <2>3. rpc'[r] # "out" => depth'[r] > 0
    <3>1. CASE depth[r] = 1
      BY <1>7, <3>1 DEF urcu_read_unlock
    <3>2. CASE depth[r] # 1
      BY <1>7, <2>1, <3>2 DEF urcu_read_unlock
    <3> QED
      BY <3>1, <3>2
  <2> QED
    BY <1>7, <2>1, <2>2, <2>3 DEF urcu_read_unlock
<1>8. ASSUME NEW r \in Readers, Drain(r) PROVE SlotsTaken'
  <2>1. idx[r] # None
    BY <1>8 DEF Drain
  <2> QED
    BY <1>8, <2>1 DEF Drain
<1>9. CASE Publish \/ Retire \/ RetireSynchronously \/ Collect \/ LoadActive \/ GcLoadEpoch
        \/ Reclaim \/ SyncLoadEpoch \/ Synchronized \/ urcu_destroy
  BY <1>9 DEF Publish, Retire, RetireSynchronously, Collect, LoadActive, GcLoadEpoch,
     Reclaim, SyncLoadEpoch, Synchronized, urcu_destroy, rvars
<1> QED
  BY <1>1, <1>2, <1>3, <1>4, <1>5, <1>6, <1>7, <1>8, <1>9 DEF UrcuNext, Scan

LEMMA SlotsOwnedStep ==
    ASSUME SlotType, SlotsOwned, EpochsBegun, UrcuNext
    PROVE  SlotsOwned'
<1> USE DEF SlotsOwned, SlotType
<1>1. ASSUME NEW r \in Readers, urcu_register_thread(r) PROVE SlotsOwned'
  <2>1. PICK s \in FreeSlots : idx' = [idx EXCEPT ![r] = s]
    BY <1>1 DEF urcu_register_thread
  <2>2. readers[s].epoch = 0
    BY DEF FreeSlots
  <2>3. \A q \in Readers : idx[q] # s
    <3> SUFFICES ASSUME NEW q \in Readers, idx[q] = s PROVE FALSE
      OBVIOUS
    <3>1. idx[q] # None
      BY DEF FreeSlots, Slots
    <3>2. readers[idx[q]].epoch \in 1..global_epoch
      BY <3>1 DEF EpochsBegun
    <3> QED
      BY <2>2, <3>2
  <2> QED
    BY <2>1, <2>3
<1>2. ASSUME NEW r \in Readers, urcu_unregister_thread(r) PROVE SlotsOwned'
  BY <1>2 DEF urcu_unregister_thread, wvars
<1>3. ASSUME NEW r \in Readers, LockOuter(r) \/ Announce(r) \/ LockNested(r) \/ FollowPointer(r)
        \/ urcu_read_unlock(r) \/ Drain(r)
     PROVE SlotsOwned'
  BY <1>3 DEF LockOuter, Announce, LockNested, FollowPointer, urcu_read_unlock, Drain, wvars
<1>4. CASE Publish \/ Retire \/ RetireSynchronously \/ Collect \/ LoadActive \/ GcLoadEpoch
        \/ Reclaim \/ SyncLoadEpoch \/ Synchronized \/ urcu_destroy
  BY <1>4 DEF Publish, Retire, RetireSynchronously, Collect, LoadActive, GcLoadEpoch,
     Reclaim, SyncLoadEpoch, Synchronized, urcu_destroy, rvars
<1> QED
  BY <1>1, <1>2, <1>3, <1>4 DEF UrcuNext, Scan


\* Only a reader itself writes to its slot.
LEMMA SlotKept ==
    ASSUME SlotType, BufferType, SlotsFit, NEW r \in Readers, NEW q \in Readers, idx[q] # None,
           urcu_register_thread(r) \/ (q # r /\ (urcu_unregister_thread(r) \/ Drain(r)))
    PROVE  readers'[idx[q]] = readers[idx[q]] /\ idx'[q] = idx[q]
<1> USE DEF SlotType
<1>0. idx[q] \in Slots
  OBVIOUS
<1>1. CASE urcu_register_thread(r)
  <2>1. PICK s \in FreeSlots : /\ readers' = [readers EXCEPT ![s] = [epoch |-> 1, active |-> FALSE]]
                               /\ idx' = [idx EXCEPT ![r] = s]
    BY <1>1 DEF urcu_register_thread
  <2>2. readers[s].epoch = 0 /\ s \in Slots
    BY DEF FreeSlots
  <2>3. readers[idx[q]].epoch \in 1..global_epoch
    BY DEF SlotsFit, EpochsBegun
  <2>4. idx[q] # s
    BY <2>2, <2>3
  <2>5. q # r
    BY <1>1 DEF urcu_register_thread
  <2> QED
    BY <1>0, <2>1, <2>2, <2>4, <2>5
<1>2. CASE q # r /\ urcu_unregister_thread(r)
  <2>1. idx[r] # None /\ idx[q] # idx[r]
    BY <1>2 DEF urcu_unregister_thread, SlotsFit, SlotsOwned
  <2> QED
    BY <1>0, <1>2, <2>1 DEF urcu_unregister_thread
<1>3. CASE q # r /\ Drain(r)
  <2>1. idx[r] # None /\ idx[q] # idx[r]
    BY <1>3 DEF Drain, SlotsFit, SlotsTaken, SlotsOwned
  <2> QED
    BY <1>0, <1>3, <2>1 DEF Drain
<1> QED
  BY <1>1, <1>2, <1>3

\* What the oldest store does to the slot.
LEMMA DrainFacts ==
    ASSUME SlotType, BufferType, SlotsFit, NEW r \in Readers, Drain(r)
    PROVE  /\ Head(buffer[r])[1] = "epoch" =>
                 /\ readers'[idx[r]].epoch = Head(buffer[r])[2]
                 /\ readers'[idx[r]].active = readers[idx[r]].active
           /\ Head(buffer[r])[1] # "epoch" =>
                 /\ readers'[idx[r]].epoch = readers[idx[r]].epoch
                 /\ readers'[idx[r]].active = Head(buffer[r])[2]
<1>1. idx[r] \in Slots
  BY DEF Drain, SlotsFit, SlotsTaken, SlotType
<1>2. CASE Head(buffer[r])[1] = "epoch"
  <2>1. readers' = [readers EXCEPT ![idx[r]].epoch = Head(buffer[r])[2]]
    BY <1>2 DEF Drain
  <2> QED
    BY <1>1, <1>2, <2>1 DEF SlotType
<1>3. CASE Head(buffer[r])[1] # "epoch"
  <2>1. readers' = [readers EXCEPT ![idx[r]].active = Head(buffer[r])[2]]
    BY <1>3 DEF Drain
  <2> QED
    BY <1>1, <1>3, <2>1 DEF SlotType
<1> QED
  BY <1>2, <1>3

\* The epochs on the way to memory.
LEMMA EpochsUnderWay ==
    ASSUME SlotType, ReaderType, BufferType, WriterType, SlotsFit, NEW r \in Readers, Drain(r)
            \/ Announce(r) \/ urcu_read_unlock(r),
           NEW q \in Readers, NEW i \in DOMAIN buffer'[q], buffer'[q][i][1] = "epoch"
    PROVE  buffer'[q][i][2] \in 1..global_epoch
<1>0. \A j \in DOMAIN buffer[q] : buffer[q][j][1] = "epoch"
        => buffer[q][j][2] \in 1..global_epoch
  BY DEF SlotsFit, EpochsBegun
<1>1. CASE buffer'[q] = buffer[q]
  BY <1>0, <1>1
<1>2. CASE buffer'[q] # buffer[q]
  <2>1. q = r /\ buffer[r] \in Seq(Stores)
    BY <1>2 DEF Drain, Announce, urcu_read_unlock, BufferType
  <2>2. CASE Drain(r)
    <3>1. buffer'[r] = Tail(buffer[r]) /\ buffer[r] # <<>>
      BY <2>2 DEF Drain, BufferType
    <3>2. i + 1 \in DOMAIN buffer[r] /\ Tail(buffer[r])[i] = buffer[r][i + 1]
      BY <2>1, <3>1, TailFacts
    <3> QED
      BY <1>0, <2>1, <3>1, <3>2
  <2>3. CASE Announce(r)
    <3> DEFINE x == <<"epoch", loaded[r]>>
               y == <<"active", TRUE>>
    <3>1. buffer'[r] = buffer[r] \o <<x, y>> /\ loaded[r] \in 1..global_epoch
      BY <2>3 DEF Announce, BufferType, SlotsFit, EpochsBegun
    <3>2. x \in Stores /\ y \in Stores /\ x[2] = loaded[r] /\ y[1] = "active"
      BY <3>1, StoreFacts DEF ReaderType
    <3> HIDE DEF x, y
    <3>3. \A k \in DOMAIN (buffer[r] \o <<x, y>>) :
             (k \in DOMAIN buffer[r] /\ (buffer[r] \o <<x, y>>)[k] = buffer[r][k])
                \/ (buffer[r] \o <<x, y>>)[k] = x \/ (buffer[r] \o <<x, y>>)[k] = y
      BY <2>1, <3>2, BufferFacts
    <3>4. (i \in DOMAIN buffer[r] /\ buffer'[r][i] = buffer[r][i]) \/ buffer'[r][i] = x
            \/ buffer'[r][i] = y
      BY <2>1, <3>1, <3>3
    <3> QED
      BY <1>0, <2>1, <3>1, <3>2, <3>4
  <2>4. CASE urcu_read_unlock(r)
    <3> DEFINE x == <<"active", FALSE>>
    <3>1. buffer'[r] = Append(buffer[r], x)
      BY <1>2, <2>1, <2>4 DEF urcu_read_unlock, BufferType
    <3>2. x \in Stores /\ x[1] = "active"
      BY StoreFacts
    <3> HIDE DEF x
    <3>3. \A k \in DOMAIN Append(buffer[r], x) :
             (k \in DOMAIN buffer[r] /\ Append(buffer[r], x)[k] = buffer[r][k])
                     \/ Append(buffer[r], x)[k] = x
      BY <2>1, <3>2, BufferFacts
    <3>4. (i \in DOMAIN buffer[r] /\ buffer'[r][i] = buffer[r][i]) \/ buffer'[r][i] = x
      BY <2>1, <3>1, <3>3
    <3> QED
      BY <1>0, <2>1, <3>2, <3>4
  <2> QED
    BY <2>2, <2>3, <2>4
<1> QED
  BY <1>1, <1>2

\* The slot of a reader announces an epoch that has begun.
LEMMA AnnouncedBegun ==
    ASSUME SlotType, BufferType, WriterType, SlotsFit, NEW r \in Readers,
           urcu_register_thread(r) \/ urcu_unregister_thread(r) \/ Drain(r),
           NEW q \in Readers, idx'[q] # None
    PROVE  readers'[idx'[q]].epoch \in 1..global_epoch
<1>1. CASE idx[q] # None /\ (q # r \/ urcu_register_thread(r))
  <2>1. readers'[idx[q]] = readers[idx[q]] /\ idx'[q] = idx[q]
    BY <1>1, SlotKept
  <2> QED
    BY <1>1, <2>1 DEF SlotsFit, EpochsBegun
<1>2. CASE q = r /\ Drain(r)
  <2>1. buffer[r] # <<>> /\ buffer[r] \in Seq(Stores) /\ idx[r] # None /\ idx' = idx
    BY <1>2 DEF Drain, BufferType, SlotsFit, SlotsTaken
  <2>2. 1 \in DOMAIN buffer[r] /\ Head(buffer[r]) = buffer[r][1]
    BY <2>1, TailFacts
  <2>3. Head(buffer[r])[1] = "epoch" => Head(buffer[r])[2] \in 1..global_epoch
    BY <2>2 DEF SlotsFit, EpochsBegun
  <2>4. readers[idx[r]].epoch \in 1..global_epoch
    BY <2>1 DEF SlotsFit, EpochsBegun
  <2> QED
    BY <1>2, <2>1, <2>3, <2>4, DrainFacts
<1>3. CASE idx[q] = None
  <2>1. q = r /\ urcu_register_thread(r)
    BY <1>3 DEF urcu_register_thread, urcu_unregister_thread, Drain, SlotType
  <2>2. PICK s \in FreeSlots : /\ readers' = [readers EXCEPT ![s] = [epoch |-> 1, active |-> FALSE]]
                               /\ idx' = [idx EXCEPT ![r] = s]
    BY <2>1 DEF urcu_register_thread
  <2>3. s \in Slots /\ idx'[r] = s
    BY <2>2 DEF FreeSlots, SlotType
  <2>4. readers'[s].epoch = 1
    BY <2>2, <2>3 DEF SlotType
  <2> QED
    BY <2>1, <2>3, <2>4 DEF WriterType
<1>4. CASE q = r /\ urcu_unregister_thread(r)
  BY <1>4 DEF urcu_unregister_thread, SlotType
<1> QED
  BY <1>1, <1>2, <1>3, <1>4

LEMMA EpochsBegunStep ==
    ASSUME SlotType, ReaderType, BufferType, WriterType, SlotsFit, UrcuNext
    PROVE  EpochsBegun'
<1> USE DEF SlotsFit, EpochsBegun
<1>1. ASSUME NEW r \in Readers, urcu_register_thread(r) PROVE EpochsBegun'
  <2>1. UNCHANGED <<rpc, loaded, buffer, global_epoch>>
    BY <1>1 DEF urcu_register_thread, wvars
  <2>2. \A q \in Readers : idx'[q] # None => readers'[idx'[q]].epoch \in 1..global_epoch
    BY <1>1, AnnouncedBegun
  <2> QED
    BY <2>1, <2>2 DEF EpochsBegun, SlotsFit
<1>2. ASSUME NEW r \in Readers, urcu_unregister_thread(r) PROVE EpochsBegun'
  <2>1. UNCHANGED <<rpc, loaded, buffer, global_epoch>>
    BY <1>2 DEF urcu_unregister_thread, wvars
  <2>2. \A q \in Readers : idx'[q] # None => readers'[idx'[q]].epoch \in 1..global_epoch
    BY <1>2, AnnouncedBegun
  <2> QED
    BY <2>1, <2>2 DEF EpochsBegun, SlotsFit
<1>3. ASSUME NEW r \in Readers, LockOuter(r) PROVE EpochsBegun'
  <2>1. UNCHANGED <<readers, idx, buffer, global_epoch>>
    BY <1>3 DEF LockOuter, wvars
  <2>2. \A q \in Readers : rpc'[q] = "announce"
          => (rpc[q] = "announce" /\ loaded'[q] = loaded[q]) \/ loaded'[q] = global_epoch
    BY <1>3 DEF LockOuter, ReaderType
  <2> QED
    BY <2>1, <2>2 DEF EpochsBegun, SlotsFit, WriterType
<1>4. ASSUME NEW r \in Readers, Announce(r) PROVE EpochsBegun'
  <2>1. UNCHANGED <<readers, idx, global_epoch>>
    BY <1>4 DEF Announce, wvars
  <2>2. \A q \in Readers : rpc'[q] = "announce" => rpc[q] = "announce" /\ loaded'[q] = loaded[q]
    BY <1>4 DEF Announce, ReaderType
  <2>3. \A q \in Readers : \A i \in DOMAIN buffer'[q] :
            buffer'[q][i][1] = "epoch" => buffer'[q][i][2] \in 1..global_epoch
    BY <1>4, EpochsUnderWay
  <2> QED
    BY <2>1, <2>2, <2>3 DEF EpochsBegun, SlotsFit
<1>5. ASSUME NEW r \in Readers, urcu_read_unlock(r) PROVE EpochsBegun'
  <2>1. UNCHANGED <<readers, idx, global_epoch>>
    BY <1>5 DEF urcu_read_unlock, wvars
  <2>2. \A q \in Readers : rpc'[q] = "announce" => rpc[q] = "announce" /\ loaded'[q] = loaded[q]
    BY <1>5 DEF urcu_read_unlock, ReaderType
  <2>3. \A q \in Readers : \A i \in DOMAIN buffer'[q] :
            buffer'[q][i][1] = "epoch" => buffer'[q][i][2] \in 1..global_epoch
    BY <1>5, EpochsUnderWay
  <2> QED
    BY <2>1, <2>2, <2>3 DEF EpochsBegun, SlotsFit
<1>6. ASSUME NEW r \in Readers, Drain(r) PROVE EpochsBegun'
  <2>1. UNCHANGED <<rpc, loaded, global_epoch>>
    BY <1>6 DEF Drain, wvars
  <2>2. \A q \in Readers : idx'[q] # None => readers'[idx'[q]].epoch \in 1..global_epoch
    BY <1>6, AnnouncedBegun
  <2>3. \A q \in Readers : \A i \in DOMAIN buffer'[q] :
            buffer'[q][i][1] = "epoch" => buffer'[q][i][2] \in 1..global_epoch
    BY <1>6, EpochsUnderWay
  <2> QED
    BY <2>1, <2>2, <2>3 DEF EpochsBegun, SlotsFit
<1>7. CASE Retire
  <2>1. UNCHANGED <<readers, idx, buffer, rpc, loaded>>
    BY <1>7 DEF Retire, rvars
  <2>2. \A e \in 1..global_epoch : e \in 1..global_epoch'
    BY <1>7 DEF Retire, WriterType
  <2> QED
    BY <2>1, <2>2 DEF EpochsBegun, SlotsFit
<1>8. CASE RetireSynchronously
  <2>1. UNCHANGED <<readers, idx, buffer, rpc, loaded>>
    BY <1>8 DEF RetireSynchronously, rvars
  <2>2. \A e \in 1..global_epoch : e \in 1..global_epoch'
    BY <1>8 DEF RetireSynchronously, WriterType
  <2> QED
    BY <2>1, <2>2 DEF EpochsBegun, SlotsFit
<1>9. ASSUME NEW r \in Readers, LockNested(r) \/ FollowPointer(r)
     PROVE EpochsBegun'
  BY <1>9 DEF LockNested, FollowPointer, wvars
<1>10. CASE Publish \/ Collect \/ LoadActive \/ GcLoadEpoch \/ Reclaim \/ SyncLoadEpoch
        \/ Synchronized \/ urcu_destroy
  BY <1>10 DEF Publish, Collect, LoadActive, GcLoadEpoch, Reclaim, SyncLoadEpoch,
     Synchronized, urcu_destroy, rvars
<1> QED
  BY <1>1, <1>2, <1>3, <1>4, <1>5, <1>6, <1>7, <1>8, <1>9, <1>10 DEF UrcuNext, Scan

LEMMA AnnouncementsFitStep ==
    ASSUME SlotType, ReaderType, BufferType, SlotsFit, AnnouncementsFit, UrcuNext
    PROVE  AnnouncementsFit'
<1>1. ASSUME NEW r \in Readers, urcu_register_thread(r) PROVE AnnouncementsFit'
  <2> SUFFICES ASSUME NEW q \in Readers, rpc'[q] = "in"
               PROVE  IF buffer'[q] = <<>> THEN readers'[idx'[q]].active
                      ELSE buffer'[q][Len(buffer'[q])] = <<"active", TRUE>>
    BY DEF AnnouncementsFit
  <2>1. rpc[q] = "in" /\ buffer'[q] = buffer[q]
    BY <1>1 DEF urcu_register_thread
  <2>2. idx[q] # None
    BY <2>1 DEF SlotsFit, SlotsTaken
  <2>3. readers'[idx[q]] = readers[idx[q]] /\ idx'[q] = idx[q]
    BY <1>1, <2>1, <2>2, SlotKept
  <2> QED
    BY <2>1, <2>3 DEF AnnouncementsFit
<1>2. ASSUME NEW r \in Readers, urcu_unregister_thread(r) PROVE AnnouncementsFit'
  <2> SUFFICES ASSUME NEW q \in Readers, rpc'[q] = "in"
               PROVE  IF buffer'[q] = <<>> THEN readers'[idx'[q]].active
                      ELSE buffer'[q][Len(buffer'[q])] = <<"active", TRUE>>
    BY DEF AnnouncementsFit
  <2>1. rpc[q] = "in" /\ buffer'[q] = buffer[q] /\ q # r
    BY <1>2 DEF urcu_unregister_thread
  <2>2. idx[q] # None
    BY <2>1 DEF SlotsFit, SlotsTaken
  <2>3. readers'[idx[q]] = readers[idx[q]] /\ idx'[q] = idx[q]
    BY <1>2, <2>1, <2>2, SlotKept
  <2> QED
    BY <2>1, <2>3 DEF AnnouncementsFit
<1>3. ASSUME NEW r \in Readers, LockOuter(r) PROVE AnnouncementsFit'
  <2>1. \A q \in Readers : rpc'[q] = "in" => rpc[q] = "in"
    BY <1>3 DEF LockOuter, ReaderType
  <2>2. UNCHANGED <<readers, idx, buffer>>
    BY <1>3 DEF LockOuter
  <2> QED
    BY <2>1, <2>2 DEF AnnouncementsFit
<1>4. ASSUME NEW r \in Readers, Announce(r) PROVE AnnouncementsFit'
  <2> DEFINE x == <<"epoch", loaded[r]>>
             y == <<"active", TRUE>>
  <2>1. x \in Stores /\ y \in Stores /\ buffer[r] \in Seq(Stores)
    BY StoreFacts DEF ReaderType, BufferType
  <2>2. buffer'[r] = buffer[r] \o <<x, y>>
    BY <1>4 DEF Announce, BufferType
  <2>3. buffer[r] \o <<x, y>> # <<>> /\ (buffer[r] \o <<x, y>>)[Len(buffer[r] \o <<x, y>>)] = y
    <3> HIDE DEF x, y
    <3> QED
      BY <2>1, BufferFacts
  <2>4. \A q \in Readers \ {r} : rpc'[q] = rpc[q] /\ buffer'[q] = buffer[q]
    BY <1>4 DEF Announce, ReaderType, BufferType
  <2>5. UNCHANGED <<readers, idx>>
    BY <1>4 DEF Announce
  <2>6. \A q \in Readers \ {r} : rpc'[q] = "in" =>
            IF buffer'[q] = <<>> THEN readers'[idx'[q]].active ELSE buffer'[q][Len(buffer'[q])] = <<"active", TRUE>>
    BY <2>4, <2>5 DEF AnnouncementsFit
  <2>7. buffer'[r] # <<>> /\ buffer'[r][Len(buffer'[r])] = <<"active", TRUE>>
    BY <2>2, <2>3
  <2> QED
    BY <2>6, <2>7 DEF AnnouncementsFit
<1>5. ASSUME NEW r \in Readers, urcu_read_unlock(r) PROVE AnnouncementsFit'
  <2>1. \A q \in Readers : rpc'[q] = "in" => rpc[q] = "in" /\ buffer'[q] = buffer[q]
    <3>1. CASE depth[r] = 1
      <4>1. /\ rpc' = [rpc EXCEPT ![r] = "out"]
            /\ buffer' = [buffer EXCEPT ![r] = Append(@, <<"active", FALSE>>)]
        BY <1>5, <3>1 DEF urcu_read_unlock
      <4>2. rpc'[r] = "out" /\ \A q \in Readers \ {r} : rpc'[q] = rpc[q] /\ buffer'[q] = buffer[q]
        BY <4>1 DEF ReaderType, BufferType
      <4> QED
        BY <4>2
    <3>2. CASE depth[r] # 1
      BY <1>5, <3>2 DEF urcu_read_unlock
    <3> QED
      BY <3>1, <3>2
  <2>2. UNCHANGED <<readers, idx>>
    BY <1>5 DEF urcu_read_unlock
  <2> QED
    BY <2>1, <2>2 DEF AnnouncementsFit
<1>6. ASSUME NEW r \in Readers, Drain(r) PROVE AnnouncementsFit'
  <2> SUFFICES ASSUME NEW q \in Readers, rpc'[q] = "in"
               PROVE  IF buffer'[q] = <<>> THEN readers'[idx'[q]].active
                      ELSE buffer'[q][Len(buffer'[q])] = <<"active", TRUE>>
    BY DEF AnnouncementsFit
  <2>1. rpc[q] = "in" /\ idx' = idx
    BY <1>6 DEF Drain
  <2>2. idx[q] # None
    BY <2>1 DEF SlotsFit, SlotsTaken
  <2>3. CASE q # r
    <3>1. readers'[idx[q]] = readers[idx[q]] /\ buffer'[q] = buffer[q]
      BY <1>6, <2>2, <2>3, SlotKept DEF Drain, BufferType
    <3> QED
      BY <2>1, <3>1 DEF AnnouncementsFit
  <2>4. CASE q = r
    <3>1. buffer[r] # <<>> /\ buffer[r] \in Seq(Stores) /\ buffer'[r] = Tail(buffer[r])
      BY <1>6 DEF Drain, BufferType
    <3>2. buffer[r][Len(buffer[r])] = <<"active", TRUE>>
      BY <2>1, <2>4, <3>1 DEF AnnouncementsFit
    <3>3. CASE buffer'[r] = <<>>
      <4>1. Head(buffer[r]) = <<"active", TRUE>>
        BY <3>1, <3>2, <3>3, TailFacts
      <4>2. Head(buffer[r])[1] # "epoch" /\ Head(buffer[r])[2] = TRUE
        <5>1. <<"active", TRUE>>[1] # "epoch" /\ <<"active", TRUE>>[2] = TRUE
          OBVIOUS
        <5> QED
          BY <4>1, <5>1, Zenon
      <4>3. readers'[idx[r]].active = Head(buffer[r])[2]
        BY <1>6, <4>2, DrainFacts
      <4> QED
        BY <2>1, <2>4, <3>3, <4>2, <4>3
    <3>4. CASE buffer'[r] # <<>>
      <4>1. Tail(buffer[r])[Len(Tail(buffer[r]))] = buffer[r][Len(buffer[r])]
        BY <3>1, <3>4, TailFacts
      <4> QED
        BY <2>4, <3>1, <3>2, <3>4, <4>1
    <3> QED
      BY <3>3, <3>4
  <2> QED
    BY <2>3, <2>4
<1>7. ASSUME NEW r \in Readers, LockNested(r) \/ FollowPointer(r)
     PROVE AnnouncementsFit'
  BY <1>7 DEF LockNested, FollowPointer, AnnouncementsFit
<1>8. CASE Publish \/ Retire \/ RetireSynchronously \/ Collect \/ LoadActive \/ GcLoadEpoch
        \/ Reclaim \/ SyncLoadEpoch \/ Synchronized \/ urcu_destroy
  BY <1>8 DEF AnnouncementsFit, Publish, Retire, RetireSynchronously, Collect, LoadActive, GcLoadEpoch,
     Reclaim, SyncLoadEpoch, Synchronized, urcu_destroy, rvars
<1> QED
  BY <1>1, <1>2, <1>3, <1>4, <1>5, <1>6, <1>7, <1>8 DEF UrcuNext, Scan

LEMMA BlocksFitStep ==
    ASSUME WriterType, BlocksFit, UrcuNext
    PROVE  BlocksFit'
<1> USE DEF WriterType, BlocksFit
<1>1. CASE Publish
  BY <1>1 DEF Publish, rvars
<1>2. CASE Retire
  BY <1>2 DEF Retire, rvars
<1>3. CASE RetireSynchronously
  BY <1>3 DEF RetireSynchronously, NoScan, rvars
<1>4. CASE Collect
  BY <1>4 DEF Collect, rvars
<1>5. CASE LoadActive
  BY <1>5 DEF LoadActive, rvars
<1>6. CASE GcLoadEpoch
  BY <1>6 DEF GcLoadEpoch, rvars
<1>7. CASE Reclaim
  BY <1>7 DEF Reclaim, NoScan, rvars
<1>8. CASE SyncLoadEpoch
  BY <1>8 DEF SyncLoadEpoch, rvars
<1>9. CASE Synchronized
  BY <1>9 DEF Synchronized, NoScan, rvars
<1>10. CASE urcu_destroy
  BY <1>10 DEF urcu_destroy, rvars
<1>11. ASSUME NEW r \in Readers, urcu_register_thread(r) \/ urcu_unregister_thread(r)
        \/ LockOuter(r) \/ Announce(r) \/ LockNested(r) \/ FollowPointer(r) \/ urcu_read_unlock(r)
        \/ Drain(r)
     PROVE BlocksFit'
  BY <1>11 DEF urcu_register_thread, urcu_unregister_thread, LockOuter, Announce,
     LockNested, FollowPointer, urcu_read_unlock, Drain, wvars
<1> QED
  BY <1>1, <1>2, <1>3, <1>4, <1>5, <1>6, <1>7, <1>8, <1>9, <1>10, <1>11 DEF UrcuNext, Scan

LEMMA ScanFitsStep ==
    ASSUME ScanType, ScanFits, UrcuNext
    PROVE  ScanFits'
<1> USE DEF ScanType, ScanFits
<1>1. CASE Publish
  BY <1>1 DEF Publish, rvars
<1>2. CASE Retire
  BY <1>2 DEF Retire, rvars
<1>3. CASE RetireSynchronously
  BY <1>3 DEF RetireSynchronously, NoScan, rvars
<1>4. CASE Collect
  BY <1>4 DEF Collect, rvars
<1>5. CASE LoadActive
  BY <1>5 DEF LoadActive, NoScan, rvars
<1>6. CASE GcLoadEpoch
  BY <1>6 DEF GcLoadEpoch, rvars
<1>7. CASE Reclaim
  BY <1>7 DEF Reclaim, NoScan, rvars
<1>8. CASE SyncLoadEpoch
  BY <1>8 DEF SyncLoadEpoch, rvars
<1>9. CASE Synchronized
  BY <1>9 DEF Synchronized, NoScan, rvars
<1>10. CASE urcu_destroy
  BY <1>10 DEF urcu_destroy, rvars
<1>11. ASSUME NEW r \in Readers, urcu_register_thread(r) \/ urcu_unregister_thread(r)
        \/ LockOuter(r) \/ Announce(r) \/ LockNested(r) \/ FollowPointer(r) \/ urcu_read_unlock(r)
        \/ Drain(r)
     PROVE ScanFits'
  BY <1>11 DEF urcu_register_thread, urcu_unregister_thread, LockOuter, Announce,
     LockNested, FollowPointer, urcu_read_unlock, Drain, wvars
<1> QED
  BY <1>1, <1>2, <1>3, <1>4, <1>5, <1>6, <1>7, <1>8, <1>9, <1>10, <1>11 DEF UrcuNext, Scan


\* The slot of a reader that is held back for: taken, active, and of an epoch that has begun.
LEMMA SlotOfReader ==
    ASSUME SlotType, WriterType, SlotsFit, AnnouncementsFit, NEW r \in Readers, HeldBack(r)
    PROVE  /\ idx[r] \in Slots /\ idx[r] # None /\ readers[idx[r]].active
           /\ readers[idx[r]].epoch \in 1..global_epoch /\ readers[idx[r]].epoch \in Nat
<1>1. idx[r] # None
  BY DEF HeldBack, SlotsFit, SlotsTaken
<1>2. idx[r] \in Slots
  BY <1>1 DEF SlotType
<1>3. readers[idx[r]].active
  BY DEF HeldBack, AnnouncementsFit
<1>4. readers[idx[r]].epoch \in 1..global_epoch /\ readers[idx[r]].epoch \in Nat
  BY <1>1, <1>2 DEF SlotsFit, EpochsBegun, SlotType
<1> QED
  BY <1>1, <1>2, <1>3, <1>4

\* A step of the writer leaves the block to the reader.
LEMMA WriterHoldsBack ==
    ASSUME SlotType, ReaderType, WriterType, ScanType, SlotsFit, AnnouncementsFit, BlocksFit,
            ScanFits,
           NEW r \in Readers, HeldBack(r),
           Publish \/ Retire \/ RetireSynchronously \/ Collect \/ Scan \/ urcu_destroy
    PROVE  HeldBack(r)'
<1>0. /\ idx[r] \in Slots /\ idx[r] # None /\ readers[idx[r]].active
      /\ readers[idx[r]].epoch \in 1..global_epoch /\ readers[idx[r]].epoch \in Nat
  BY SlotOfReader
<1> DEFINE e == readers[idx[r]].epoch
<1>a. UNCHANGED rvars
  BY DEF Publish, Retire, RetireSynchronously, Collect, Scan, urcu_destroy, LoadActive,
         GcLoadEpoch, Reclaim, SyncLoadEpoch, Synchronized
<1>b. rpc'[r] = "in" /\ buffer'[r] = <<>> /\ held' = held /\ idx' = idx /\ readers' = readers
  BY <1>a DEF rvars, HeldBack
<1>c. idx[r] \in 1..MaxThreads /\ e \in Nat
  BY <1>0 DEF Slots
<1>d. /\ held[r] \notin freed /\ held[r] <= shared
      /\ \A item \in retired : item.ptr = held[r] =>
           e <= item.epoch /\ (wpc = "gc" /\ idx[r] < scan.slot => scan.bound <= e)
      /\ wpc = "wait" /\ old = held[r] => e < target /\ scan.slot <= idx[r]
  BY DEF HeldBack
<1> SUFFICES /\ held[r] \notin freed' /\ held[r] <= shared'
             /\ \A item \in retired' : item.ptr = held[r] =>
                  e <= item.epoch /\ (wpc' = "gc" /\ idx[r] < scan'.slot => scan'.bound <= e)
             /\ wpc' = "wait" /\ old' = held[r] => e < target' /\ scan'.slot <= idx[r]
  BY <1>b DEF HeldBack
<1>1. CASE Publish
  BY <1>1, <1>c, <1>d DEF Publish, ReaderType, WriterType, BlocksFit
<1>2. CASE Retire
  BY <1>0, <1>2, <1>d DEF Retire, WriterType
<1>3. CASE RetireSynchronously
  BY <1>0, <1>3, <1>c, <1>d DEF RetireSynchronously, NoScan, WriterType
<1>4. CASE Collect
  BY <1>4, <1>c, <1>d DEF Collect
<1>5. CASE LoadActive
  <2>1. UNCHANGED <<shared, retired, freed, wpc, old, target>> /\ scan.slot \in 1..MaxThreads
          /\ scan'.bound = scan.bound
    BY <1>5 DEF LoadActive, ScanType, Slots
  <2>2. scan'.slot = scan.slot \/ (scan'.slot = scan.slot + 1 /\ scan.slot # idx[r])
    BY <1>0, <1>5 DEF LoadActive, ScanType
  <2>3. idx[r] < scan'.slot => idx[r] < scan.slot
    BY <1>c, <2>1, <2>2
  <2>4. scan.slot <= idx[r] => scan'.slot <= idx[r]
    BY <1>c, <2>1, <2>2
  <2> QED
    BY <1>d, <2>1, <2>3, <2>4
<1>6. CASE GcLoadEpoch
  <2>1. UNCHANGED <<shared, retired, freed, wpc, old, target>> /\ scan.slot \in 1..MaxThreads
          /\ wpc = "gc"
    BY <1>6 DEF GcLoadEpoch, ScanFits, Slots
  <2>2. scan'.slot = scan.slot + 1 /\ scan'.bound <= scan.bound
          /\ scan'.bound <= readers[scan.slot].epoch
    BY <1>6, <2>1 DEF GcLoadEpoch, ScanType, SlotType, Slots
  <2>3. scan.bound \in Nat /\ scan'.bound \in Nat
    BY <1>6, <2>1 DEF GcLoadEpoch, ScanType, SlotType, Slots
  <2>4. idx[r] < scan'.slot => idx[r] < scan.slot \/ idx[r] = scan.slot
    BY <1>c, <2>1, <2>2
  <2> QED
    BY <1>c, <1>d, <2>1, <2>2, <2>3, <2>4
<1>7. CASE Reclaim
  <2>1. \A item \in retired : item.ptr = held[r] => ~ Reclaimable(item, scan.bound)
    BY <1>7, <1>c, <1>d DEF Reclaim, Reclaimable, WriterType, ScanType
  <2>2. wpc' = "idle" /\ UNCHANGED shared /\ retired' \subseteq retired
    BY <1>7 DEF Reclaim
  <2>3. held[r] \notin freed'
    BY <1>7, <1>d, <2>1 DEF Reclaim
  <2> QED
    BY <1>d, <2>2, <2>3
<1>8. CASE SyncLoadEpoch
  <2>1. UNCHANGED <<shared, retired, freed, wpc, old, target>> /\ scan.slot \in 1..MaxThreads
          /\ wpc = "wait"
    BY <1>8 DEF SyncLoadEpoch, ScanFits, Slots
  <2>2. scan'.slot = 1 \/ (scan'.slot = scan.slot + 1 /\ ~ (readers[scan.slot].epoch < target))
    BY <1>8 DEF SyncLoadEpoch, Pending
  <2>3. old = held[r] => scan'.slot <= idx[r]
    BY <1>c, <1>d, <2>1, <2>2
  <2> QED
    BY <1>d, <2>1, <2>3
<1>9. CASE Synchronized
  <2>1. old # held[r]
    BY <1>9, <1>c, <1>d DEF Synchronized
  <2> QED
    BY <1>9, <1>d, <2>1 DEF Synchronized
<1>10. CASE urcu_destroy
  BY <1>0, <1>10 DEF urcu_destroy
<1> QED
  BY <1>1, <1>2, <1>3, <1>4, <1>5, <1>6, <1>7, <1>8, <1>9, <1>10 DEF Scan

\* So does a step of a reader, of itself or of another.
LEMMA ReaderHoldsBack ==
    ASSUME SlotType, ReaderType, BufferType, WriterType, SlotsFit, AnnouncementsFit, BlocksFit,
           ReadersHoldBack, NEW q \in Readers,
           \/ urcu_register_thread(q) \/ urcu_unregister_thread(q) \/ LockOuter(q)
           \/ Announce(q) \/ LockNested(q) \/ FollowPointer(q) \/ urcu_read_unlock(q) \/ Drain(q),
           NEW r \in Readers, seen'[r]
    PROVE  HeldBack(r)'
<1> DEFINE Same == /\ rpc'[r] = rpc[r] /\ buffer'[r] = buffer[r] /\ held'[r] = held[r]
                   /\ idx'[r] = idx[r] /\ readers'[idx[r]] = readers[idx[r]] /\ UNCHANGED wvars
<1>1. ASSUME seen[r], Same PROVE HeldBack(r)'
  <2>1. HeldBack(r)
    BY <1>1 DEF ReadersHoldBack
  <2> QED
    BY <1>1, <2>1 DEF HeldBack, wvars
<1>2. seen[r] => rpc[r] = "in" /\ buffer[r] = <<>> /\ idx[r] # None
  BY DEF ReadersHoldBack, HeldBack, SlotsFit, SlotsTaken
<1>3. CASE urcu_register_thread(q)
  <2>1. seen[r]
    BY <1>3 DEF urcu_register_thread
  <2>2. readers'[idx[r]] = readers[idx[r]] /\ idx'[r] = idx[r]
    BY <1>2, <1>3, <2>1, SlotKept
  <2> QED
    BY <1>1, <1>3, <2>1, <2>2 DEF urcu_register_thread
<1>4. CASE urcu_unregister_thread(q)
  <2>1. seen[r] /\ q # r
    BY <1>2, <1>4 DEF urcu_unregister_thread
  <2>2. readers'[idx[r]] = readers[idx[r]] /\ idx'[r] = idx[r]
    BY <1>2, <1>4, <2>1, SlotKept
  <2> QED
    BY <1>1, <1>4, <2>1, <2>2 DEF urcu_unregister_thread
<1>5. CASE Drain(q)
  <2>1. seen[r] /\ q # r
    BY <1>2, <1>5 DEF Drain
  <2>2. readers'[idx[r]] = readers[idx[r]] /\ idx'[r] = idx[r]
    BY <1>2, <1>5, <2>1, SlotKept
  <2> QED
    BY <1>1, <1>5, <2>1, <2>2 DEF Drain, BufferType
<1>6. CASE LockOuter(q)
  <2>1. seen[r] /\ q # r
    BY <1>2, <1>6 DEF LockOuter
  <2> QED
    BY <1>1, <1>6, <2>1 DEF LockOuter, ReaderType
<1>7. CASE Announce(q)
  <2>1. seen[r] /\ q # r
    BY <1>2, <1>7 DEF Announce
  <2> QED
    BY <1>1, <1>7, <2>1 DEF Announce, ReaderType, BufferType
<1>8. CASE LockNested(q)
  BY <1>1, <1>8 DEF LockNested
<1>9. CASE urcu_read_unlock(q)
  <2>1. seen[r] /\ rpc'[r] = rpc[r] /\ buffer'[r] = buffer[r] /\ held'[r] = held[r]
    BY <1>9 DEF urcu_read_unlock, ReaderType, BufferType
  <2> QED
    BY <1>1, <1>9, <2>1 DEF urcu_read_unlock
<1>10. CASE FollowPointer(q) /\ q # r
  BY <1>1, <1>10 DEF FollowPointer, ReaderType
<1>11. CASE FollowPointer(q) /\ q = r
  <2>1. rpc'[r] = "in" /\ buffer'[r] = <<>> /\ held'[r] = shared /\ UNCHANGED wvars
    BY <1>11 DEF FollowPointer, ReaderType
  <2>2. shared \notin freed /\ shared \in Nat /\ old # shared
          /\ \A item \in retired : item.ptr # shared
    BY DEF BlocksFit, WriterType
  <2> QED
    BY <2>1, <2>2 DEF HeldBack, wvars
<1> QED
  BY <1>3, <1>4, <1>5, <1>6, <1>7, <1>8, <1>9, <1>10, <1>11

LEMMA ReadersHoldBackStep ==
    ASSUME UrcuTypeOK, SlotsFit, AnnouncementsFit, BlocksFit, ScanFits, ReadersHoldBack, UrcuNext
    PROVE  ReadersHoldBack'
<1> SUFFICES ASSUME NEW r \in Readers, seen'[r] PROVE HeldBack(r)'
  BY DEF ReadersHoldBack
<1> USE DEF UrcuTypeOK
<1>1. CASE Publish \/ Retire \/ RetireSynchronously \/ Collect \/ Scan \/ urcu_destroy
  <2>1. UNCHANGED rvars
    BY <1>1 DEF Publish, Retire, RetireSynchronously, Collect, Scan, urcu_destroy, LoadActive,
                GcLoadEpoch, Reclaim, SyncLoadEpoch, Synchronized
  <2>2. seen[r]
    BY <2>1 DEF rvars
  <2>3. HeldBack(r)
    BY <2>2 DEF ReadersHoldBack
  <2> QED
    BY <1>1, <2>3, WriterHoldsBack
<1>2. CASE \E q \in Readers :
          \/ urcu_register_thread(q) \/ urcu_unregister_thread(q) \/ LockOuter(q)
          \/ Announce(q) \/ LockNested(q) \/ FollowPointer(q) \/ urcu_read_unlock(q) \/ Drain(q)
  BY <1>2, ReaderHoldsBack
<1> QED
  BY <1>1, <1>2 DEF UrcuNext

-----------------------------------------------------------------------------

LEMMA InitUrcuInv == UrcuInit => UrcuInv
<1> SUFFICES ASSUME UrcuInit PROVE UrcuInv
  OBVIOUS
<1>1. SlotType
  BY DEF UrcuInit, SlotType
<1>2. ReaderType /\ BufferType
  BY DEF UrcuInit, ReaderType, BufferType
<1>3. WriterType /\ ScanType
  BY DEF UrcuInit, WriterType, ScanType, NoScan
<1>4. SlotsFit
  BY DEF UrcuInit, SlotsFit, SlotsTaken, SlotsOwned, EpochsBegun
<1>5. AnnouncementsFit /\ BlocksFit /\ ScanFits
  BY DEF UrcuInit, AnnouncementsFit, BlocksFit, ScanFits, NoScan
<1>6. ReadersHoldBack
  BY DEF UrcuInit, ReadersHoldBack
<1> QED
  BY <1>1, <1>2, <1>3, <1>4, <1>5, <1>6 DEF UrcuInv, UrcuTypeOK

LEMMA NextUrcuInv == UrcuInv /\ [UrcuNext]_urcuVars => UrcuInv'
<1> SUFFICES ASSUME UrcuInv, [UrcuNext]_urcuVars PROVE UrcuInv'
  OBVIOUS
<1>1. CASE UrcuNext
  <2>1. SlotType' /\ ReaderType' /\ BufferType' /\ WriterType' /\ ScanType'
    BY <1>1, SlotTypeStep, ReaderTypeStep, BufferTypeStep, WriterTypeStep, ScanTypeStep
       DEF UrcuInv, UrcuTypeOK
  <2>2. SlotsTaken' /\ SlotsOwned' /\ EpochsBegun'
    BY <1>1, SlotsTakenStep, SlotsOwnedStep, EpochsBegunStep DEF UrcuInv, UrcuTypeOK, SlotsFit
  <2>3. AnnouncementsFit' /\ BlocksFit' /\ ScanFits'
    BY <1>1, AnnouncementsFitStep, BlocksFitStep, ScanFitsStep DEF UrcuInv, UrcuTypeOK
  <2>4. ReadersHoldBack'
    BY <1>1, ReadersHoldBackStep DEF UrcuInv
  <2> QED
    BY <2>1, <2>2, <2>3, <2>4 DEF UrcuInv, UrcuTypeOK, SlotsFit
<1>2. CASE UNCHANGED urcuVars
  BY <1>2 DEF urcuVars, rvars, wvars, UrcuInv, UrcuTypeOK, SlotType, ReaderType, BufferType, WriterType,
     ScanType, SlotsFit, SlotsTaken, SlotsOwned, EpochsBegun, AnnouncementsFit, BlocksFit,
     ScanFits, ReadersHoldBack, HeldBack
<1> QED
  BY <1>1, <1>2

\* What the readers have announced and what the writer's scan has seen fit
\* together in every reachable state of urcu.h.
THEOREM UrcuInvHolds == UrcuSpec => []UrcuInv
BY InitUrcuInv, NextUrcuInv, PTL DEF UrcuSpec

\* Neither urcu_gc, nor urcu_retire where the queue cannot grow, nor urcu_destroy
\* frees a block under a reader whose announcement was in memory when it followed
\* the pointer, whatever the order of the writer's loads and the readers' steps.
THEOREM NoUseAfterFreeHolds == UrcuSpec => []NoUseAfterFree
<1>1. UrcuInv => NoUseAfterFree
  BY DEF UrcuInv, ReadersHoldBack, HeldBack, NoUseAfterFree
<1> QED
  BY <1>1, UrcuInvHolds, PTL

=============================================================================
