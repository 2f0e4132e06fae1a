------------------------------- MODULE TxLock -------------------------------
(***************************************************************************)
(* What lib/transaction.c promises about mutual exclusion, with none of    *)
(* its mechanism: one thread at a time may hold the right to write, either *)
(* for a transaction (depth >= 1, counting nested begins) or for a single  *)
(* operation (depth = 0); any number of threads may read, never while      *)
(* somebody writes.                                                        *)
(*                                                                         *)
(* Transaction.tla shows that the rwlock, the owner field, the level and   *)
(* the per-thread reader slots implement this module; FactsTx.tla builds   *)
(* the fact store on it.                                                   *)
(***************************************************************************)
EXTENDS Naturals

CONSTANTS Threads,   \* the threads that use one database
          NoThread   \* "nobody": owner_valid = 0

ASSUME NoThreadAssumption == NoThread \notin Threads

VARIABLES holder,    \* the thread that may write, or NoThread
          depth,     \* begins not yet matched by a commit; 0 in a single operation
          readers    \* the threads inside a read section

lockVars == <<holder, depth, readers>>

LockTypeOK ==
    /\ holder \in Threads \union {NoThread}
    /\ depth \in Nat
    /\ readers \subseteq Threads

LockInit ==
    /\ holder = NoThread
    /\ depth = 0
    /\ readers = {}

Free == holder = NoThread /\ readers = {}

-----------------------------------------------------------------------------
\* The outermost begin of a transaction: waits for every reader and writer.
TakeTx(t) ==
    /\ Free
    /\ holder' = t
    /\ depth' = 1
    /\ UNCHANGED readers

\* An operation outside any transaction takes the lock for its own duration.
TakeOp(t) ==
    /\ Free
    /\ holder' = t
    /\ UNCHANGED <<depth, readers>>

Nest(t) ==
    /\ holder = t
    /\ depth > 0
    /\ depth' = depth + 1
    /\ UNCHANGED <<holder, readers>>

Unnest(t) ==
    /\ holder = t
    /\ depth > 1
    /\ depth' = depth - 1
    /\ UNCHANGED <<holder, readers>>

\* The outer commit, a rollback at any depth, or the end of an operation.
Drop(t) ==
    /\ holder = t
    /\ holder' = NoThread
    /\ depth' = 0
    /\ UNCHANGED readers

StartReading(t) ==
    /\ holder = NoThread
    /\ t \notin readers
    /\ readers' = readers \union {t}
    /\ UNCHANGED <<holder, depth>>

StopReading(t) ==
    /\ t \in readers
    /\ readers' = readers \ {t}
    /\ UNCHANGED <<holder, depth>>

LockNext ==
    \E t \in Threads :
        \/ TakeTx(t) \/ TakeOp(t) \/ Nest(t) \/ Unnest(t) \/ Drop(t)
        \/ StartReading(t) \/ StopReading(t)

LockSpec == LockInit /\ [][LockNext]_lockVars
=============================================================================
