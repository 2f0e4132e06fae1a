-------------------------------- MODULE Linda --------------------------------
(***************************************************************************)
(* The Linda tuple space of lib/linda.c: threads that put, read and take   *)
(* tuples, sleep on per-partition condition variables, and close and       *)
(* delete the space.                                                       *)
(*                                                                         *)
(* A tuple is in the space when the database asserts it; `count' holds the *)
(* overlay of occurrences above one.  Both are changed only under the      *)
(* database's write lock (TxLock.tla), taken by one thread at a time and   *)
(* not while a guard reads.  A section of worker_lock calls nothing else   *)
(* that waits and is one step.  Locking a partition, broadcasting and      *)
(* unlocking it again is one step, enabled when its mutex is free.         *)
(***************************************************************************)
EXTENDS Integers, Sequences, FiniteSets

CONSTANTS
    Clients,       \* threads of the application
    Workers,       \* threads that linda_eval may create
    NoThread,
    Tuples,
    CondPartitions, \* LINDA_COND_PARTITIONS, the number of condition variables
    PartitionOf,   \* of each tuple: facts_commit_subject_partition of its subject
    Patterns,      \* records: the tuples a pattern matches and its cond_index
    Derived,       \* tuples that also have derived support
    DirectTuples,  \* tuples that the application commits to the database itself
    Kinds,         \* the calls that the application makes
    MaxCount,      \* SIZE_MAX: the largest multiplicity of a tuple
    MaxKept        \* bound: how often the removal of a taken tuple may fail

ASSUME LindaAssumption ==
    /\ NoThread \notin Clients \union Workers
    /\ Clients \intersect Workers = {}
    /\ CondPartitions \in Nat \ {0, 1}
    /\ PartitionOf \in [Tuples -> 1..(CondPartitions - 1)]
    /\ \A q \in Patterns :
          /\ DOMAIN q = {"tuples", "cond"}
          /\ q.tuples \subseteq Tuples
          /\ q.cond \in 0..(CondPartitions - 1)
          /\ q.cond = 0 \/ \A x \in q.tuples : PartitionOf[x] = q.cond
    /\ Derived \subseteq Tuples
    /\ DirectTuples \subseteq Tuples
    /\ Kinds \subseteq { "out", "in", "rd", "inp", "rdp", "put", "drop", "guard",
                        "close", "delete", "eval" }
    /\ MaxCount \in Nat \ {0, 1}
    /\ MaxKept \in Nat

Threads == Clients \union Workers

\* The condition variables; 0 is that of the patterns with a variable subject.
Partitions == 0..(CondPartitions - 1)

NoCall == [kind |-> "none"]

Operations ==
    [kind : {"out"} \intersect Kinds, tuple : Tuples]
    \union [kind : {"in", "rd"} \intersect Kinds, pattern : Patterns, timed : BOOLEAN]
    \union [kind : {"inp", "rdp"} \intersect Kinds, pattern : Patterns]
    \union [kind : {"guard"} \intersect Kinds]

DirectCalls == [kind : {"put", "drop"} \intersect Kinds, tuple : DirectTuples]

Calls ==
    Operations \union DirectCalls \union [kind : {"close", "delete", "eval"} \intersect Kinds]

Locations ==
    { "idle", "out", "commit", "wake", "lock", "check", "match", "wait", "asleep",
      "woken", "late", "inp", "rdp", "direct", "guard", "reading", "drain",
      "undrained", "spawn", "end" }

NoUndo == <<>>

VARIABLES
    asserted,   \* tuples with asserted support in the database
    count,      \* s_linda_entry.count: occurrences when more than one, else 0
    tx,         \* the thread that holds the database's write lock
    undo,       \* its journal: NoUndo, or <<"add" or "remove", tuple>>
    guards,     \* threads with an open read guard
    mutex,      \* per partition, the thread that holds locks[p]
    pc, call,   \* per thread, where it is and in which call
    wake,       \* per thread, the partitions it is still to broadcast
    closed,     \* shutting_down
    operations, \* active_operations
    workers,    \* active_workers
    running,    \* the worker threads whose function runs
    freed,      \* delete_linda_space has freed the space
    balance,    \* history: per tuple that only the space's calls touch, the
                \* linda_out calls that returned LINDA_OK less the in and inp
                \* calls that returned it
    kept        \* history: the linda_in calls that returned a tuple and left
                \* it in the space

storeVars == <<asserted, count, undo>>
lifeVars == <<closed, operations, workers, running, freed>>
history == <<balance, kept>>
vars == <<asserted, count, tx, undo, guards, mutex, pc, call, wake, closed,
          operations, workers, running, freed, balance, kept>>

StoreType ==
    /\ asserted \subseteq Tuples
    /\ count \in [Tuples -> Nat \ {1}]
    /\ undo \in {NoUndo} \union ({"add", "remove"} \X Tuples)

LockType == tx \in Threads \union {NoThread} /\ guards \subseteq Threads

MutexType == mutex \in [Partitions -> Threads \union {NoThread}]

ThreadType ==
    /\ pc \in [Threads -> Locations]
    /\ call \in [Threads -> Calls \union {NoCall}]

WakeType == wake \in [Threads -> Seq(Partitions)]

LifeType ==
    /\ closed \in BOOLEAN
    /\ freed \in BOOLEAN
    /\ running \subseteq Workers
    /\ operations \in Nat
    /\ workers \in Nat

HistoryType ==
    /\ balance \in [Tuples \ DirectTuples -> Int]
    /\ kept \in [Tuples \ DirectTuples -> Nat]

TypeOK ==
    /\ StoreType /\ LockType /\ MutexType /\ ThreadType /\ WakeType /\ LifeType
    /\ HistoryType

\* new_linda_space
Init ==
    /\ asserted = {}
    /\ count = [x \in Tuples |-> 0]
    /\ tx = NoThread
    /\ undo = NoUndo
    /\ guards = {}
    /\ mutex = [p \in Partitions |-> NoThread]
    /\ pc = [t \in Threads |-> "idle"]
    /\ call = [t \in Threads |-> NoCall]
    /\ wake = [t \in Threads |-> <<>>]
    /\ closed = FALSE
    /\ operations = 0
    /\ workers = 0
    /\ running = {}
    /\ freed = FALSE
    /\ balance = [x \in Tuples \ DirectTuples |-> 0]
    /\ kept = [x \in Tuples \ DirectTuples |-> 0]

-----------------------------------------------------------------------------
Goto(t, where) == pc' = [pc EXCEPT ![t] = where]

\* Where a call goes on when it has no partition left to broadcast.
AfterWake(kind) ==
    CASE kind = "delete"                  -> "drain"
      [] kind \in {"close", "put", "drop"} -> "idle"
      [] OTHER                            -> "end"

StartWaking(t, partitions) ==
    /\ wake' = [wake EXCEPT ![t] = partitions]
    /\ Goto(t, IF partitions = <<>> THEN AfterWake(call[t].kind) ELSE "wake")

Partition(t) == call[t].pattern.cond

Unlocked(p) == mutex' = [mutex EXCEPT ![p] = NoThread]

TxFree == tx = NoThread /\ guards = {}

Credited(x, n) == [z \in DOMAIN balance |-> IF z = x THEN balance[z] + n ELSE balance[z]]

Credit(x, n) == balance' = Credited(x, n) /\ UNCHANGED kept

\* Occurrences of a tuple that a consumer could take.
Occurrences(x) ==
    IF x \notin asserted THEN 0 ELSE IF count[x] = 0 THEN 1 ELSE count[x]

-----------------------------------------------------------------------------
(* Calls *)

Deleting == \E t \in Clients : call[t].kind = "delete"

\* The pointer to the space is used by clients until delete_linda_space is
\* called, and by workers until their function returns.
MayCall(t) ==
    /\ pc[t] = "idle"
    /\ ~ freed
    /\ IF t \in Workers THEN t \in running ELSE ~ Deleting

Entry(c) ==
    CASE c.kind = "out"            -> "out"
      [] c.kind \in {"in", "rd"}   -> "lock"
      [] c.kind = "inp"            -> "inp"
      [] c.kind = "rdp"            -> "rdp"
      [] c.kind = "guard"          -> "guard"

\* linda_operation_begin; a call on a closed space returns LINDA_CLOSED.
OperationBegin(t) ==
    /\ MayCall(t)
    /\ ~ closed
    /\ \E c \in Operations :
          /\ call' = [call EXCEPT ![t] = c]
          /\ Goto(t, Entry(c))
    /\ operations' = operations + 1
    /\ UNCHANGED <<tx, guards, mutex, wake, closed, workers, running, freed>>
    /\ UNCHANGED storeVars
    /\ UNCHANGED history

\* Who waits in delete_linda_space is woken by a broadcast of worker_cond.
WakeDrain(at) == [t \in Threads |-> IF at[t] = "undrained" THEN "drain" ELSE at[t]]

\* linda_operation_end
OperationEnd(t) ==
    /\ pc[t] = "end"
    /\ operations' = operations - 1
    /\ pc' = IF operations = 1 THEN WakeDrain([pc EXCEPT ![t] = "idle"])
                               ELSE [pc EXCEPT ![t] = "idle"]
    /\ call' = [call EXCEPT ![t] = NoCall]
    /\ UNCHANGED <<tx, guards, mutex, wake, closed, workers, running, freed>>
    /\ UNCHANGED storeVars
    /\ UNCHANGED history

\* Mutation: a broadcast that does not take the partition's mutex.
BroadcastUnlocked(t) ==
    /\ pc[t] = "wake"
    /\ LET p == Head(wake[t])
           rest == Tail(wake[t])
           next == IF rest = <<>> THEN AfterWake(call[t].kind) ELSE "wake"
       IN  /\ wake' = [wake EXCEPT ![t] = rest]
           /\ pc' = [u \in Threads |->
                        IF u = t THEN next
                        ELSE IF pc[u] = "asleep" /\ Partition(u) = p THEN "woken" ELSE pc[u]]
           /\ call' = IF next = "idle" THEN [call EXCEPT ![t] = NoCall] ELSE call
    /\ UNCHANGED <<tx, guards, mutex>>
    /\ UNCHANGED storeVars
    /\ UNCHANGED lifeVars
    /\ UNCHANGED history

\* One round of the loops in linda_commit_observer, linda_signal_subject and
\* linda_space_close: lock, pthread_cond_broadcast, unlock.
Broadcast(t) ==
    /\ pc[t] = "wake"
    /\ mutex[Head(wake[t])] = NoThread
    /\ LET p == Head(wake[t])
           rest == Tail(wake[t])
           next == IF rest = <<>> THEN AfterWake(call[t].kind) ELSE "wake"
       IN  /\ wake' = [wake EXCEPT ![t] = rest]
           /\ pc' = [u \in Threads |->
                        IF u = t THEN next
                        ELSE IF pc[u] = "asleep" /\ Partition(u) = p THEN "woken" ELSE pc[u]]
           /\ call' = IF next = "idle" THEN [call EXCEPT ![t] = NoCall] ELSE call
    /\ UNCHANGED <<tx, guards, mutex>>
    /\ UNCHANGED storeVars
    /\ UNCHANGED lifeVars
    /\ UNCHANGED history

-----------------------------------------------------------------------------
(* out *)

\* Up to the commit: the tuple gets its first occurrence in the database, or one
\* more in the overlay; an overlay without an asserted tuple is stale.
Out(t) ==
    /\ pc[t] = "out"
    /\ TxFree
    /\ tx' = t
    /\ LET x == call[t].tuple
       IN  IF x \in asserted
              THEN /\ count[x] # MaxCount
                   /\ count' = [count EXCEPT ![x] = IF @ = 0 THEN 2 ELSE @ + 1]
                   /\ UNCHANGED <<asserted, undo>>
              ELSE /\ count' = [count EXCEPT ![x] = 0]
                   /\ asserted' = asserted \union {x}
                   /\ undo' = <<"add", x>>
    /\ Goto(t, "commit")
    /\ UNCHANGED <<guards, mutex, call, wake>>
    /\ UNCHANGED lifeVars
    /\ UNCHANGED history

\* The application's own transaction on a direct tuple.
Direct(t) ==
    /\ pc[t] = "direct"
    /\ TxFree
    /\ tx' = t
    /\ LET x == call[t].tuple
       IN  IF call[t].kind = "put"
              THEN /\ asserted' = asserted \union {x}
                   /\ undo' = IF x \in asserted THEN NoUndo ELSE <<"add", x>>
              ELSE /\ asserted' = asserted \ {x}
                   /\ undo' = IF x \in asserted THEN <<"remove", x>> ELSE NoUndo
    /\ Goto(t, "commit")
    /\ UNCHANGED <<count, guards, mutex, call, wake>>
    /\ UNCHANGED lifeVars
    /\ UNCHANGED history

\* The partitions that the commit observer broadcasts: a change of support of
\* a fact that stays in the index (ROLLBACK_STATE) is not in the summary.
Observed ==
    IF undo = NoUndo THEN <<>>
    ELSE IF undo[2] \in Derived THEN <<>>
    ELSE <<0, PartitionOf[undo[2]]>>

\* The partitions that the call itself broadcasts after the commit.
Signalled(c) == IF c.kind = "out" THEN <<0, PartitionOf[c.tuple]>> ELSE <<>>

\* facts_transaction_commit succeeds: the lock is released, then the observers run.
Commit(t) ==
    /\ pc[t] = "commit"
    /\ tx' = NoThread
    /\ undo' = NoUndo
    /\ StartWaking(t, Observed \o Signalled(call[t]))
    /\ call' = IF pc'[t] = "idle" THEN [call EXCEPT ![t] = NoCall] ELSE call
    /\ IF call[t].kind = "out" THEN Credit(call[t].tuple, 1) ELSE UNCHANGED history
    /\ UNCHANGED <<asserted, count, guards, mutex>>
    /\ UNCHANGED lifeVars

\* A listener vetoes a changed transaction: undone, LINDA_ERROR.  The overlay is
\* no part of the journal.
Veto(t) ==
    /\ pc[t] = "commit"
    /\ undo # NoUndo
    /\ tx' = NoThread
    /\ undo' = NoUndo
    /\ asserted' = IF undo[1] = "add" THEN asserted \ {undo[2]} ELSE asserted \union {undo[2]}
    /\ Goto(t, AfterWake(call[t].kind))
    /\ call' = IF pc'[t] = "idle" THEN [call EXCEPT ![t] = NoCall] ELSE call
    /\ IF call[t].kind \in {"in", "inp"} THEN Credit(undo[2], 1) ELSE UNCHANGED history
    /\ UNCHANGED <<count, guards, mutex, wake>>
    /\ UNCHANGED lifeVars

-----------------------------------------------------------------------------
(* rd and in *)

\* The first lock of the partition's mutex, and the one inside pthread_cond_wait.
Lock(t) ==
    /\ pc[t] \in {"lock", "woken"}
    /\ mutex[Partition(t)] = NoThread
    /\ mutex' = [mutex EXCEPT ![Partition(t)] = t]
    /\ Goto(t, "check")
    /\ UNCHANGED <<tx, guards, call, wake>>
    /\ UNCHANGED storeVars
    /\ UNCHANGED lifeVars
    /\ UNCHANGED history

\* Mutation: a woken thread that does not look whether the space is closed.
CheckIgnoresClosed(t) ==
    /\ pc[t] = "check"
    /\ Goto(t, "match")
    /\ UNCHANGED <<tx, guards, mutex, call, wake>>
    /\ UNCHANGED storeVars
    /\ UNCHANGED lifeVars
    /\ UNCHANGED history

\* The top of the loop: LINDA_CLOSED, or on to the match.
Check(t) ==
    /\ pc[t] = "check"
    /\ IF closed THEN Unlocked(Partition(t)) /\ Goto(t, "end")
                 ELSE UNCHANGED mutex /\ Goto(t, "match")
    /\ UNCHANGED <<tx, guards, call, wake>>
    /\ UNCHANGED storeVars
    /\ UNCHANGED lifeVars
    /\ UNCHANGED history

Matches(t) == call[t].pattern.tuples \intersect asserted

\* match_and_extract of linda_rd_wait, in a read section of the database.
RdMatch(t) ==
    /\ pc[t] = "match"
    /\ call[t].kind = "rd"
    /\ tx = NoThread
    /\ IF Matches(t) # {} THEN Unlocked(Partition(t)) /\ Goto(t, "end")
                          ELSE UNCHANGED mutex /\ Goto(t, "wait")
    /\ UNCHANGED <<tx, guards, call, wake>>
    /\ UNCHANGED storeVars
    /\ UNCHANGED lifeVars
    /\ UNCHANGED history

\* Mutation: the last two occurrences are dropped together.
ConsumeOneDropsTwo(x) ==
    /\ count' = [count EXCEPT ![x] = IF @ > 2 THEN @ - 1 ELSE 0]
    /\ IF count[x] > 2 THEN UNCHANGED <<asserted, undo>>
                       ELSE asserted' = asserted \ {x} /\ undo' = <<"remove", x>>
    /\ Credit(x, -1)

\* linda_consume_one: an occurrence of the overlay, or the tuple itself.
ConsumeOne(x) ==
    /\ count' = [count EXCEPT ![x] = IF @ > 2 THEN @ - 1 ELSE 0]
    /\ IF count[x] = 0 THEN asserted' = asserted \ {x} /\ undo' = <<"remove", x>>
                       ELSE UNCHANGED <<asserted, undo>>
    /\ Credit(x, -1)

\* linda_consume_one returns -1, since facts_remove_spo could not journal the
\* removal.  linda_in_wait tests only for zero: it goes on as if it had the tuple.
KeepOne(x) ==
    /\ count[x] = 0
    /\ x \in DOMAIN kept => kept[x] < MaxKept
    /\ kept' = [z \in DOMAIN kept |-> IF z = x THEN kept[z] + 1 ELSE kept[z]]
    /\ balance' = Credited(x, -1)
    /\ UNCHANGED storeVars

\* Mutation: linda_in_wait that commits before it unlocks its partition.
InMatchKeepsMutex(t) ==
    /\ pc[t] = "match"
    /\ call[t].kind = "in"
    /\ TxFree
    /\ tx' = t
    /\ \E x \in Matches(t) : ConsumeOne(x) \/ KeepOne(x)
    /\ Goto(t, "commit")
    /\ UNCHANGED <<mutex, guards, call, wake>>
    /\ UNCHANGED lifeVars

\* linda_in_wait finds a tuple: it consumes one occurrence in its transaction, or
\* fails to and does not notice, and unlocks the partition, which the commit
\* observer is about to lock.
InMatch(t) ==
    /\ pc[t] = "match"
    /\ call[t].kind = "in"
    /\ TxFree
    /\ tx' = t
    /\ \E x \in Matches(t) : ConsumeOne(x) \/ KeepOne(x)
    /\ Unlocked(Partition(t))
    /\ Goto(t, "commit")
    /\ UNCHANGED <<guards, call, wake>>
    /\ UNCHANGED lifeVars

\* It finds none and commits a transaction that changed nothing.
InNoMatch(t) ==
    /\ pc[t] = "match"
    /\ call[t].kind = "in"
    /\ TxFree
    /\ Matches(t) = {}
    /\ Goto(t, "wait")
    /\ UNCHANGED <<tx, guards, mutex, call, wake>>
    /\ UNCHANGED storeVars
    /\ UNCHANGED lifeVars
    /\ UNCHANGED history

\* pthread_cond_wait: unlock and sleep, atomically.
Wait(t) ==
    /\ pc[t] = "wait"
    /\ Unlocked(Partition(t))
    /\ Goto(t, "asleep")
    /\ UNCHANGED <<tx, guards, call, wake>>
    /\ UNCHANGED storeVars
    /\ UNCHANGED lifeVars
    /\ UNCHANGED history

\* pthread_cond_wait may return for no reason, pthread_cond_timedwait with
\* ETIMEDOUT; both lock the mutex first.
Spurious(t) ==
    /\ pc[t] = "asleep"
    /\ Goto(t, "woken")
    /\ UNCHANGED <<tx, guards, mutex, call, wake>>
    /\ UNCHANGED storeVars
    /\ UNCHANGED lifeVars
    /\ UNCHANGED history

Timeout(t) ==
    /\ pc[t] \in {"asleep", "woken"}
    /\ call[t].timed
    /\ Goto(t, "late")
    /\ UNCHANGED <<tx, guards, mutex, call, wake>>
    /\ UNCHANGED storeVars
    /\ UNCHANGED lifeVars
    /\ UNCHANGED history

\* LINDA_TIMEOUT, without another look.
Late(t) ==
    /\ pc[t] = "late"
    /\ mutex[Partition(t)] = NoThread
    /\ Goto(t, "end")
    /\ UNCHANGED <<tx, guards, mutex, call, wake>>
    /\ UNCHANGED storeVars
    /\ UNCHANGED lifeVars
    /\ UNCHANGED history

-----------------------------------------------------------------------------
(* rdp, inp, failures and guarded reading *)

Rdp(t) ==
    /\ pc[t] = "rdp"
    /\ tx = NoThread
    /\ Goto(t, "end")
    /\ UNCHANGED <<tx, guards, mutex, call, wake>>
    /\ UNCHANGED storeVars
    /\ UNCHANGED lifeVars
    /\ UNCHANGED history

Inp(t) ==
    /\ pc[t] = "inp"
    /\ TxFree
    /\ tx' = t
    /\ IF Matches(t) = {} THEN UNCHANGED storeVars /\ UNCHANGED history
                          ELSE \E x \in Matches(t) : ConsumeOne(x)
    /\ Goto(t, "commit")
    /\ UNCHANGED <<guards, mutex, call, wake>>
    /\ UNCHANGED lifeVars

\* Memory runs out (in out also: the multiplicity is at its limit): what was
\* begun is rolled back and the call returns LINDA_ERROR.
OperationFails(t) ==
    /\ pc[t] \in {"out", "inp", "rdp", "guard"}
    /\ tx = NoThread
    /\ pc[t] \in {"out", "inp"} => guards = {}
    /\ Goto(t, "end")
    /\ UNCHANGED <<tx, guards, mutex, call, wake>>
    /\ UNCHANGED storeVars
    /\ UNCHANGED lifeVars
    /\ UNCHANGED history

\* match_and_extract fails in the loop of rd or in.
MatchFails(t) ==
    /\ pc[t] = "match"
    /\ tx = NoThread
    /\ call[t].kind = "in" => guards = {}
    /\ Unlocked(Partition(t))
    /\ Goto(t, "end")
    /\ UNCHANGED <<tx, guards, call, wake>>
    /\ UNCHANGED storeVars
    /\ UNCHANGED lifeVars
    /\ UNCHANGED history

\* linda_space_facts_read_begin and linda_space_facts_read_end
GuardBegin(t) ==
    /\ pc[t] = "guard"
    /\ tx = NoThread
    /\ guards' = guards \union {t}
    /\ Goto(t, "reading")
    /\ UNCHANGED <<tx, mutex, call, wake>>
    /\ UNCHANGED storeVars
    /\ UNCHANGED lifeVars
    /\ UNCHANGED history

GuardEnd(t) ==
    /\ pc[t] = "reading"
    /\ guards' = guards \ {t}
    /\ Goto(t, "end")
    /\ UNCHANGED <<tx, mutex, call, wake>>
    /\ UNCHANGED storeVars
    /\ UNCHANGED lifeVars
    /\ UNCHANGED history

-----------------------------------------------------------------------------
(* The application's own commits, eval, close and delete *)

DirectBegin(t) ==
    /\ MayCall(t)
    /\ ~ closed
    /\ \E c \in DirectCalls : call' = [call EXCEPT ![t] = c]
    /\ Goto(t, "direct")
    /\ UNCHANGED <<tx, guards, mutex, wake>>
    /\ UNCHANGED storeVars
    /\ UNCHANGED lifeVars
    /\ UNCHANGED history

\* linda_eval: active_workers is counted before the thread is created.
Eval(t) ==
    /\ "eval" \in Kinds
    /\ MayCall(t)
    /\ ~ closed
    /\ call' = [call EXCEPT ![t] = [kind |-> "eval"]]
    /\ Goto(t, "spawn")
    /\ workers' = workers + 1
    /\ UNCHANGED <<tx, guards, mutex, wake, closed, operations, running, freed>>
    /\ UNCHANGED storeVars
    /\ UNCHANGED history

Spawn(t) ==
    /\ pc[t] = "spawn"
    /\ call' = [call EXCEPT ![t] = NoCall]
    /\ \/ \E w \in Workers \ running :
             /\ running' = running \union {w}
             /\ Goto(t, "idle")
             /\ UNCHANGED workers
       \/ /\ pc' = WakeDrain([pc EXCEPT ![t] = "idle"])
          /\ workers' = workers - 1
          /\ UNCHANGED running
    /\ UNCHANGED <<tx, guards, mutex, wake, closed, operations, freed>>
    /\ UNCHANGED storeVars
    /\ UNCHANGED history

\* Mutation: linda_eval_cleanup without its broadcast.
WorkerEndSilent(w) ==
    /\ w \in running
    /\ pc[w] = "idle"
    /\ running' = running \ {w}
    /\ workers' = workers - 1
    /\ UNCHANGED <<tx, guards, mutex, pc, call, wake, closed, operations, freed>>
    /\ UNCHANGED storeVars
    /\ UNCHANGED history

\* The worker's function returns: linda_eval_cleanup.
WorkerEnd(w) ==
    /\ w \in running
    /\ pc[w] = "idle"
    /\ running' = running \ {w}
    /\ workers' = workers - 1
    /\ pc' = WakeDrain(pc)
    /\ UNCHANGED <<tx, guards, mutex, call, wake, closed, operations, freed>>
    /\ UNCHANGED storeVars
    /\ UNCHANGED history

Ascending == [i \in 1..CondPartitions |-> i - 1]

\* linda_space_close, alone or as the first part of delete_linda_space: only the
\* first one broadcasts.
Shut(t, kind) ==
    /\ closed' = TRUE
    /\ LET partitions == IF closed THEN <<>> ELSE Ascending
           next == IF partitions = <<>> THEN AfterWake(kind) ELSE "wake"
       IN  /\ wake' = [wake EXCEPT ![t] = partitions]
           /\ Goto(t, next)
           /\ call' = [call EXCEPT ![t] = IF next = "idle" THEN NoCall ELSE [kind |-> kind]]
    /\ UNCHANGED <<tx, guards, mutex, operations, workers, running, freed>>
    /\ UNCHANGED storeVars
    /\ UNCHANGED history

Close(t) ==
    /\ "close" \in Kinds
    /\ MayCall(t)
    /\ Shut(t, "close")

\* Contract: nobody is using the borrowed database, and no other client is
\* inside linda_space_close, which is not counted as an operation.
Delete(t) ==
    /\ "delete" \in Kinds
    /\ t \in Clients
    /\ MayCall(t)
    /\ \A u \in Clients : call[u].kind \notin {"put", "drop", "close"}
    /\ Shut(t, "delete")

\* Mutation: delete_linda_space that waits for the workers only.
DrainWorkersOnly(t) ==
    /\ pc[t] = "drain"
    /\ IF workers = 0 THEN freed' = TRUE /\ Goto(t, "idle")
                      ELSE UNCHANGED freed /\ Goto(t, "undrained")
    /\ UNCHANGED <<tx, guards, mutex, call, wake, closed, operations, workers, running>>
    /\ UNCHANGED storeVars
    /\ UNCHANGED history

\* The loop of delete_linda_space on worker_cond, and the end of it.
Drain(t) ==
    /\ pc[t] = "drain"
    /\ IF workers = 0 /\ operations = 0 THEN freed' = TRUE /\ Goto(t, "idle")
                                        ELSE UNCHANGED freed /\ Goto(t, "undrained")
    /\ UNCHANGED <<tx, guards, mutex, call, wake, closed, operations, workers, running>>
    /\ UNCHANGED storeVars
    /\ UNCHANGED history

\* The steps of a call under way, which its thread takes on its own.
CallStep(t) ==
    \/ OperationEnd(t) \/ Broadcast(t)
    \/ Out(t) \/ OperationFails(t) \/ Direct(t) \/ Commit(t) \/ Veto(t)
    \/ Lock(t) \/ Check(t) \/ RdMatch(t) \/ InMatch(t) \/ InNoMatch(t) \/ MatchFails(t)
    \/ Wait(t) \/ Late(t) \/ Rdp(t) \/ Inp(t) \/ GuardBegin(t) \/ GuardEnd(t)
    \/ Spawn(t) \/ Drain(t)

\* What the application, a worker's function, the clock or the scheduler decides.
Environment(t) ==
    \/ OperationBegin(t) \/ DirectBegin(t) \/ Eval(t) \/ Close(t) \/ Delete(t)
    \/ WorkerEnd(t) \/ Spurious(t) \/ Timeout(t)

\* Everything has been returned from and nobody may call any more.
Finished ==
    /\ freed
    /\ \A t \in Threads : pc[t] = "idle"
    /\ UNCHANGED vars

Next == Finished \/ \E t \in Threads : CallStep(t) \/ Environment(t)

Spec == Init /\ [][Next]_vars

\* A thread inside a call runs; the functions of the workers return; the
\* application closes the guards it opened.
FairSpec ==
    /\ Spec
    /\ \A t \in Threads : WF_vars(CallStep(t))
    /\ \A w \in Workers : WF_vars(WorkerEnd(w))

-----------------------------------------------------------------------------
(* Properties *)

\* linda_out calls under way, that have added their occurrence.
Adding(x) ==
    Cardinality({t \in Threads :
        pc[t] = "commit" /\ call[t] = [kind |-> "out", tuple |-> x]})

\* No tuple is lost, and none is handed out twice but by a linda_in whose removal
\* failed: the occurrences in the space are the ones put there by linda_out calls
\* that succeeded, or whose transaction is open, less the ones that in and inp
\* returned, and the ones that a failed removal left behind.  The overlay of
\* linda_consume_one and linda_out is not undone by a rollback, so every path has
\* to keep the sum.
Conservation ==
    \A x \in Tuples \ DirectTuples : Occurrences(x) = balance[x] + kept[x] + Adding(x)

\* What linda.h:60 and :69 say: linda_in reads and consumes, and equal tuples are
\* distinct consumable occurrences.  There are never more occurrences in the
\* space than calls have put there and not taken.
InConsumes ==
    \A x \in Tuples \ DirectTuples : Occurrences(x) <= balance[x] + Adding(x)

\* The partitions that a thread has still to broadcast.
Pending(t) ==
    LET left == IF pc[t] = "commit" THEN Observed \o Signalled(call[t]) ELSE wake[t]
    IN  {left[i] : i \in DOMAIN left}

\* No wake-up is lost between the check and pthread_cond_wait: while a tuple
\* matches a sleeping rd or in, or the space is closed, some thread still has to
\* broadcast on the sleeper's condition variable.
NoLostWakeup ==
    \A t \in Threads :
        pc[t] = "asleep" /\ (closed \/ Matches(t) # {})
            => \E u \in Threads : Partition(t) \in Pending(u)

\* t cannot go on before u releases a lock.
WaitsFor(t, u) ==
    \/ pc[t] \in {"lock", "woken", "late"} /\ mutex[Partition(t)] = u
    \/ pc[t] = "wake" /\ mutex[Head(wake[t])] = u
    \/ pc[t] \in {"out", "direct", "inp", "match", "rdp", "guard"} /\ tx = u
    \/ /\ pc[t] \in {"out", "direct", "inp"} \/ (pc[t] = "match" /\ call[t].kind = "in")
       /\ u \in guards

\* The partition mutexes and the write lock are never waited for in a circle,
\* although linda_in_wait takes the write lock inside a partition's mutex and
\* the commit observer a partition's mutex after the write lock.
NoLockCycle ==
    \A S \in (SUBSET Threads) \ {{}} : \E t \in S : \A u \in S : ~ WaitsFor(t, u)

\* delete_linda_space frees the space when no thread is inside a call on it and
\* no worker runs, in whatever order they left.
NoUseAfterFree ==
    freed => running = {} /\ \A t \in Threads : pc[t] = "idle" /\ t \notin guards

\* Every call of a space that is closed returns, the blocked ones included.
ClosedReturns ==
    \A t \in Threads : closed /\ pc[t] # "idle" ~> pc[t] = "idle"

\* delete_linda_space returns: it misses no broadcast of worker_cond.
DeleteReturns == Deleting ~> freed

-----------------------------------------------------------------------------
(* The inductive invariant that LindaProofs.tla proves *)

OperationKinds == {"out", "in", "rd", "inp", "rdp", "guard"}

\* Each location belongs to some calls, and carries what the call was given.
CallsFit ==
    \A t \in Threads :
        /\ pc[t] = "out" => call[t].kind = "out"
        /\ pc[t] \in {"lock", "check", "match", "wait", "asleep", "woken", "late"}
              => call[t].kind \in {"in", "rd"} /\ call[t].pattern \in Patterns
        /\ pc[t] = "inp" => call[t].kind = "inp" /\ call[t].pattern \in Patterns
        /\ pc[t] = "rdp" => call[t].kind = "rdp"
        /\ pc[t] = "direct" => call[t].kind \in {"put", "drop"}
        /\ pc[t] = "commit" => call[t].kind \in {"out", "in", "inp", "put", "drop"}
        /\ pc[t] = "wake"
              => call[t].kind \in {"out", "in", "inp", "put", "drop", "close", "delete"}
        /\ pc[t] \in {"guard", "reading"} => call[t].kind = "guard"
        /\ pc[t] = "spawn" => call[t].kind = "eval"
        /\ pc[t] \in {"drain", "undrained"} => call[t].kind = "delete"
        /\ pc[t] = "end" => call[t].kind \in OperationKinds
        /\ pc[t] = "idle" => call[t].kind = "none" \/ (call[t].kind = "delete" /\ freed)
        /\ call[t].kind = "out" => call[t] \in [kind : {"out"}, tuple : Tuples]
        /\ call[t].kind \in {"put", "drop"} => call[t].tuple \in DirectTuples

\* Who holds the write lock, the guards and the mutexes, and which thread has
\* partitions left to broadcast, shows in the locations.
TxFits ==
    /\ \A t \in Threads : tx = t <=> pc[t] = "commit"
    /\ guards = {t \in Threads : pc[t] = "reading"}
    /\ guards # {} => tx = NoThread

MutexesFit ==
    \A p \in Partitions, t \in Threads :
        mutex[p] = t <=> pc[t] \in {"check", "match", "wait"} /\ Partition(t) = p

WakesFit == \A t \in Threads : wake[t] # <<>> <=> pc[t] = "wake"

\* The journal of the open transaction says what its call did.
UndoFits ==
    /\ undo # NoUndo => tx \in Threads
    /\ undo # NoUndo =>
          \/ call[tx].kind \in {"out", "put"} /\ undo = <<"add", call[tx].tuple>>
          \/ call[tx].kind = "drop" /\ undo = <<"remove", call[tx].tuple>>
          \/ call[tx].kind \in {"in", "inp"} /\ undo[1] = "remove"
    /\ undo # NoUndo /\ call[tx].kind \in {"out", "in", "inp"} => count[undo[2]] = 0
    /\ undo # NoUndo /\ undo[1] = "add" => undo[2] \in asserted
    /\ undo # NoUndo /\ undo[1] = "remove" => undo[2] \notin asserted

\* A tuple that was asserted when the open transaction began.
Settled(x) == (x \in asserted /\ undo # <<"add", x>>) \/ undo = <<"remove", x>>

Woken(p) == \E u \in Threads : \E i \in DOMAIN wake[u] : wake[u][i] = p

\* A thread that has looked for a tuple and is about to sleep, or sleeps, looked
\* when none was there or will be woken by a broadcast that is under way; so
\* too a thread that has found the space open.
WakeupsUnderWay ==
    \A t \in Threads :
        /\ pc[t] \in {"wait", "asleep"} =>
              \A x \in call[t].pattern.tuples : Settled(x) => Woken(Partition(t))
        /\ pc[t] \in {"match", "wait", "asleep"} /\ closed => Woken(Partition(t))

Operating == {t \in Threads : call[t].kind \in OperationKinds}
Spawning == {t \in Threads : pc[t] = "spawn"}

\* active_operations and active_workers count what they should, and while the
\* space is being deleted no client is in a call that neither counts.
LifeFits ==
    /\ IsFiniteSet(Operating) /\ operations = Cardinality(Operating)
    /\ IsFiniteSet(Spawning) /\ IsFiniteSet(running)
    /\ workers = Cardinality(running) + Cardinality(Spawning)
    /\ \A w \in Workers : w \notin running => call[w].kind = "none"
    /\ \A t \in Threads : call[t].kind = "delete" =>
          /\ t \in Clients /\ closed
          /\ \A u \in Clients \ {t} : call[u].kind \notin {"put", "drop", "close", "delete"}
    /\ freed => Deleting

IInv ==
    /\ TypeOK /\ CallsFit /\ TxFits /\ MutexesFit /\ WakesFit /\ UndoFits /\ LifeFits
    /\ Conservation /\ NoUseAfterFree
=============================================================================
