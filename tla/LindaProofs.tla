---------------------------- MODULE LindaProofs ----------------------------
(***************************************************************************)
(* For any threads, tuples, partitions and patterns: IInv is an invariant  *)
(* of the tuple space, so that no tuple is lost, no wake-up is missed, no  *)
(* locks are waited for in a circle and nothing is used after it is freed. *)
(***************************************************************************)
EXTENDS Linda, FiniteSetTheorems, TLAPS

USE LindaAssumption

LEMMA OperationFacts ==
    ASSUME NEW c \in Operations
    PROVE  /\ c \in Calls
           /\ c.kind \in OperationKinds
           /\ Entry(c) \in {"out", "lock", "inp", "rdp", "guard"}
           /\ c.kind = "out" => c \in [kind : {"out"}, tuple : Tuples]
           /\ c.kind \in {"in", "rd", "inp", "rdp"} => c.pattern \in Patterns
           /\ c.kind = "out" => Entry(c) = "out"
           /\ c.kind \in {"in", "rd"} => Entry(c) = "lock"
           /\ c.kind = "inp" => Entry(c) = "inp"
           /\ c.kind = "rdp" => Entry(c) = "rdp"
           /\ c.kind = "guard" => Entry(c) = "guard"
<1>1. c \in Calls
  BY DEF Calls
<1>2. CASE c \in [kind : {"out"} \intersect Kinds, tuple : Tuples]
  BY <1>1, <1>2 DEF Entry, OperationKinds
<1>3. CASE c \in [kind : {"in", "rd"} \intersect Kinds, pattern : Patterns, timed : BOOLEAN]
  BY <1>1, <1>3 DEF Entry, OperationKinds
<1>4. CASE c \in [kind : {"inp", "rdp"} \intersect Kinds, pattern : Patterns]
  BY <1>1, <1>4 DEF Entry, OperationKinds
<1>5. CASE c \in [kind : {"guard"} \intersect Kinds]
  BY <1>1, <1>5 DEF Entry, OperationKinds
<1> QED
  BY <1>2, <1>3, <1>4, <1>5 DEF Operations

LEMMA DirectFacts ==
    ASSUME NEW c \in DirectCalls
    PROVE  c \in Calls /\ c.kind \in {"put", "drop"} /\ c.tuple \in DirectTuples
BY DEF DirectCalls, Calls

LEMMA PlainCall ==
    ASSUME NEW k \in {"close", "delete", "eval"}, k \in Kinds
    PROVE  [kind |-> k] \in Calls /\ [kind |-> k].kind = k
BY DEF Calls

LEMMA AfterWakeFacts ==
    ASSUME NEW k
    PROVE  /\ k = "delete" => AfterWake(k) = "drain"
           /\ k \in {"close", "put", "drop"} => AfterWake(k) = "idle"
           /\ k \notin {"delete", "close", "put", "drop"} => AfterWake(k) = "end"
BY DEF AfterWake

LEMMA NoThreadFact == NoThread \notin Threads
BY DEF Threads

LEMMA LocationFacts ==
    /\ "idle" \in Locations /\ "out" \in Locations /\ "commit" \in Locations
    /\ "wake" \in Locations /\ "lock" \in Locations /\ "check" \in Locations
    /\ "match" \in Locations /\ "wait" \in Locations /\ "asleep" \in Locations
    /\ "woken" \in Locations /\ "late" \in Locations /\ "inp" \in Locations
    /\ "rdp" \in Locations /\ "direct" \in Locations /\ "guard" \in Locations
    /\ "reading" \in Locations /\ "drain" \in Locations /\ "undrained" \in Locations
    /\ "spawn" \in Locations /\ "end" \in Locations
BY DEF Locations

\* Ascending goes over every condition variable.
LEMMA AscendingFacts ==
    /\ Ascending \in Seq(Partitions)
    /\ \A p \in Partitions : \E i \in DOMAIN Ascending : Ascending[i] = p
<1>1. Ascending \in Seq(Partitions)
  BY DEF Ascending, Partitions
<1>2. ASSUME NEW p \in Partitions PROVE p + 1 \in DOMAIN Ascending /\ Ascending[p + 1] = p
  BY DEF Ascending, Partitions
<1> QED
  BY <1>1, <1>2

\* What is broadcast after a commit.
LEMMA BroadcastType ==
    ASSUME StoreType, NEW c, c.kind = "out" => c.tuple \in Tuples
    PROVE  Observed \o Signalled(c) \in Seq(Partitions)
<1>1. \A x \in Tuples : <<0, PartitionOf[x]>> \in Seq(Partitions)
  BY DEF Partitions
<1>2. Observed \in Seq(Partitions)
  BY <1>1 DEF Observed, StoreType, NoUndo
<1>3. Signalled(c) \in Seq(Partitions)
  BY <1>1 DEF Signalled
<1> QED
  BY <1>2, <1>3

-----------------------------------------------------------------------------
(* Which steps change what *)

LEMMA TransactionFrame ==
    ASSUME NEW t \in Threads, CallStep(t) \/ Environment(t),
           ~ Out(t), ~ Direct(t), ~ Commit(t), ~ Veto(t), ~ InMatch(t), ~ Inp(t)
    PROVE  UNCHANGED <<asserted, count, undo, tx, balance, kept>>
BY DEF CallStep, Environment, OperationEnd, WakeDrain, Broadcast, OperationFails,
     Goto, Lock, Check, Unlocked, RdMatch, InNoMatch, TxFree, MatchFails, Wait, Late,
     Rdp, GuardBegin, GuardEnd, Spawn, Drain, OperationBegin, MayCall, DirectBegin,
     Eval, Close, Shut, Delete, WorkerEnd, Spurious, Timeout, storeVars, lifeVars, history

LEMMA MutexFrame ==
    ASSUME NEW t \in Threads, CallStep(t) \/ Environment(t),
           ~ Lock(t), ~ Check(t), ~ RdMatch(t), ~ InMatch(t), ~ MatchFails(t), ~ Wait(t)
    PROVE  UNCHANGED mutex
BY DEF CallStep, Environment, OperationEnd, WakeDrain, Broadcast, Out, Goto, TxFree,
     OperationFails, Direct, Commit, StartWaking, Credit, Veto, InNoMatch, Late, Rdp,
     Inp, ConsumeOne, GuardBegin, GuardEnd, Spawn, Drain, OperationBegin, MayCall,
     DirectBegin, Eval, Close, Shut, Delete, WorkerEnd, Spurious, Timeout, storeVars,
     lifeVars

LEMMA WakeFrame ==
    ASSUME NEW t \in Threads, CallStep(t) \/ Environment(t),
           ~ Broadcast(t), ~ Commit(t), ~ Close(t), ~ Delete(t)
    PROVE  UNCHANGED wake
BY DEF CallStep, Environment, OperationEnd, WakeDrain, Out, Goto, TxFree,
     OperationFails, Direct, Veto, Credit, Lock, Check, Unlocked, RdMatch, InMatch,
     ConsumeOne, KeepOne, InNoMatch, MatchFails, Wait, Late, Rdp, Inp, GuardBegin, GuardEnd,
     Spawn, Drain, OperationBegin, MayCall, DirectBegin, Eval, WorkerEnd, Spurious,
     Timeout, storeVars, lifeVars

LEMMA LifeFrame ==
    ASSUME NEW t \in Threads, CallStep(t) \/ Environment(t),
           ~ OperationBegin(t), ~ OperationEnd(t), ~ Eval(t), ~ Spawn(t), ~ WorkerEnd(t), ~ Close(t), ~ Delete(t), ~ Drain(t)
    PROVE  UNCHANGED <<closed, operations, workers, running, freed>>
BY DEF CallStep, Environment, Broadcast, Out, Goto, TxFree, OperationFails, Direct,
     Commit, StartWaking, Credit, Veto, Lock, Check, Unlocked, RdMatch, InMatch,
     ConsumeOne, KeepOne, InNoMatch, MatchFails, Wait, Late, Rdp, Inp, GuardBegin, GuardEnd,
     DirectBegin, MayCall, Spurious, Timeout, storeVars, lifeVars

-----------------------------------------------------------------------------
(* Types *)

LEMMA StoreTypeStep ==
    ASSUME StoreType, ThreadType, CallsFit, TxFits, UndoFits,
           NEW t \in Threads, CallStep(t) \/ Environment(t)
    PROVE  StoreType'
<1> USE DEF StoreType, ThreadType, CallsFit, TxFits, UndoFits, NoUndo
<1>1. CASE Out(t)
  BY <1>1, NoThreadFact DEF Out, Goto, TxFree, storeVars, lifeVars
<1>2. CASE Direct(t)
  BY <1>2, NoThreadFact DEF Direct, Goto, TxFree, storeVars, lifeVars
<1>3. CASE Commit(t)
  BY <1>3, AfterWakeFacts, NoThreadFact DEF Commit, StartWaking, Goto, Credit,
     storeVars, lifeVars
<1>4. CASE Veto(t)
  BY <1>4, AfterWakeFacts, NoThreadFact DEF Veto, Goto, Credit, storeVars, lifeVars
<1>5. CASE InMatch(t)
  <2>1. PICK x \in Matches(t) : ConsumeOne(x) \/ KeepOne(x)
    BY <1>5 DEF InMatch
  <2> QED
    BY <2>1 DEF ConsumeOne, KeepOne, Matches, storeVars
<1>6. CASE Inp(t)
  <2>1. CASE Matches(t) = {}
    BY <1>6, <2>1 DEF Inp, storeVars
  <2>2. CASE Matches(t) # {}
    <3>1. PICK x \in Matches(t) : ConsumeOne(x)
      BY <1>6, <2>2 DEF Inp
    <3> QED
      BY <3>1 DEF ConsumeOne, Matches
  <2> QED
    BY <2>1, <2>2
<1>7. CASE ~ Out(t) /\ ~ Direct(t) /\ ~ Commit(t) /\ ~ Veto(t) /\ ~ InMatch(t) /\ ~ Inp(t)
  BY <1>7, TransactionFrame
<1> QED
  BY <1>1, <1>2, <1>3, <1>4, <1>5, <1>6, <1>7

LEMMA LockTypeStep ==
    ASSUME LockType,
           NEW t \in Threads, CallStep(t) \/ Environment(t)
    PROVE  LockType'
<1> USE DEF LockType
<1>1. CASE OperationEnd(t)
  BY <1>1, NoThreadFact DEF OperationEnd, WakeDrain, storeVars, lifeVars
<1>2. CASE Broadcast(t)
  BY <1>2, AfterWakeFacts, NoThreadFact DEF Broadcast, storeVars, lifeVars
<1>3. CASE Out(t)
  BY <1>3, NoThreadFact DEF Out, Goto, TxFree, storeVars, lifeVars
<1>4. CASE OperationFails(t)
  BY <1>4, NoThreadFact DEF OperationFails, Goto, storeVars, lifeVars
<1>5. CASE Direct(t)
  BY <1>5, NoThreadFact DEF Direct, Goto, TxFree, storeVars, lifeVars
<1>6. CASE Commit(t)
  BY <1>6, AfterWakeFacts, NoThreadFact DEF Commit, StartWaking, Goto, Credit,
     storeVars, lifeVars
<1>7. CASE Veto(t)
  BY <1>7, AfterWakeFacts, NoThreadFact DEF Veto, Goto, Credit, storeVars, lifeVars
<1>8. CASE Lock(t)
  BY <1>8, NoThreadFact DEF Lock, Goto, storeVars, lifeVars
<1>9. CASE Check(t)
  BY <1>9, NoThreadFact DEF Check, Goto, Unlocked, storeVars, lifeVars
<1>10. CASE RdMatch(t)
  BY <1>10, NoThreadFact DEF RdMatch, Goto, Unlocked, storeVars, lifeVars
<1>11. CASE InMatch(t)
  BY <1>11, NoThreadFact DEF InMatch, Goto, Unlocked, TxFree, ConsumeOne, KeepOne, Credit,
     storeVars, lifeVars
<1>12. CASE InNoMatch(t)
  BY <1>12, NoThreadFact DEF InNoMatch, Goto, TxFree, storeVars, lifeVars
<1>13. CASE MatchFails(t)
  BY <1>13, NoThreadFact DEF MatchFails, Goto, Unlocked, storeVars, lifeVars
<1>14. CASE Wait(t)
  BY <1>14, NoThreadFact DEF Wait, Goto, Unlocked, storeVars, lifeVars
<1>15. CASE Late(t)
  BY <1>15, NoThreadFact DEF Late, Goto, storeVars, lifeVars
<1>16. CASE Rdp(t)
  BY <1>16, NoThreadFact DEF Rdp, Goto, storeVars, lifeVars
<1>17. CASE Inp(t)
  BY <1>17, NoThreadFact DEF Inp, Goto, TxFree, ConsumeOne, Credit, storeVars, lifeVars
<1>18. CASE GuardBegin(t)
  BY <1>18, NoThreadFact DEF GuardBegin, Goto, storeVars, lifeVars
<1>19. CASE GuardEnd(t)
  BY <1>19, NoThreadFact DEF GuardEnd, Goto, storeVars, lifeVars
<1>20. CASE Spawn(t)
  BY <1>20, NoThreadFact DEF Spawn, Goto, WakeDrain, storeVars, lifeVars
<1>21. CASE Drain(t)
  BY <1>21, NoThreadFact DEF Drain, Goto, storeVars, lifeVars
<1>22. CASE OperationBegin(t)
  BY <1>22, OperationFacts, NoThreadFact DEF OperationBegin, Goto, MayCall, storeVars,
     lifeVars
<1>23. CASE DirectBegin(t)
  BY <1>23, DirectFacts, NoThreadFact DEF DirectBegin, Goto, MayCall, storeVars,
     lifeVars
<1>24. CASE Eval(t)
  BY <1>24, PlainCall, NoThreadFact DEF Eval, Goto, MayCall, storeVars, lifeVars
<1>25. CASE Close(t)
  BY <1>25, AfterWakeFacts, PlainCall, NoThreadFact DEF Close, Shut, Goto, MayCall,
     storeVars, lifeVars
<1>26. CASE Delete(t)
  BY <1>26, AfterWakeFacts, PlainCall, NoThreadFact DEF Delete, Shut, Goto, MayCall,
     storeVars, lifeVars
<1>27. CASE WorkerEnd(t)
  BY <1>27, NoThreadFact DEF WorkerEnd, WakeDrain, storeVars, lifeVars
<1>28. CASE Spurious(t)
  BY <1>28, NoThreadFact DEF Spurious, Goto, storeVars, lifeVars
<1>29. CASE Timeout(t)
  BY <1>29, NoThreadFact DEF Timeout, Goto, storeVars, lifeVars
<1> QED
  BY <1>1, <1>2, <1>3, <1>4, <1>5, <1>6, <1>7, <1>8, <1>9, <1>10, <1>11, <1>12, <1>13,
     <1>14, <1>15, <1>16, <1>17, <1>18, <1>19, <1>20, <1>21, <1>22, <1>23, <1>24, <1>25,
     <1>26, <1>27, <1>28, <1>29 DEF CallStep, Environment

LEMMA MutexTypeStep ==
    ASSUME MutexType, ThreadType, CallsFit,
           NEW t \in Threads, CallStep(t) \/ Environment(t)
    PROVE  MutexType'
<1> USE DEF MutexType, ThreadType, CallsFit, Partition
<1>1. CASE Lock(t)
  BY <1>1 DEF Lock, Goto, storeVars, lifeVars
<1>2. CASE Check(t)
  BY <1>2 DEF Check, Goto, Unlocked, storeVars, lifeVars
<1>3. CASE RdMatch(t)
  BY <1>3 DEF RdMatch, Goto, Unlocked, storeVars, lifeVars
<1>4. CASE InMatch(t)
  BY <1>4 DEF InMatch, Goto, Unlocked, TxFree, ConsumeOne, KeepOne, Credit, storeVars, lifeVars
<1>5. CASE MatchFails(t)
  BY <1>5 DEF MatchFails, Goto, Unlocked, storeVars, lifeVars
<1>6. CASE Wait(t)
  BY <1>6 DEF Wait, Goto, Unlocked, storeVars, lifeVars
<1>7. CASE ~ Lock(t) /\ ~ Check(t) /\ ~ RdMatch(t) /\ ~ InMatch(t) /\ ~ MatchFails(t) /\ ~ Wait(t)
  BY <1>7, MutexFrame
<1> QED
  BY <1>1, <1>2, <1>3, <1>4, <1>5, <1>6, <1>7

LEMMA ThreadTypeStep ==
    ASSUME ThreadType, CallsFit, WakesFit,
           NEW t \in Threads, CallStep(t) \/ Environment(t)
    PROVE  ThreadType'
<1> USE DEF ThreadType, CallsFit, WakesFit
<1>1. CASE OperationEnd(t)
  BY <1>1, LocationFacts DEF OperationEnd, WakeDrain, storeVars, lifeVars
<1>2. CASE Broadcast(t)
  BY <1>2, AfterWakeFacts, LocationFacts DEF Broadcast, storeVars, lifeVars
<1>3. CASE Out(t)
  BY <1>3, LocationFacts DEF Out, Goto, TxFree, storeVars, lifeVars
<1>4. CASE OperationFails(t)
  BY <1>4, LocationFacts DEF OperationFails, Goto, storeVars, lifeVars
<1>5. CASE Direct(t)
  BY <1>5, LocationFacts DEF Direct, Goto, TxFree, storeVars, lifeVars
<1>6. CASE Commit(t)
  BY <1>6, AfterWakeFacts, LocationFacts DEF Commit, StartWaking, Goto, Credit,
     storeVars, lifeVars
<1>7. CASE Veto(t)
  BY <1>7, AfterWakeFacts, LocationFacts DEF Veto, Goto, Credit, storeVars, lifeVars
<1>8. CASE Lock(t)
  BY <1>8, LocationFacts DEF Lock, Goto, storeVars, lifeVars
<1>9. CASE Check(t)
  <2>1. call' = call /\ (Goto(t, "end") \/ Goto(t, "match"))
    BY <1>9 DEF Check
  <2> QED
    BY <2>1, LocationFacts DEF Goto
<1>10. CASE RdMatch(t)
  BY <1>10, LocationFacts DEF RdMatch, Goto, Unlocked, storeVars, lifeVars
<1>11. CASE InMatch(t)
  BY <1>11, LocationFacts DEF InMatch, Goto, Unlocked, TxFree, ConsumeOne, KeepOne, Credit,
     storeVars, lifeVars
<1>12. CASE InNoMatch(t)
  BY <1>12, LocationFacts DEF InNoMatch, Goto, TxFree, storeVars, lifeVars
<1>13. CASE MatchFails(t)
  BY <1>13, LocationFacts DEF MatchFails, Goto, Unlocked, storeVars, lifeVars
<1>14. CASE Wait(t)
  BY <1>14, LocationFacts DEF Wait, Goto, Unlocked, storeVars, lifeVars
<1>15. CASE Late(t)
  BY <1>15, LocationFacts DEF Late, Goto, storeVars, lifeVars
<1>16. CASE Rdp(t)
  BY <1>16, LocationFacts DEF Rdp, Goto, storeVars, lifeVars
<1>17. CASE Inp(t)
  BY <1>17, LocationFacts DEF Inp, Goto, TxFree, ConsumeOne, Credit, storeVars, lifeVars
<1>18. CASE GuardBegin(t)
  BY <1>18, LocationFacts DEF GuardBegin, Goto, storeVars, lifeVars
<1>19. CASE GuardEnd(t)
  BY <1>19, LocationFacts DEF GuardEnd, Goto, storeVars, lifeVars
<1>20. CASE Spawn(t)
  BY <1>20, LocationFacts DEF Spawn, Goto, WakeDrain, storeVars, lifeVars
<1>21. CASE Drain(t)
  <2>1. call' = call /\ (Goto(t, "idle") \/ Goto(t, "undrained"))
    BY <1>21 DEF Drain
  <2> QED
    BY <2>1, LocationFacts DEF Goto
<1>22. CASE OperationBegin(t)
  BY <1>22, OperationFacts, LocationFacts DEF OperationBegin, Goto, MayCall, storeVars,
     lifeVars
<1>23. CASE DirectBegin(t)
  BY <1>23, DirectFacts, LocationFacts DEF DirectBegin, Goto, MayCall, storeVars,
     lifeVars
<1>24. CASE Eval(t)
  BY <1>24, PlainCall, LocationFacts DEF Eval, Goto, MayCall, storeVars, lifeVars
<1>25. CASE Close(t)
  BY <1>25, AfterWakeFacts, PlainCall, LocationFacts DEF Close, Shut, Goto, MayCall,
     storeVars, lifeVars
<1>26. CASE Delete(t)
  BY <1>26, AfterWakeFacts, PlainCall, LocationFacts DEF Delete, Shut, Goto, MayCall,
     storeVars, lifeVars
<1>27. CASE WorkerEnd(t)
  BY <1>27, LocationFacts DEF WorkerEnd, WakeDrain, storeVars, lifeVars
<1>28. CASE Spurious(t)
  BY <1>28, LocationFacts DEF Spurious, Goto, storeVars, lifeVars
<1>29. CASE Timeout(t)
  BY <1>29, LocationFacts DEF Timeout, Goto, storeVars, lifeVars
<1> QED
  BY <1>1, <1>2, <1>3, <1>4, <1>5, <1>6, <1>7, <1>8, <1>9, <1>10, <1>11, <1>12, <1>13,
     <1>14, <1>15, <1>16, <1>17, <1>18, <1>19, <1>20, <1>21, <1>22, <1>23, <1>24, <1>25,
     <1>26, <1>27, <1>28, <1>29 DEF CallStep, Environment

LEMMA WakeTypeStep ==
    ASSUME ThreadType, WakeType, StoreType, CallsFit, WakesFit,
           NEW t \in Threads, CallStep(t) \/ Environment(t)
    PROVE  WakeType'
<1>1. CASE Broadcast(t)
  BY <1>1, AfterWakeFacts DEF Broadcast, WakesFit, WakeType, storeVars, lifeVars
<1>2. CASE Commit(t)
  <2>1. call[t].kind = "out" => call[t].tuple \in Tuples
    BY DEF ThreadType, CallsFit
  <2> QED
    BY <1>2, <2>1, BroadcastType DEF Commit, StartWaking, WakeType
<1>3. CASE Close(t)
  BY <1>3, AfterWakeFacts, PlainCall, AscendingFacts DEF Close, Shut, Goto, MayCall,
     WakeType, storeVars, lifeVars
<1>4. CASE Delete(t)
  BY <1>4, AfterWakeFacts, PlainCall, AscendingFacts DEF Delete, Shut, Goto, MayCall,
     WakeType, storeVars, lifeVars
<1>5. CASE ~ Broadcast(t) /\ ~ Commit(t) /\ ~ Close(t) /\ ~ Delete(t)
  BY <1>5, WakeFrame DEF WakeType
<1> QED
  BY <1>1, <1>2, <1>3, <1>4, <1>5

-----------------------------------------------------------------------------
(* Calls, locks and the journal *)

LEMMA CallsStep ==
    ASSUME ThreadType, CallsFit, WakesFit, ~ freed,
           NEW t \in Threads, CallStep(t) \/ Environment(t)
    PROVE  CallsFit'
<1> USE DEF ThreadType, CallsFit, WakesFit, NoCall
<1>1. CASE OperationEnd(t)
  BY <1>1 DEF OperationEnd, WakeDrain, storeVars, lifeVars
<1>2. CASE Broadcast(t)
  BY <1>2, AfterWakeFacts DEF Broadcast, OperationKinds, storeVars, lifeVars
<1>3. CASE Out(t)
  BY <1>3 DEF Out, Goto, TxFree, storeVars, lifeVars
<1>4. CASE OperationFails(t)
  BY <1>4 DEF OperationFails, Goto, OperationKinds, storeVars, lifeVars
<1>5. CASE Direct(t)
  BY <1>5 DEF Direct, Goto, TxFree, storeVars, lifeVars
<1>6. CASE Commit(t)
  BY <1>6, AfterWakeFacts DEF Commit, StartWaking, Goto, Credit, OperationKinds,
     storeVars, lifeVars
<1>7. CASE Veto(t)
  BY <1>7, AfterWakeFacts DEF Veto, Goto, Credit, OperationKinds, storeVars, lifeVars
<1>8. CASE Lock(t)
  BY <1>8 DEF Lock, Goto, storeVars, lifeVars
<1>9. CASE Check(t)
  BY <1>9 DEF Check, Goto, Unlocked, OperationKinds, storeVars, lifeVars
<1>10. CASE RdMatch(t)
  BY <1>10 DEF RdMatch, Goto, Unlocked, OperationKinds, storeVars, lifeVars
<1>11. CASE InMatch(t)
  BY <1>11 DEF InMatch, Goto, Unlocked, TxFree, ConsumeOne, KeepOne, Credit, OperationKinds,
     storeVars, lifeVars
<1>12. CASE InNoMatch(t)
  BY <1>12 DEF InNoMatch, Goto, TxFree, storeVars, lifeVars
<1>13. CASE MatchFails(t)
  BY <1>13 DEF MatchFails, Goto, Unlocked, OperationKinds, storeVars, lifeVars
<1>14. CASE Wait(t)
  BY <1>14 DEF Wait, Goto, Unlocked, storeVars, lifeVars
<1>15. CASE Late(t)
  BY <1>15 DEF Late, Goto, OperationKinds, storeVars, lifeVars
<1>16. CASE Rdp(t)
  BY <1>16 DEF Rdp, Goto, OperationKinds, storeVars, lifeVars
<1>17. CASE Inp(t)
  BY <1>17 DEF Inp, Goto, TxFree, ConsumeOne, Credit, storeVars, lifeVars
<1>18. CASE GuardBegin(t)
  BY <1>18 DEF GuardBegin, Goto, storeVars, lifeVars
<1>19. CASE GuardEnd(t)
  BY <1>19 DEF GuardEnd, Goto, OperationKinds, storeVars, lifeVars
<1>20. CASE Spawn(t)
  BY <1>20 DEF Spawn, Goto, WakeDrain, storeVars, lifeVars
<1>21. CASE Drain(t)
  BY <1>21 DEF Drain, Goto, storeVars, lifeVars
<1>22. CASE OperationBegin(t)
  BY <1>22, OperationFacts DEF OperationBegin, Goto, MayCall, OperationKinds, storeVars,
     lifeVars
<1>23. CASE DirectBegin(t)
  BY <1>23, DirectFacts DEF DirectBegin, Goto, MayCall, storeVars, lifeVars
<1>24. CASE Eval(t)
  BY <1>24, PlainCall DEF Eval, Goto, MayCall, storeVars, lifeVars
<1>25. CASE Close(t)
  BY <1>25, AfterWakeFacts, PlainCall DEF Close, Shut, Goto, MayCall, storeVars,
     lifeVars
<1>26. CASE Delete(t)
  BY <1>26, AfterWakeFacts, PlainCall DEF Delete, Shut, Goto, MayCall, storeVars,
     lifeVars
<1>27. CASE WorkerEnd(t)
  BY <1>27 DEF WorkerEnd, WakeDrain, storeVars, lifeVars
<1>28. CASE Spurious(t)
  BY <1>28 DEF Spurious, Goto, storeVars, lifeVars
<1>29. CASE Timeout(t)
  BY <1>29 DEF Timeout, Goto, storeVars, lifeVars
<1> QED
  BY <1>1, <1>2, <1>3, <1>4, <1>5, <1>6, <1>7, <1>8, <1>9, <1>10, <1>11, <1>12, <1>13,
     <1>14, <1>15, <1>16, <1>17, <1>18, <1>19, <1>20, <1>21, <1>22, <1>23, <1>24, <1>25,
     <1>26, <1>27, <1>28, <1>29 DEF CallStep, Environment

\* The end of an operation moves its thread to idle, and wakes threads that drain.
LEMMA OperationEndPlaces ==
    ASSUME ThreadType, NEW t \in Threads, OperationEnd(t)
    PROVE  \A u \in Threads : \/ pc'[u] = pc[u]
                              \/ pc'[u] \in {"idle", "drain"} /\ pc[u] \in {"end", "undrained"}
<1>1. pc[t] = "end" /\ pc \in [Threads -> Locations]
  BY DEF OperationEnd, ThreadType
<1>2. [pc EXCEPT ![t] = "idle"] \in [Threads -> Locations]
  BY <1>1, LocationFacts
<1>3. \A u \in Threads : [pc EXCEPT ![t] = "idle"][u] = IF u = t THEN "idle" ELSE pc[u]
  BY <1>1
<1>4. CASE operations = 1
  <2>1. \A u \in Threads : pc'[u] = IF [pc EXCEPT ![t] = "idle"][u] = "undrained" THEN "drain"
                                    ELSE [pc EXCEPT ![t] = "idle"][u]
    BY <1>4 DEF OperationEnd, WakeDrain
  <2> QED
    BY <1>1, <1>3, <2>1
<1>5. CASE operations # 1
  BY <1>1, <1>3, <1>5 DEF OperationEnd
<1> QED
  BY <1>4, <1>5

LEMMA TxStep ==
    ASSUME ThreadType, LockType, CallsFit, TxFits, WakesFit, ~ freed,
           NEW t \in Threads, CallStep(t) \/ Environment(t)
    PROVE  TxFits'
<1>1. CASE OperationEnd(t)
  <2>1. tx' = tx /\ guards' = guards
    BY <1>1 DEF OperationEnd
  <2>2. \A u \in Threads : /\ pc'[u] = "commit" <=> pc[u] = "commit"
                           /\ pc'[u] = "reading" <=> pc[u] = "reading"
    BY <1>1, OperationEndPlaces
  <2> QED
    BY <2>1, <2>2 DEF TxFits
<1> USE DEF ThreadType, LockType, CallsFit, TxFits, WakesFit, NoCall
<1>2. CASE Broadcast(t)
  BY <1>2, AfterWakeFacts, NoThreadFact DEF Broadcast, storeVars, lifeVars
<1>3. CASE Out(t)
  BY <1>3, NoThreadFact DEF Out, Goto, TxFree, storeVars, lifeVars
<1>4. CASE OperationFails(t)
  BY <1>4, NoThreadFact DEF OperationFails, Goto, storeVars, lifeVars
<1>5. CASE Direct(t)
  BY <1>5, NoThreadFact DEF Direct, Goto, TxFree, storeVars, lifeVars
<1>6. CASE Commit(t)
  BY <1>6, AfterWakeFacts, NoThreadFact DEF Commit, StartWaking, Goto, Credit,
     storeVars, lifeVars
<1>7. CASE Veto(t)
  BY <1>7, AfterWakeFacts, NoThreadFact DEF Veto, Goto, Credit, storeVars, lifeVars
<1>8. CASE Lock(t)
  BY <1>8, NoThreadFact DEF Lock, Goto, storeVars, lifeVars
<1>9. CASE Check(t)
  BY <1>9, NoThreadFact DEF Check, Goto, Unlocked, storeVars, lifeVars
<1>10. CASE RdMatch(t)
  BY <1>10, NoThreadFact DEF RdMatch, Goto, Unlocked, storeVars, lifeVars
<1>11. CASE InMatch(t)
  BY <1>11, NoThreadFact DEF InMatch, Goto, Unlocked, TxFree, ConsumeOne, KeepOne, Credit,
     storeVars, lifeVars
<1>12. CASE InNoMatch(t)
  BY <1>12, NoThreadFact DEF InNoMatch, Goto, TxFree, storeVars, lifeVars
<1>13. CASE MatchFails(t)
  BY <1>13, NoThreadFact DEF MatchFails, Goto, Unlocked, storeVars, lifeVars
<1>14. CASE Wait(t)
  BY <1>14, NoThreadFact DEF Wait, Goto, Unlocked, storeVars, lifeVars
<1>15. CASE Late(t)
  BY <1>15, NoThreadFact DEF Late, Goto, storeVars, lifeVars
<1>16. CASE Rdp(t)
  BY <1>16, NoThreadFact DEF Rdp, Goto, storeVars, lifeVars
<1>17. CASE Inp(t)
  BY <1>17, NoThreadFact DEF Inp, Goto, TxFree, ConsumeOne, Credit, storeVars, lifeVars
<1>18. CASE GuardBegin(t)
  BY <1>18, NoThreadFact DEF GuardBegin, Goto, storeVars, lifeVars
<1>19. CASE GuardEnd(t)
  BY <1>19, NoThreadFact DEF GuardEnd, Goto, storeVars, lifeVars
<1>20. CASE Spawn(t)
  BY <1>20, NoThreadFact DEF Spawn, Goto, WakeDrain, storeVars, lifeVars
<1>21. CASE Drain(t)
  BY <1>21, NoThreadFact DEF Drain, Goto, storeVars, lifeVars
<1>22. CASE OperationBegin(t)
  BY <1>22, OperationFacts, NoThreadFact DEF OperationBegin, Goto, MayCall, storeVars,
     lifeVars
<1>23. CASE DirectBegin(t)
  BY <1>23, DirectFacts, NoThreadFact DEF DirectBegin, Goto, MayCall, storeVars,
     lifeVars
<1>24. CASE Eval(t)
  BY <1>24, PlainCall, NoThreadFact DEF Eval, Goto, MayCall, storeVars, lifeVars
<1>25. CASE Close(t)
  BY <1>25, AfterWakeFacts, PlainCall, NoThreadFact DEF Close, Shut, Goto, MayCall,
     storeVars, lifeVars
<1>26. CASE Delete(t)
  BY <1>26, AfterWakeFacts, PlainCall, NoThreadFact DEF Delete, Shut, Goto, MayCall,
     storeVars, lifeVars
<1>27. CASE WorkerEnd(t)
  BY <1>27, NoThreadFact DEF WorkerEnd, WakeDrain, storeVars, lifeVars
<1>28. CASE Spurious(t)
  BY <1>28, NoThreadFact DEF Spurious, Goto, storeVars, lifeVars
<1>29. CASE Timeout(t)
  BY <1>29, NoThreadFact DEF Timeout, Goto, storeVars, lifeVars
<1> QED
  BY <1>1, <1>2, <1>3, <1>4, <1>5, <1>6, <1>7, <1>8, <1>9, <1>10, <1>11, <1>12, <1>13,
     <1>14, <1>15, <1>16, <1>17, <1>18, <1>19, <1>20, <1>21, <1>22, <1>23, <1>24, <1>25,
     <1>26, <1>27, <1>28, <1>29 DEF CallStep, Environment

LEMMA MutexesStep ==
    ASSUME ThreadType, MutexType, CallsFit, MutexesFit, WakesFit, ~ freed,
           NEW t \in Threads, CallStep(t) \/ Environment(t)
    PROVE  MutexesFit'
<1> USE DEF ThreadType, MutexType, CallsFit, MutexesFit, WakesFit, Partition, NoCall
<1>1. CASE OperationEnd(t)
  BY <1>1, NoThreadFact DEF OperationEnd, WakeDrain, storeVars, lifeVars
<1>2. CASE Broadcast(t)
  BY <1>2, AfterWakeFacts, NoThreadFact DEF Broadcast, storeVars, lifeVars
<1>3. CASE Out(t)
  BY <1>3, NoThreadFact DEF Out, Goto, TxFree, storeVars, lifeVars
<1>4. CASE OperationFails(t)
  BY <1>4, NoThreadFact DEF OperationFails, Goto, storeVars, lifeVars
<1>5. CASE Direct(t)
  BY <1>5, NoThreadFact DEF Direct, Goto, TxFree, storeVars, lifeVars
<1>6. CASE Commit(t)
  BY <1>6, AfterWakeFacts, NoThreadFact DEF Commit, StartWaking, Goto, Credit,
     storeVars, lifeVars
<1>7. CASE Veto(t)
  BY <1>7, AfterWakeFacts, NoThreadFact DEF Veto, Goto, Credit, storeVars, lifeVars
<1>8. CASE Lock(t)
  BY <1>8, NoThreadFact DEF Lock, Goto, storeVars, lifeVars
<1>9. CASE Check(t)
  BY <1>9, NoThreadFact DEF Check, Goto, Unlocked, storeVars, lifeVars
<1>10. CASE RdMatch(t)
  BY <1>10, NoThreadFact DEF RdMatch, Goto, Unlocked, storeVars, lifeVars
<1>11. CASE InMatch(t)
  BY <1>11, NoThreadFact DEF InMatch, Goto, Unlocked, TxFree, ConsumeOne, KeepOne, Credit,
     storeVars, lifeVars
<1>12. CASE InNoMatch(t)
  BY <1>12, NoThreadFact DEF InNoMatch, Goto, TxFree, storeVars, lifeVars
<1>13. CASE MatchFails(t)
  BY <1>13, NoThreadFact DEF MatchFails, Goto, Unlocked, storeVars, lifeVars
<1>14. CASE Wait(t)
  BY <1>14, NoThreadFact DEF Wait, Goto, Unlocked, storeVars, lifeVars
<1>15. CASE Late(t)
  BY <1>15, NoThreadFact DEF Late, Goto, storeVars, lifeVars
<1>16. CASE Rdp(t)
  BY <1>16, NoThreadFact DEF Rdp, Goto, storeVars, lifeVars
<1>17. CASE Inp(t)
  BY <1>17, NoThreadFact DEF Inp, Goto, TxFree, ConsumeOne, Credit, storeVars, lifeVars
<1>18. CASE GuardBegin(t)
  BY <1>18, NoThreadFact DEF GuardBegin, Goto, storeVars, lifeVars
<1>19. CASE GuardEnd(t)
  BY <1>19, NoThreadFact DEF GuardEnd, Goto, storeVars, lifeVars
<1>20. CASE Spawn(t)
  BY <1>20, NoThreadFact DEF Spawn, Goto, WakeDrain, storeVars, lifeVars
<1>21. CASE Drain(t)
  BY <1>21, NoThreadFact DEF Drain, Goto, storeVars, lifeVars
<1>22. CASE OperationBegin(t)
  BY <1>22, OperationFacts, NoThreadFact DEF OperationBegin, Goto, MayCall, storeVars,
     lifeVars
<1>23. CASE DirectBegin(t)
  BY <1>23, DirectFacts, NoThreadFact DEF DirectBegin, Goto, MayCall, storeVars,
     lifeVars
<1>24. CASE Eval(t)
  BY <1>24, PlainCall, NoThreadFact DEF Eval, Goto, MayCall, storeVars, lifeVars
<1>25. CASE Close(t)
  BY <1>25, AfterWakeFacts, PlainCall, NoThreadFact DEF Close, Shut, Goto, MayCall,
     storeVars, lifeVars
<1>26. CASE Delete(t)
  BY <1>26, AfterWakeFacts, PlainCall, NoThreadFact DEF Delete, Shut, Goto, MayCall,
     storeVars, lifeVars
<1>27. CASE WorkerEnd(t)
  BY <1>27, NoThreadFact DEF WorkerEnd, WakeDrain, storeVars, lifeVars
<1>28. CASE Spurious(t)
  BY <1>28, NoThreadFact DEF Spurious, Goto, storeVars, lifeVars
<1>29. CASE Timeout(t)
  BY <1>29, NoThreadFact DEF Timeout, Goto, storeVars, lifeVars
<1> QED
  BY <1>1, <1>2, <1>3, <1>4, <1>5, <1>6, <1>7, <1>8, <1>9, <1>10, <1>11, <1>12, <1>13,
     <1>14, <1>15, <1>16, <1>17, <1>18, <1>19, <1>20, <1>21, <1>22, <1>23, <1>24, <1>25,
     <1>26, <1>27, <1>28, <1>29 DEF CallStep, Environment

\* A thread that has nobody to wake goes on to something else than waking.
LEMMA AwakeGoes ==
    ASSUME ThreadType, WakesFit, NEW t \in Threads, pc[t] # "wake", NEW k, k # "wake", Goto(t, k), wake' = wake
    PROVE  WakesFit'
BY DEF ThreadType, WakesFit, Goto

LEMMA WakesStep ==
    ASSUME ThreadType, WakeType, CallsFit, WakesFit, ~ freed,
           NEW t \in Threads, CallStep(t) \/ Environment(t)
    PROVE  WakesFit'
<1> USE DEF ThreadType, WakeType, CallsFit, WakesFit, NoCall
<1>1. CASE OperationEnd(t)
  BY <1>1 DEF OperationEnd, WakeDrain, storeVars, lifeVars
<1>2. CASE Broadcast(t)
  BY <1>2, AfterWakeFacts DEF Broadcast, storeVars, lifeVars
<1>3. CASE Out(t)
  BY <1>3 DEF Out, Goto, TxFree, storeVars, lifeVars
<1>4. CASE OperationFails(t)
  BY <1>4 DEF OperationFails, Goto, storeVars, lifeVars
<1>5. CASE Direct(t)
  BY <1>5 DEF Direct, Goto, TxFree, storeVars, lifeVars
<1>6. CASE Commit(t)
  <2>1. PICK p, k : p = Observed \o Signalled(call[t]) /\ k = AfterWake(call[t].kind)
    OBVIOUS
  <2> HIDE DEF ThreadType, WakeType, CallsFit, WakesFit, NoCall
  <2>2. k # "wake"
    BY <2>1 DEF AfterWake
  <2>3. wake' = [wake EXCEPT ![t] = p] /\ pc' = [pc EXCEPT ![t] = IF p = <<>> THEN k ELSE "wake"]
    BY <1>6, <2>1 DEF Commit, StartWaking, Goto
  <2>4. wake'[t] = p /\ pc'[t] = (IF p = <<>> THEN k ELSE "wake")
    BY <2>3 DEF ThreadType, WakeType
  <2>5. \A u \in Threads : u # t => wake'[u] = wake[u] /\ pc'[u] = pc[u]
    BY <2>3 DEF ThreadType, WakeType
  <2>6. wake'[t] # <<>> <=> pc'[t] = "wake"
    BY <2>2, <2>4, Zenon
  <2> SUFFICES ASSUME NEW u \in Threads PROVE wake'[u] # <<>> <=> pc'[u] = "wake"
    BY DEF WakesFit
  <2>7. wake[u] # <<>> <=> pc[u] = "wake"
    BY DEF WakesFit
  <2> QED
    BY <2>5, <2>6, <2>7
<1>7. CASE Veto(t)
  <2>1. PICK k : k = AfterWake(call[t].kind)
    OBVIOUS
  <2>2. k # "wake"
    BY <2>1 DEF AfterWake
  <2>3. pc[t] # "wake" /\ Goto(t, k) /\ wake' = wake
    BY <1>7, <2>1 DEF Veto
  <2> QED
    BY <2>2, <2>3, AwakeGoes
<1>8. CASE Lock(t)
  BY <1>8 DEF Lock, Goto, storeVars, lifeVars
<1>9. CASE Check(t)
  BY <1>9 DEF Check, Goto, Unlocked, storeVars, lifeVars
<1>10. CASE RdMatch(t)
  BY <1>10 DEF RdMatch, Goto, Unlocked, storeVars, lifeVars
<1>11. CASE InMatch(t)
  BY <1>11 DEF InMatch, Goto, Unlocked, TxFree, ConsumeOne, KeepOne, Credit, storeVars, lifeVars
<1>12. CASE InNoMatch(t)
  BY <1>12 DEF InNoMatch, Goto, TxFree, storeVars, lifeVars
<1>13. CASE MatchFails(t)
  BY <1>13 DEF MatchFails, Goto, Unlocked, storeVars, lifeVars
<1>14. CASE Wait(t)
  BY <1>14 DEF Wait, Goto, Unlocked, storeVars, lifeVars
<1>15. CASE Late(t)
  BY <1>15 DEF Late, Goto, storeVars, lifeVars
<1>16. CASE Rdp(t)
  BY <1>16 DEF Rdp, Goto, storeVars, lifeVars
<1>17. CASE Inp(t)
  BY <1>17 DEF Inp, Goto, TxFree, ConsumeOne, Credit, storeVars, lifeVars
<1>18. CASE GuardBegin(t)
  BY <1>18 DEF GuardBegin, Goto, storeVars, lifeVars
<1>19. CASE GuardEnd(t)
  BY <1>19 DEF GuardEnd, Goto, storeVars, lifeVars
<1>20. CASE Spawn(t)
  <2>1. pc[t] # "wake" /\ wake' = wake
    BY <1>20 DEF Spawn
  <2>2. CASE Goto(t, "idle")
    BY <2>1, <2>2, AwakeGoes
  <2>3. CASE pc' = WakeDrain([pc EXCEPT ![t] = "idle"])
    BY <2>1, <2>3 DEF WakeDrain
  <2> QED
    BY <1>20, <2>2, <2>3 DEF Spawn
<1>21. CASE Drain(t)
  BY <1>21 DEF Drain, Goto, storeVars, lifeVars
<1>22. CASE OperationBegin(t)
  <2>1. PICK c \in Operations : Goto(t, Entry(c))
    BY <1>22 DEF OperationBegin
  <2>2. Entry(c) # "wake" /\ pc[t] # "wake" /\ wake' = wake
    BY <1>22, <2>1, OperationFacts DEF OperationBegin, MayCall
  <2> QED
    BY <2>1, <2>2, AwakeGoes
<1>23. CASE DirectBegin(t)
  BY <1>23, DirectFacts DEF DirectBegin, Goto, MayCall, storeVars, lifeVars
<1>24. CASE Eval(t)
  BY <1>24, PlainCall DEF Eval, Goto, MayCall, storeVars, lifeVars
<1>25. CASE Close(t)
  BY <1>25, AfterWakeFacts, PlainCall DEF Close, Shut, Goto, MayCall, storeVars,
     lifeVars
<1>26. CASE Delete(t)
  BY <1>26, AfterWakeFacts, PlainCall DEF Delete, Shut, Goto, MayCall, storeVars,
     lifeVars
<1>27. CASE WorkerEnd(t)
  BY <1>27 DEF WorkerEnd, WakeDrain, storeVars, lifeVars
<1>28. CASE Spurious(t)
  BY <1>28 DEF Spurious, Goto, storeVars, lifeVars
<1>29. CASE Timeout(t)
  BY <1>29 DEF Timeout, Goto, storeVars, lifeVars
<1> QED
  BY <1>1, <1>2, <1>3, <1>4, <1>5, <1>6, <1>7, <1>8, <1>9, <1>10, <1>11, <1>12, <1>13,
     <1>14, <1>15, <1>16, <1>17, <1>18, <1>19, <1>20, <1>21, <1>22, <1>23, <1>24, <1>25,
     <1>26, <1>27, <1>28, <1>29 DEF CallStep, Environment

LEMMA UndoStep ==
    ASSUME StoreType, LockType, ThreadType, CallsFit, TxFits, UndoFits, WakesFit, ~ freed,
           NEW t \in Threads, CallStep(t) \/ Environment(t)
    PROVE  UndoFits'
<1> USE DEF StoreType, LockType, ThreadType, CallsFit, TxFits, UndoFits, WakesFit,
     NoUndo, NoCall
<1>1. CASE OperationEnd(t)
  BY <1>1, NoThreadFact DEF OperationEnd, WakeDrain, storeVars, lifeVars
<1>2. CASE Broadcast(t)
  BY <1>2, AfterWakeFacts, NoThreadFact DEF Broadcast, storeVars, lifeVars
<1>3. CASE Out(t)
  BY <1>3, NoThreadFact DEF Out, Goto, TxFree, storeVars, lifeVars
<1>4. CASE OperationFails(t)
  BY <1>4, NoThreadFact DEF OperationFails, Goto, storeVars, lifeVars
<1>5. CASE Direct(t)
  BY <1>5, NoThreadFact DEF Direct, Goto, TxFree, storeVars, lifeVars
<1>6. CASE Commit(t)
  BY <1>6, AfterWakeFacts, NoThreadFact DEF Commit, StartWaking, Goto, Credit,
     storeVars, lifeVars
<1>7. CASE Veto(t)
  BY <1>7, AfterWakeFacts, NoThreadFact DEF Veto, Goto, Credit, storeVars, lifeVars
<1>8. CASE Lock(t)
  BY <1>8, NoThreadFact DEF Lock, Goto, storeVars, lifeVars
<1>9. CASE Check(t)
  BY <1>9, NoThreadFact DEF Check, Goto, Unlocked, storeVars, lifeVars
<1>10. CASE RdMatch(t)
  BY <1>10, NoThreadFact DEF RdMatch, Goto, Unlocked, storeVars, lifeVars
<1>11. CASE InMatch(t)
  BY <1>11, NoThreadFact DEF InMatch, Goto, Unlocked, TxFree, ConsumeOne, KeepOne, Credit,
     Matches, storeVars, lifeVars
<1>12. CASE InNoMatch(t)
  BY <1>12, NoThreadFact DEF InNoMatch, Goto, TxFree, storeVars, lifeVars
<1>13. CASE MatchFails(t)
  BY <1>13, NoThreadFact DEF MatchFails, Goto, Unlocked, storeVars, lifeVars
<1>14. CASE Wait(t)
  BY <1>14, NoThreadFact DEF Wait, Goto, Unlocked, storeVars, lifeVars
<1>15. CASE Late(t)
  BY <1>15, NoThreadFact DEF Late, Goto, storeVars, lifeVars
<1>16. CASE Rdp(t)
  BY <1>16, NoThreadFact DEF Rdp, Goto, storeVars, lifeVars
<1>17. CASE Inp(t)
  BY <1>17, NoThreadFact DEF Inp, Goto, TxFree, ConsumeOne, Credit, Matches, storeVars,
     lifeVars
<1>18. CASE GuardBegin(t)
  BY <1>18, NoThreadFact DEF GuardBegin, Goto, storeVars, lifeVars
<1>19. CASE GuardEnd(t)
  BY <1>19, NoThreadFact DEF GuardEnd, Goto, storeVars, lifeVars
<1>20. CASE Spawn(t)
  BY <1>20, NoThreadFact DEF Spawn, Goto, WakeDrain, storeVars, lifeVars
<1>21. CASE Drain(t)
  BY <1>21, NoThreadFact DEF Drain, Goto, storeVars, lifeVars
<1>22. CASE OperationBegin(t)
  BY <1>22, OperationFacts, NoThreadFact DEF OperationBegin, Goto, MayCall, storeVars,
     lifeVars
<1>23. CASE DirectBegin(t)
  BY <1>23, DirectFacts, NoThreadFact DEF DirectBegin, Goto, MayCall, storeVars,
     lifeVars
<1>24. CASE Eval(t)
  BY <1>24, PlainCall, NoThreadFact DEF Eval, Goto, MayCall, storeVars, lifeVars
<1>25. CASE Close(t)
  BY <1>25, AfterWakeFacts, PlainCall, NoThreadFact DEF Close, Shut, Goto, MayCall,
     storeVars, lifeVars
<1>26. CASE Delete(t)
  BY <1>26, AfterWakeFacts, PlainCall, NoThreadFact DEF Delete, Shut, Goto, MayCall,
     storeVars, lifeVars
<1>27. CASE WorkerEnd(t)
  BY <1>27, NoThreadFact DEF WorkerEnd, WakeDrain, storeVars, lifeVars
<1>28. CASE Spurious(t)
  BY <1>28, NoThreadFact DEF Spurious, Goto, storeVars, lifeVars
<1>29. CASE Timeout(t)
  BY <1>29, NoThreadFact DEF Timeout, Goto, storeVars, lifeVars
<1> QED
  BY <1>1, <1>2, <1>3, <1>4, <1>5, <1>6, <1>7, <1>8, <1>9, <1>10, <1>11, <1>12, <1>13,
     <1>14, <1>15, <1>16, <1>17, <1>18, <1>19, <1>20, <1>21, <1>22, <1>23, <1>24, <1>25,
     <1>26, <1>27, <1>28, <1>29 DEF CallStep, Environment

-----------------------------------------------------------------------------
(* The space's life *)

\* A thread that makes a call is in none, and a worker that does so runs.
LEMMA MayCallFacts ==
    ASSUME NEW t \in Threads, CallsFit, MayCall(t)
    PROVE  call[t].kind = "none" /\ (t \in Workers => t \in running)
BY DEF CallsFit, MayCall

\* Only these steps change which threads are inside an operation or create a worker.
LEMMA CountedFrame ==
    ASSUME ThreadType, CallsFit, WakesFit, ~ freed,
           NEW t \in Threads, CallStep(t) \/ Environment(t)
    PROVE  /\ ~ OperationBegin(t) /\ ~ OperationEnd(t) => Operating' = Operating
           /\ ~ Eval(t) /\ ~ Spawn(t) => Spawning' = Spawning
<1>1. CASE OperationEnd(t)
  <2>1. \A u \in Threads : pc'[u] = "spawn" <=> pc[u] = "spawn"
    BY <1>1, OperationEndPlaces
  <2>2. Spawning' = Spawning
    BY <2>1 DEF Spawning
  <2> QED
    BY <1>1, <2>2
<1> USE DEF ThreadType, CallsFit, WakesFit, NoCall, Operating, Spawning, OperationKinds
<1>2. CASE Broadcast(t)
  BY <1>2, AfterWakeFacts DEF Broadcast, storeVars, lifeVars
<1>3. CASE Out(t)
  BY <1>3 DEF Out, Goto, TxFree, storeVars, lifeVars
<1>4. CASE OperationFails(t)
  BY <1>4 DEF OperationFails, Goto, storeVars, lifeVars
<1>5. CASE Direct(t)
  BY <1>5 DEF Direct, Goto, TxFree, storeVars, lifeVars
<1>6. CASE Commit(t)
  <2>1. pc[t] = "commit" /\ (\E where : pc' = [pc EXCEPT ![t] = where])
    BY <1>6 DEF Commit, StartWaking, Goto
  <2>2. pc'[t] \in {"wake", AfterWake(call[t].kind)}
    BY <1>6 DEF Commit, StartWaking, Goto
  <2>3. call' = IF pc'[t] = "idle" THEN [call EXCEPT ![t] = NoCall] ELSE call
    BY <1>6 DEF Commit
  <2>4. Spawning' = Spawning
    BY <2>1, <2>2 DEF AfterWake
  <2>5. pc'[t] = "idle" => call[t].kind \in {"put", "drop"}
    BY <2>1, <2>2, AfterWakeFacts DEF AfterWake
  <2>6. Operating' = Operating
    BY <2>3, <2>5
  <2> QED
    BY <2>4, <2>6
<1>7. CASE Veto(t)
  BY <1>7, AfterWakeFacts DEF Veto, Goto, Credit, storeVars, lifeVars
<1>8. CASE Lock(t)
  BY <1>8 DEF Lock, Goto, storeVars, lifeVars
<1>9. CASE Check(t)
  BY <1>9 DEF Check, Goto, Unlocked, storeVars, lifeVars
<1>10. CASE RdMatch(t)
  BY <1>10 DEF RdMatch, Goto, Unlocked, storeVars, lifeVars
<1>11. CASE InMatch(t)
  BY <1>11 DEF InMatch, Goto, Unlocked, TxFree, ConsumeOne, KeepOne, Credit, storeVars, lifeVars
<1>12. CASE InNoMatch(t)
  BY <1>12 DEF InNoMatch, Goto, TxFree, storeVars, lifeVars
<1>13. CASE MatchFails(t)
  BY <1>13 DEF MatchFails, Goto, Unlocked, storeVars, lifeVars
<1>14. CASE Wait(t)
  BY <1>14 DEF Wait, Goto, Unlocked, storeVars, lifeVars
<1>15. CASE Late(t)
  BY <1>15 DEF Late, Goto, storeVars, lifeVars
<1>16. CASE Rdp(t)
  BY <1>16 DEF Rdp, Goto, storeVars, lifeVars
<1>17. CASE Inp(t)
  BY <1>17 DEF Inp, Goto, TxFree, ConsumeOne, Credit, storeVars, lifeVars
<1>18. CASE GuardBegin(t)
  BY <1>18 DEF GuardBegin, Goto, storeVars, lifeVars
<1>19. CASE GuardEnd(t)
  BY <1>19 DEF GuardEnd, Goto, storeVars, lifeVars
<1>20. CASE Spawn(t)
  BY <1>20 DEF Spawn, Goto, WakeDrain, storeVars, lifeVars
<1>21. CASE Drain(t)
  BY <1>21 DEF Drain, Goto, storeVars, lifeVars
<1>22. CASE OperationBegin(t)
  <2>1. PICK c \in Operations : call' = [call EXCEPT ![t] = c] /\ Goto(t, Entry(c))
    BY <1>22 DEF OperationBegin
  <2>2. Entry(c) # "spawn" /\ pc[t] = "idle"
    BY <1>22, OperationFacts DEF OperationBegin, MayCall
  <2> QED
    BY <1>22, <2>1, <2>2 DEF Goto
<1>23. CASE DirectBegin(t)
  BY <1>23, DirectFacts DEF DirectBegin, Goto, MayCall, storeVars, lifeVars
<1>24. CASE Eval(t)
  BY <1>24, PlainCall DEF Eval, Goto, MayCall, storeVars, lifeVars
<1>25. CASE Close(t)
  BY <1>25, AfterWakeFacts, PlainCall DEF Close, Shut, Goto, MayCall, storeVars,
     lifeVars
<1>26. CASE Delete(t)
  BY <1>26, AfterWakeFacts, PlainCall DEF Delete, Shut, Goto, MayCall, storeVars,
     lifeVars
<1>27. CASE WorkerEnd(t)
  BY <1>27 DEF WorkerEnd, WakeDrain, storeVars, lifeVars
<1>28. CASE Spurious(t)
  BY <1>28 DEF Spurious, Goto, storeVars, lifeVars
<1>29. CASE Timeout(t)
  BY <1>29 DEF Timeout, Goto, storeVars, lifeVars
<1> QED
  BY <1>1, <1>2, <1>3, <1>4, <1>5, <1>6, <1>7, <1>8, <1>9, <1>10, <1>11, <1>12, <1>13,
     <1>14, <1>15, <1>16, <1>17, <1>18, <1>19, <1>20, <1>21, <1>22, <1>23, <1>24, <1>25,
     <1>26, <1>27, <1>28, <1>29 DEF CallStep, Environment

\* A step changes the call of its own thread only.
LEMMA CallFrame ==
    ASSUME NEW t \in Threads, CallStep(t) \/ Environment(t), ThreadType
    PROVE  \A u \in Threads \ {t} : call'[u] = call[u]
BY DEF ThreadType, CallStep, Environment, OperationEnd, WakeDrain, Broadcast, Out,
     Goto, TxFree, OperationFails, Direct, Commit, StartWaking, Credit, Veto, Lock,
     Check, Unlocked, RdMatch, InMatch, ConsumeOne, KeepOne, InNoMatch, MatchFails, Wait, Late,
     Rdp, Inp, GuardBegin, GuardEnd, Spawn, Drain, OperationBegin, MayCall, DirectBegin,
     Eval, Close, Shut, Delete, WorkerEnd, Spurious, Timeout, storeVars, lifeVars

\* It becomes none, unless the thread begins a call.
LEMMA CallChange ==
    ASSUME NEW t \in Threads, CallStep(t) \/ Environment(t), ThreadType
    PROVE  /\ call'[t].kind \in {call[t].kind, "none"} \/ MayCall(t)
           /\ ~ Delete(t) => call'[t].kind # "delete" \/ call[t].kind = "delete"
<1> USE DEF ThreadType, NoCall
<1>1. CASE OperationEnd(t)
  BY <1>1 DEF OperationEnd, WakeDrain, storeVars, lifeVars
<1>2. CASE Broadcast(t)
  BY <1>2 DEF Broadcast, storeVars, lifeVars
<1>3. CASE Out(t)
  BY <1>3 DEF Out, Goto, TxFree, storeVars, lifeVars
<1>4. CASE OperationFails(t)
  BY <1>4 DEF OperationFails, Goto, storeVars, lifeVars
<1>5. CASE Direct(t)
  BY <1>5 DEF Direct, Goto, TxFree, storeVars, lifeVars
<1>6. CASE Commit(t)
  BY <1>6 DEF Commit, StartWaking, Goto, Credit, storeVars, lifeVars
<1>7. CASE Veto(t)
  BY <1>7 DEF Veto, Goto, Credit, storeVars, lifeVars
<1>8. CASE Lock(t)
  BY <1>8 DEF Lock, Goto, storeVars, lifeVars
<1>9. CASE Check(t)
  BY <1>9 DEF Check, Goto, Unlocked, storeVars, lifeVars
<1>10. CASE RdMatch(t)
  BY <1>10 DEF RdMatch, Goto, Unlocked, storeVars, lifeVars
<1>11. CASE InMatch(t)
  BY <1>11 DEF InMatch, Goto, Unlocked, TxFree, ConsumeOne, KeepOne, Credit, storeVars, lifeVars
<1>12. CASE InNoMatch(t)
  BY <1>12 DEF InNoMatch, Goto, TxFree, storeVars, lifeVars
<1>13. CASE MatchFails(t)
  BY <1>13 DEF MatchFails, Goto, Unlocked, storeVars, lifeVars
<1>14. CASE Wait(t)
  BY <1>14 DEF Wait, Goto, Unlocked, storeVars, lifeVars
<1>15. CASE Late(t)
  BY <1>15 DEF Late, Goto, storeVars, lifeVars
<1>16. CASE Rdp(t)
  BY <1>16 DEF Rdp, Goto, storeVars, lifeVars
<1>17. CASE Inp(t)
  BY <1>17 DEF Inp, Goto, TxFree, ConsumeOne, Credit, storeVars, lifeVars
<1>18. CASE GuardBegin(t)
  BY <1>18 DEF GuardBegin, Goto, storeVars, lifeVars
<1>19. CASE GuardEnd(t)
  BY <1>19 DEF GuardEnd, Goto, storeVars, lifeVars
<1>20. CASE Spawn(t)
  BY <1>20 DEF Spawn, Goto, WakeDrain, storeVars, lifeVars
<1>21. CASE Drain(t)
  BY <1>21 DEF Drain, Goto, storeVars, lifeVars
<1>22. CASE OperationBegin(t)
  BY <1>22, OperationFacts DEF OperationBegin, Goto, storeVars, lifeVars, OperationKinds
<1>23. CASE DirectBegin(t)
  BY <1>23, DirectFacts DEF DirectBegin, Goto, storeVars, lifeVars
<1>24. CASE Eval(t)
  BY <1>24, PlainCall DEF Eval, Goto, storeVars, lifeVars
<1>25. CASE Close(t)
  BY <1>25, PlainCall DEF Close, Shut, Goto, storeVars, lifeVars
<1>26. CASE Delete(t)
  BY <1>26, PlainCall DEF Delete, Shut, Goto, storeVars, lifeVars
<1>27. CASE WorkerEnd(t)
  BY <1>27 DEF WorkerEnd, WakeDrain, storeVars, lifeVars
<1>28. CASE Spurious(t)
  BY <1>28 DEF Spurious, Goto, storeVars, lifeVars
<1>29. CASE Timeout(t)
  BY <1>29 DEF Timeout, Goto, storeVars, lifeVars
<1> QED
  BY <1>1, <1>2, <1>3, <1>4, <1>5, <1>6, <1>7, <1>8, <1>9, <1>10, <1>11, <1>12, <1>13,
     <1>14, <1>15, <1>16, <1>17, <1>18, <1>19, <1>20, <1>21, <1>22, <1>23, <1>24, <1>25,
     <1>26, <1>27, <1>28, <1>29 DEF CallStep, Environment

LEMMA LifeStep ==
    ASSUME ThreadType, LifeType, CallsFit, WakesFit, LifeFits, ~ freed,
           NEW t \in Threads, CallStep(t) \/ Environment(t)
    PROVE  LifeFits' /\ LifeType'
<1>1. IsFiniteSet(Operating') /\ operations' = Cardinality(Operating')
  <2>1. CASE OperationBegin(t)
    <3>1. PICK c \in Operations : call' = [call EXCEPT ![t] = c]
      BY <2>1 DEF OperationBegin
    <3>2. call[t].kind = "none" /\ c.kind \in OperationKinds
      BY <2>1, OperationFacts, MayCallFacts DEF OperationBegin
    <3>3. t \notin Operating /\ Operating' = Operating \union {t}
      BY <3>1, <3>2 DEF Operating, OperationKinds, ThreadType
    <3>4. operations' = operations + 1
      BY <2>1 DEF OperationBegin
    <3> QED
      BY <3>3, <3>4, FS_AddElement DEF LifeFits
  <2>2. CASE OperationEnd(t)
    <3>1. t \in Operating /\ Operating' = Operating \ {t}
      BY <2>2 DEF OperationEnd, Operating, OperationKinds, ThreadType, CallsFit, NoCall
    <3>2. operations' = operations - 1
      BY <2>2 DEF OperationEnd
    <3> QED
      BY <3>1, <3>2, FS_RemoveElement DEF LifeFits
  <2>3. CASE ~ OperationBegin(t) /\ ~ OperationEnd(t)
    <3>1. Operating' = Operating
      BY <2>3, CountedFrame
    <3>2. operations' = operations
      BY <2>3, LifeFrame DEF Eval, Spawn, WorkerEnd, Close, Delete, Shut, Drain
    <3> QED
      BY <3>1, <3>2 DEF LifeFits
  <2> QED
    BY <2>1, <2>2, <2>3
<1>2. /\ IsFiniteSet(Spawning') /\ IsFiniteSet(running')
      /\ workers' = Cardinality(running') + Cardinality(Spawning')
  <2>0. /\ IsFiniteSet(Spawning) /\ IsFiniteSet(running)
        /\ workers = Cardinality(running) + Cardinality(Spawning)
        /\ Cardinality(running) \in Nat /\ Cardinality(Spawning) \in Nat
    BY FS_CardinalityType DEF LifeFits
  <2>1. CASE Eval(t)
    <3>1. t \notin Spawning /\ Spawning' = Spawning \union {t}
      BY <2>1, LocationFacts DEF Eval, MayCall, Goto, Spawning, ThreadType
    <3>2. workers' = workers + 1 /\ running' = running
      BY <2>1 DEF Eval
    <3>3. IsFiniteSet(Spawning') /\ Cardinality(Spawning') = Cardinality(Spawning) + 1
      BY <2>0, <3>1, FS_AddElement
    <3> QED
      BY <2>0, <3>2, <3>3
  <2>2. CASE Spawn(t)
    <3>1. t \in Spawning /\ Spawning' = Spawning \ {t}
      BY <2>2 DEF Spawn, Goto, WakeDrain, Spawning, ThreadType
    <3>2. \/ \E w \in Workers \ running : running' = running \union {w} /\ workers' = workers
          \/ workers' = workers - 1 /\ running' = running
      BY <2>2 DEF Spawn
    <3>3. IsFiniteSet(Spawning') /\ Cardinality(Spawning') = Cardinality(Spawning) - 1
      BY <2>0, <3>1, FS_RemoveElement
    <3>4. CASE workers' = workers - 1 /\ running' = running
      BY <2>0, <3>3, <3>4
    <3>5. CASE \E w \in Workers \ running : running' = running \union {w} /\ workers' = workers
      <4>1. PICK w \in Workers \ running : running' = running \union {w} /\ workers' = workers
        BY <3>5
      <4>2. IsFiniteSet(running') /\ Cardinality(running') = Cardinality(running) + 1
        BY <2>0, <4>1, FS_AddElement
      <4> QED
        BY <2>0, <3>3, <4>1, <4>2
    <3> QED
      BY <3>2, <3>4, <3>5
  <2>3. CASE WorkerEnd(t)
    <3>1. Spawning' = Spawning
      BY <2>3, CountedFrame DEF WorkerEnd, Eval, Spawn, MayCall, WakeDrain, Goto, Spawning, ThreadType
    <3>2. t \in running /\ workers' = workers - 1 /\ running' = running \ {t}
      BY <2>3 DEF WorkerEnd
    <3>3. IsFiniteSet(running') /\ Cardinality(running') = Cardinality(running) - 1
      BY <2>0, <3>2, FS_RemoveElement
    <3> QED
      BY <2>0, <3>1, <3>2, <3>3
  <2>4. CASE ~ Eval(t) /\ ~ Spawn(t) /\ ~ WorkerEnd(t)
    <3>1. Spawning' = Spawning
      BY <2>4, CountedFrame
    <3>2. workers' = workers /\ running' = running
      BY <2>4, LifeFrame DEF OperationBegin, OperationEnd, Close, Delete, Shut, Drain
    <3> QED
      BY <2>0, <3>1, <3>2
  <2> QED
    BY <2>1, <2>2, <2>3, <2>4
<1>3. LifeType'
  <2>1. operations' \in Nat /\ workers' \in Nat
    BY <1>1, <1>2, FS_CardinalityType
  <2>2. closed' \in BOOLEAN /\ freed' \in BOOLEAN /\ running' \subseteq Workers
    BY LifeFrame DEF LifeType, OperationBegin, OperationEnd, Eval, Spawn, WorkerEnd, Close,
       Delete, Shut, Drain
  <2> QED
    BY <2>1, <2>2 DEF LifeType
<1>4. \A w \in Workers : w \notin running' => call'[w].kind = "none"
  <2>1. ASSUME NEW w \in Workers, w \notin running'
        PROVE  w \notin running \/ (WorkerEnd(t) /\ w = t)
    <3>1. CASE WorkerEnd(t)
      BY <2>1, <3>1 DEF WorkerEnd
    <3>2. CASE ~ WorkerEnd(t)
      <4>1. running \subseteq running'
        BY <3>2, LifeFrame DEF OperationBegin, OperationEnd, Eval, Spawn, Close, Delete, Shut,
           Drain
      <4> QED
        BY <2>1, <4>1
    <3> QED
      BY <3>1, <3>2
  <2>2. ASSUME NEW w \in Workers, w \notin running PROVE call'[w].kind = "none"
    <3>1. call[w].kind = "none" /\ w \in Threads /\ pc[w] \in Locations
      BY <2>2 DEF LifeFits, ThreadType, Threads
    <3>2. pc[w] = "idle"
      BY <3>1 DEF CallsFit, Locations, OperationKinds
    <3>3. CASE t = w
      BY <2>2, <3>1, <3>2, <3>3, MayCallFacts DEF CallStep, Environment, OperationEnd, Broadcast,
         Out, OperationFails, Direct, Commit, Veto, Lock, Check, RdMatch, InMatch, InNoMatch,
         MatchFails, Wait, Late, Rdp, Inp, GuardBegin, GuardEnd, Spawn, Drain, OperationBegin,
         DirectBegin, Eval, Close, Delete, WorkerEnd, Spurious, Timeout
    <3>4. CASE t # w
      BY <3>1, <3>4, CallFrame
    <3> QED
      BY <3>3, <3>4
  <2>3. ASSUME NEW w \in Workers, WorkerEnd(w) PROVE call'[w].kind = "none"
    BY <2>3 DEF WorkerEnd, CallsFit, Threads
  <2> QED
    BY <2>1, <2>2, <2>3
<1>5. ASSUME NEW u \in Threads, call'[u].kind = "delete"
      PROVE  /\ u \in Clients /\ closed'
             /\ \A v \in Clients \ {u} : call'[v].kind \notin {"put", "drop", "close", "delete"}
  <2>1. CASE Delete(t)
    <3>1. \A v \in Clients : call[v].kind \notin {"put", "drop", "close", "delete"}
      BY <2>1 DEF Delete, MayCall, Deleting, Threads
    <3>2. closed' /\ t \in Clients
      BY <2>1 DEF Delete, Shut
    <3>3. \A v \in Threads \ {t} : call'[v] = call[v]
      BY CallFrame
    <3> QED
      BY <1>5, <3>1, <3>2, <3>3 DEF LifeFits, Threads
  <2>2. CASE ~ Delete(t)
    <3>1. call[u].kind = "delete"
      BY <1>5, <2>2, CallFrame, CallChange
    <3>2. /\ u \in Clients /\ closed
          /\ \A v \in Clients \ {u} : call[v].kind \notin {"put", "drop", "close", "delete"}
      BY <3>1 DEF LifeFits
    <3>3. closed'
      BY <3>2, LifeFrame DEF OperationBegin, OperationEnd, Eval, Spawn, WorkerEnd, Close, Delete,
         Shut, Drain
    <3>4. t \in Clients => ~ MayCall(t)
      BY <3>1, <3>2 DEF MayCall, Deleting, Threads
    <3> QED
      BY <3>2, <3>3, <3>4, CallFrame, CallChange DEF Threads
  <2> QED
    BY <2>1, <2>2
<1>6. freed' => Deleting'
  <2> SUFFICES ASSUME freed' PROVE \E u \in Clients : call'[u].kind = "delete"
    BY DEF Deleting
  <2>1. Drain(t)
    BY LifeFrame DEF OperationBegin, OperationEnd, Eval, Spawn, WorkerEnd, Close, Delete, Shut
  <2> QED
    BY <2>1 DEF Drain, CallsFit, LifeFits
<1> QED
  BY <1>1, <1>2, <1>3, <1>4, <1>5, <1>6 DEF LifeFits


\* A space that has been freed is not touched any more.
LEMMA FreedStops ==
    ASSUME NoUseAfterFree, freed, NEW t \in Threads, CallStep(t) \/ Environment(t)
    PROVE  FALSE
BY DEF NoUseAfterFree, CallStep, Environment, OperationEnd, Broadcast, Out,
     OperationFails, Direct, Commit, Veto, Lock, Check, RdMatch, InMatch, InNoMatch,
     MatchFails, Wait, Late, Rdp, Inp, GuardBegin, GuardEnd, Spawn, Drain,
     OperationBegin, DirectBegin, Eval, Close, Shut, Delete, WorkerEnd, Spurious,
     Timeout, MayCall

LEMMA FreedStep ==
    ASSUME ThreadType, LifeType, LockType, CallsFit, TxFits, LifeFits, ~ freed,
           NEW t \in Threads, CallStep(t) \/ Environment(t), TxFits'
    PROVE  NoUseAfterFree'
<1> SUFFICES ASSUME freed' PROVE running' = {} /\ \A u \in Threads : pc'[u] = "idle" /\ u \notin guards'
  BY DEF NoUseAfterFree
<1>1. Drain(t)
  BY LifeFrame DEF OperationBegin, OperationEnd, Eval, Spawn, WorkerEnd, Close, Delete, Shut
<1>2. workers = 0 /\ operations = 0 /\ pc' = [pc EXCEPT ![t] = "idle"] /\ running' = running
  BY <1>1 DEF Drain, Goto
<1>3. Operating = {} /\ running = {} /\ Spawning = {}
  <2>1. Cardinality(running) \in Nat /\ Cardinality(Spawning) \in Nat
    BY FS_CardinalityType DEF LifeFits
  <2>2. Cardinality(Operating) = 0 /\ Cardinality(running) = 0 /\ Cardinality(Spawning) = 0
    BY <1>2, <2>1 DEF LifeFits
  <2> QED
    BY <2>2, FS_EmptySet DEF LifeFits
<1>4. t \in Clients /\ call[t].kind = "delete"
  BY <1>1 DEF Drain, CallsFit, LifeFits
<1>5. ASSUME NEW u \in Threads \ {t} PROVE pc[u] = "idle"
  <2>1. call[u].kind \notin OperationKinds /\ pc[u] # "spawn" /\ pc[u] \in Locations
    BY <1>3 DEF Operating, Spawning, ThreadType
  <2>2. call[u].kind \notin {"put", "drop", "close", "delete"}
    <3>1. CASE u \in Clients
      BY <1>4, <3>1 DEF LifeFits
    <3>2. CASE u \in Workers
      BY <1>3, <3>2 DEF LifeFits
    <3> QED
      BY <3>1, <3>2 DEF Threads
  <2> QED
    BY <2>1, <2>2 DEF CallsFit, OperationKinds, Locations
<1>6. \A u \in Threads : pc'[u] = "idle"
  BY <1>2, <1>5 DEF ThreadType
<1> QED
  BY <1>2, <1>3, <1>6 DEF TxFits

-----------------------------------------------------------------------------
(* Conservation *)

\* At most one linda_out is about to commit: the owner of the write lock.
LEMMA OwnerCount ==
    ASSUME NEW U \in SUBSET Threads, NEW owner, NEW P \in BOOLEAN,
           \A t \in Threads : t \in U <=> owner = t /\ P
    PROVE  Cardinality(U) = IF owner \in Threads /\ P THEN 1 ELSE 0
<1>1. CASE owner \in Threads /\ P
  <2>1. U = {owner}
    BY <1>1
  <2> QED
    BY <1>1, <2>1, FS_Singleton
<1>2. CASE ~ (owner \in Threads /\ P)
  <2>1. U = {}
    BY <1>2
  <2> QED
    BY <1>2, <2>1, FS_EmptySet
<1> QED
  BY <1>1, <1>2

\* What calls have put into the space and not removed.
Owed(x) == balance[x] + kept[x]

\* An occurrence that linda_out has put into its open transaction.
Open(x) == IF tx \in Threads /\ call[tx] = [kind |-> "out", tuple |-> x] THEN 1 ELSE 0

LEMMA OpenCount ==
    ASSUME TxFits
    PROVE  Conservation <=> \A x \in Tuples \ DirectTuples : Occurrences(x) = Owed(x) + Open(x)
<1>1. ASSUME NEW x
      PROVE  Cardinality({t \in Threads :
                  pc[t] = "commit" /\ call[t] = [kind |-> "out", tuple |-> x]}) = Open(x)
  <2> DEFINE rec == [kind |-> "out", tuple |-> x]
             U == {t \in Threads : pc[t] = "commit" /\ call[t] = rec}
             P == call[tx] = rec
  <2>1. \A t \in Threads : t \in U <=> tx = t /\ P
    BY DEF TxFits
  <2>2. U \in SUBSET Threads /\ P \in BOOLEAN
    OBVIOUS
  <2> HIDE DEF U, P
  <2>3. Cardinality(U) = IF tx \in Threads /\ P THEN 1 ELSE 0
    BY <2>1, <2>2, OwnerCount
  <2> QED
    BY <2>3 DEF U, P, Open
<1> QED
  BY <1>1, Zenon DEF Conservation, Adding, Owed

LEMMA OpenCountNext ==
    ASSUME TxFits'
    PROVE  Conservation' <=> \A x \in Tuples \ DirectTuples : Occurrences(x)' = Owed(x)' + Open(x)'
<1>1. ASSUME NEW x
      PROVE  Cardinality({t \in Threads :
                  pc'[t] = "commit" /\ call'[t] = [kind |-> "out", tuple |-> x]}) = Open(x)'
  <2> DEFINE rec == [kind |-> "out", tuple |-> x]
             U == {t \in Threads : pc'[t] = "commit" /\ call'[t] = rec}
             P == call'[tx'] = rec
  <2>1. \A t \in Threads : t \in U <=> tx' = t /\ P
    BY DEF TxFits
  <2>2. U \in SUBSET Threads /\ P \in BOOLEAN
    OBVIOUS
  <2> HIDE DEF U, P
  <2>3. Cardinality(U) = IF tx' \in Threads /\ P THEN 1 ELSE 0
    BY <2>1, <2>2, OwnerCount
  <2> QED
    BY <2>3 DEF U, P, Open
<1> QED
  BY <1>1, Zenon DEF Conservation, Adding, Owed

\* The sum after each kind of step.
LEMMA SumUnchanged ==
    ASSUME HistoryType, balance' = balance, kept' = kept
    PROVE  HistoryType' /\ \A x \in Tuples \ DirectTuples : Owed(x)' = Owed(x) /\ Owed(x) \in Int
BY DEF HistoryType, Owed

LEMMA SumCredited ==
    ASSUME HistoryType, NEW y, NEW n \in Int, Credit(y, n)
    PROVE  /\ HistoryType'
           /\ \A x \in Tuples \ DirectTuples :
                 /\ Owed(x)' = IF x = y THEN Owed(x) + n ELSE Owed(x)
                 /\ Owed(x) \in Int
<1>1. kept' = kept /\ balance' = Credited(y, n)
  BY DEF Credit
<1>2. /\ balance' \in [Tuples \ DirectTuples -> Int]
      /\ \A x \in Tuples \ DirectTuples :
            balance'[x] = IF x = y THEN balance[x] + n ELSE balance[x]
  BY <1>1 DEF Credited, HistoryType
<1> QED
  BY <1>1, <1>2 DEF HistoryType, Owed

LEMMA ConsumedOnce ==
    ASSUME StoreType, NEW x \in asserted, ConsumeOne(x)
    PROVE  \A z \in Tuples :
              /\ Occurrences(z)' = IF z = x THEN Occurrences(z) - 1 ELSE Occurrences(z)
              /\ Occurrences(z) \in Int
BY DEF StoreType, ConsumeOne, Occurrences

LEMMA KeptOnce ==
    ASSUME StoreType, HistoryType, NEW x \in asserted, KeepOne(x)
    PROVE  /\ HistoryType'
           /\ \A z : Occurrences(z)' = Occurrences(z)
           /\ \A z \in Tuples \ DirectTuples : Owed(z)' = Owed(z)
<1>1. /\ balance' = Credited(x, -1)
      /\ kept' = [z \in DOMAIN kept |-> IF z = x THEN kept[z] + 1 ELSE kept[z]]
  BY DEF KeepOne
<1>2. /\ balance' \in [Tuples \ DirectTuples -> Int]
      /\ \A z \in Tuples \ DirectTuples :
            balance'[z] = IF z = x THEN balance[z] - 1 ELSE balance[z]
  BY <1>1 DEF Credited, HistoryType
<1>3. /\ kept' \in [Tuples \ DirectTuples -> Nat]
      /\ \A z \in Tuples \ DirectTuples : kept'[z] = IF z = x THEN kept[z] + 1 ELSE kept[z]
  BY <1>1 DEF HistoryType
<1>4. asserted' = asserted /\ count' = count
  BY DEF KeepOne, storeVars
<1> QED
  BY <1>2, <1>3, <1>4 DEF Occurrences, Owed, HistoryType

LEMMA ConservationStep ==
    ASSUME StoreType, LockType, ThreadType, HistoryType,
           CallsFit, TxFits, UndoFits, WakesFit, Conservation, TxFits', ~ freed,
           NEW t \in Threads, CallStep(t) \/ Environment(t)
    PROVE  Conservation' /\ HistoryType'
<1>0. \A x \in Tuples \ DirectTuples : Occurrences(x) = Owed(x) + Open(x)
  BY OpenCount
<1>a. \A x \in Tuples : Occurrences(x) \in Int
  BY DEF Occurrences, StoreType
<1> SUFFICES /\ HistoryType'
             /\ \A x \in Tuples \ DirectTuples : Occurrences(x)' = Owed(x)' + Open(x)'
  BY OpenCountNext
<1> USE DEF StoreType, LockType, ThreadType, CallsFit, TxFits, UndoFits, NoUndo, NoCall
<1>1. CASE Out(t)
  <2>1. undo = NoUndo /\ tx = NoThread /\ tx' = t /\ call' = call /\ balance' = balance /\ kept' = kept
    BY <1>1, NoThreadFact DEF Out, TxFree, history
  <2>2. call[t] = [kind |-> "out", tuple |-> call[t].tuple] /\ call[t].tuple \in Tuples
    BY <1>1 DEF Out
  <2>3. \A x : Open(x) = 0 /\ Open(x)' = IF x = call[t].tuple THEN 1 ELSE 0
    BY <2>1, <2>2, NoThreadFact DEF Open
  <2>4. \A x \in Tuples : Occurrences(x)' = IF x = call[t].tuple THEN Occurrences(x) + 1 ELSE Occurrences(x)
    BY <1>1, <2>2 DEF Out, Occurrences
  <2>5. HistoryType' /\ \A x \in Tuples \ DirectTuples : Owed(x)' = Owed(x) /\ Owed(x) \in Int
    BY <2>1, SumUnchanged
  <2>6. ASSUME NEW x \in Tuples \ DirectTuples PROVE Occurrences(x)' = Owed(x)' + Open(x)'
    <3>1. Occurrences(x) = Owed(x) + 0 /\ Owed(x) \in Int /\ Owed(x)' = Owed(x)
      BY <1>0, <2>3, <2>5
    <3>2. CASE x = call[t].tuple
      <4>1. Occurrences(x)' = Occurrences(x) + 1 /\ Open(x)' = 1
        BY <2>3, <2>4, <3>2
      <4> QED
        BY <3>1, <4>1
    <3>3. CASE x # call[t].tuple
      <4>1. Occurrences(x)' = Occurrences(x) /\ Open(x)' = 0
        BY <2>3, <2>4, <3>3
      <4> QED
        BY <3>1, <4>1
    <3> QED
      BY <3>2, <3>3
  <2> QED
    BY <2>5, <2>6
<1>2. CASE Direct(t)
  <2>1. undo = NoUndo /\ tx = NoThread /\ tx' = t /\ call' = call /\ balance' = balance /\ kept' = kept
    BY <1>2, NoThreadFact DEF Direct, TxFree, history
  <2>2. call[t].kind # "out" /\ call[t].tuple \in DirectTuples
    BY <1>2 DEF Direct
  <2>3. \A x : Open(x) = 0 /\ Open(x)' = 0
    BY <2>1, <2>2, NoThreadFact DEF Open
  <2>4. \A x \in Tuples \ DirectTuples : Occurrences(x)' = Occurrences(x)
    BY <1>2, <2>2 DEF Direct, Occurrences
  <2>5. HistoryType' /\ \A x \in Tuples \ DirectTuples : Owed(x)' = Owed(x) /\ Owed(x) \in Int
    BY <2>1, SumUnchanged
  <2> QED
    BY <1>0, <2>3, <2>4, <2>5
<1>3. CASE Commit(t)
  <2>1. tx = t /\ tx' = NoThread /\ asserted' = asserted /\ count' = count
    BY <1>3 DEF Commit
  <2>2. \A x \in Tuples : Occurrences(x)' = Occurrences(x)
    BY <2>1 DEF Occurrences
  <2>3. \A x : Open(x)' = 0
    BY <2>1, NoThreadFact DEF Open
  <2>4. CASE call[t].kind = "out"
    <3>1. \A x : Open(x) = IF x = call[t].tuple THEN 1 ELSE 0
      BY <2>1, <2>4 DEF Open
    <3>2. /\ HistoryType'
          /\ \A x \in Tuples \ DirectTuples :
                /\ Owed(x)' = IF x = call[t].tuple THEN Owed(x) + 1 ELSE Owed(x)
                /\ Owed(x) \in Int
      BY <1>3, <2>4, SumCredited DEF Commit
    <3> QED
      BY <1>0, <2>2, <2>3, <3>1, <3>2
  <2>5. CASE call[t].kind # "out"
    <3>1. \A x : Open(x) = 0
      BY <2>1, <2>5 DEF Open
    <3>2. HistoryType' /\ \A x \in Tuples \ DirectTuples : Owed(x)' = Owed(x) /\ Owed(x) \in Int
      BY <1>3, <2>5, SumUnchanged DEF Commit, history
    <3> QED
      BY <1>0, <2>2, <2>3, <3>1, <3>2
  <2> QED
    BY <2>4, <2>5
<1>4. CASE Veto(t)
  <2>1. tx = t /\ tx' = NoThread /\ count' = count /\ undo # NoUndo
    BY <1>4 DEF Veto
  <2>2. \A x : Open(x)' = 0
    BY <2>1, NoThreadFact DEF Open
  <2>3. undo \in {"add", "remove"} \X Tuples
    BY <2>1
  <2>4. CASE call[t].kind = "out"
    <3>1. undo = <<"add", call[t].tuple>> /\ call[t].tuple \in asserted /\ count[call[t].tuple] = 0
      BY <2>1, <2>4
    <3>2. \A x : Open(x) = IF x = call[t].tuple THEN 1 ELSE 0
      BY <2>1, <2>4 DEF Open
    <3>3. balance' = balance /\ kept' = kept /\ asserted' = asserted \ {call[t].tuple}
      BY <1>4, <2>4, <3>1 DEF Veto, history
    <3>4. \A x \in Tuples : Occurrences(x)' = IF x = call[t].tuple THEN 0 ELSE Occurrences(x)
      BY <2>1, <3>3 DEF Occurrences
    <3>5. Occurrences(call[t].tuple) = 1
      BY <3>1 DEF Occurrences
    <3>6. HistoryType' /\ \A x \in Tuples \ DirectTuples : Owed(x)' = Owed(x) /\ Owed(x) \in Int
      BY <3>3, SumUnchanged
    <3>7. \A x \in Tuples \ DirectTuples : x = call[t].tuple => Owed(x) = 0
      BY <1>0, <3>2, <3>5, <3>6
    <3>8. \A x \in Tuples \ DirectTuples : x # call[t].tuple => Occurrences(x)' = Owed(x)' + Open(x)'
      BY <1>0, <2>2, <3>2, <3>4, <3>6
    <3>9. \A x \in Tuples \ DirectTuples : x = call[t].tuple => Occurrences(x)' = Owed(x)' + Open(x)'
      BY <2>2, <3>4, <3>6, <3>7
    <3> QED
      BY <3>6, <3>8, <3>9
  <2>5. CASE call[t].kind \in {"put", "drop"}
    <3>1. undo[2] \in DirectTuples
      BY <2>1, <2>5
    <3>2. \A x : Open(x) = 0
      BY <2>1, <2>5 DEF Open
    <3>3. /\ balance' = balance /\ kept' = kept
          /\ \A x : x # undo[2] => (x \in asserted' <=> x \in asserted)
      BY <1>4, <2>5 DEF Veto, history
    <3>4. \A x \in Tuples \ DirectTuples : Occurrences(x)' = Occurrences(x)
      BY <2>1, <3>1, <3>3 DEF Occurrences
    <3>5. HistoryType' /\ \A x \in Tuples \ DirectTuples : Owed(x)' = Owed(x) /\ Owed(x) \in Int
      BY <3>3, SumUnchanged
    <3> QED
      BY <1>0, <2>2, <3>2, <3>4, <3>5
  <2>6. CASE call[t].kind \in {"in", "inp"}
    <3>1. undo[1] = "remove" /\ undo[2] \in Tuples /\ undo[2] \notin asserted /\ count[undo[2]] = 0
      BY <2>1, <2>3, <2>6
    <3>2. \A x : Open(x) = 0
      BY <2>1, <2>6 DEF Open
    <3>3. asserted' = asserted \union {undo[2]}
      BY <1>4, <3>1 DEF Veto
    <3>4. /\ HistoryType'
          /\ \A x \in Tuples \ DirectTuples :
                /\ Owed(x)' = IF x = undo[2] THEN Owed(x) + 1 ELSE Owed(x)
                /\ Owed(x) \in Int
      BY <1>4, <2>6, SumCredited DEF Veto
    <3>5. \A x \in Tuples : Occurrences(x)' = IF x = undo[2] THEN 1 ELSE Occurrences(x)
      BY <2>1, <3>1, <3>3 DEF Occurrences
    <3>6. Occurrences(undo[2]) = 0
      BY <3>1 DEF Occurrences
    <3>7. ASSUME NEW x \in Tuples \ DirectTuples PROVE Occurrences(x)' = Owed(x)' + Open(x)'
      <4>1. Occurrences(x) = Owed(x) + 0 /\ Owed(x) \in Int /\ Open(x)' = 0
        BY <1>0, <2>2, <3>2, <3>4
      <4>2. CASE x = undo[2]
        <5>1. Occurrences(x)' = 1 /\ Occurrences(x) = 0 /\ Owed(x)' = Owed(x) + 1
          BY <3>4, <3>5, <3>6, <4>2
        <5> QED
          BY <4>1, <5>1
      <4>3. CASE x # undo[2]
        <5>1. Occurrences(x)' = Occurrences(x) /\ Owed(x)' = Owed(x)
          BY <3>4, <3>5, <4>3
        <5> QED
          BY <4>1, <5>1
      <4> QED
        BY <4>2, <4>3
    <3> QED
      BY <3>4, <3>7
  <2> QED
    BY <1>4, <2>4, <2>5, <2>6 DEF Veto
<1>5. CASE InMatch(t) \/ (Inp(t) /\ Matches(t) # {})
  <2>1. undo = NoUndo /\ tx = NoThread /\ tx' = t /\ call' = call /\ call[t].kind # "out"
    BY <1>5, NoThreadFact DEF InMatch, Inp, TxFree
  <2>2. PICK x \in Matches(t) : ConsumeOne(x) \/ KeepOne(x)
    BY <1>5 DEF InMatch, Inp
  <2>3. x \in asserted
    BY DEF Matches
  <2>4. \A z : Open(z) = 0 /\ Open(z)' = 0
    BY <2>1, NoThreadFact DEF Open
  <2>5. CASE ConsumeOne(x)
    <3>1. /\ HistoryType'
          /\ \A z \in Tuples \ DirectTuples :
                /\ Owed(z)' = IF z = x THEN Owed(z) - 1 ELSE Owed(z)
                /\ Owed(z) \in Int
      <4>1. Credit(x, -1)
        BY <2>5 DEF ConsumeOne
      <4> QED
        BY <4>1, SumCredited
    <3>2. \A z \in Tuples :
             /\ Occurrences(z)' = IF z = x THEN Occurrences(z) - 1 ELSE Occurrences(z)
             /\ Occurrences(z) \in Int
      BY <2>3, <2>5, ConsumedOnce
    <3> QED
      BY <1>0, <2>4, <3>1, <3>2
  <2>6. CASE KeepOne(x)
    <3>1. /\ HistoryType'
          /\ \A z : Occurrences(z)' = Occurrences(z)
          /\ \A z \in Tuples \ DirectTuples : Owed(z)' = Owed(z)
      BY <2>3, <2>6, KeptOnce
    <3> QED
      BY <1>0, <2>4, <3>1
  <2> QED
    BY <2>2, <2>5, <2>6
<1>6. CASE Inp(t) /\ Matches(t) = {}
  <2>1. tx = NoThread /\ tx' = t /\ call' = call /\ call[t].kind # "out"
    BY <1>6 DEF Inp, TxFree
  <2>2. asserted' = asserted /\ count' = count /\ balance' = balance /\ kept' = kept
    BY <1>6 DEF Inp, storeVars, history
  <2>3. \A z : Open(z) = 0 /\ Open(z)' = 0 /\ Occurrences(z)' = Occurrences(z)
    BY <2>1, <2>2, NoThreadFact DEF Open, Occurrences
  <2>4. HistoryType' /\ \A x \in Tuples \ DirectTuples : Owed(x)' = Owed(x) /\ Owed(x) \in Int
    BY <2>2, SumUnchanged
  <2> QED
    BY <1>0, <2>3, <2>4
<1>7. CASE ~ Out(t) /\ ~ Direct(t) /\ ~ Commit(t) /\ ~ Veto(t) /\ ~ InMatch(t) /\ ~ Inp(t)
  <2>1. asserted' = asserted /\ count' = count /\ balance' = balance /\ kept' = kept /\ tx' = tx
    BY <1>7, TransactionFrame
  <2>2. tx = t => FALSE
    BY <1>7 DEF CallStep, Environment, OperationEnd, Broadcast, OperationFails, Lock, Check,
       RdMatch, InNoMatch, MatchFails, Wait, Late, Rdp, GuardBegin, GuardEnd, Spawn, Drain,
       OperationBegin, DirectBegin, Eval, Close, Delete, MayCall, WorkerEnd, Spurious, Timeout
  <2>3. \A z : Open(z)' = Open(z)
    <3>0. \A u \in Threads \ {t} : call'[u] = call[u]
      BY CallFrame
    <3>1. tx \in Threads => call'[tx] = call[tx]
      BY <2>2, <3>0
    <3> QED
      BY <2>1, <3>1 DEF Open
  <2>4. \A z : Occurrences(z)' = Occurrences(z)
    BY <2>1 DEF Occurrences
  <2>5. HistoryType' /\ \A x \in Tuples \ DirectTuples : Owed(x)' = Owed(x) /\ Owed(x) \in Int
    BY <2>1, SumUnchanged
  <2> QED
    BY <1>0, <2>3, <2>4, <2>5
<1> QED
  BY <1>1, <1>2, <1>3, <1>4, <1>5, <1>6, <1>7

-----------------------------------------------------------------------------
(* Wake-ups *)

\* The open transaction's new tuple will be announced to every pattern it matches:
\* by the commit observer, or by linda_out when the tuple was derived already.
LEMMA Announced ==
    ASSUME StoreType, ThreadType, CallsFit, UndoFits, Derived \intersect DirectTuples = {},
           NEW x \in Tuples, undo = <<"add", x>>, NEW q \in Patterns, x \in q.tuples
    PROVE  LET s == Observed \o Signalled(call[tx]) IN \E i \in DOMAIN s : s[i] = q.cond
<1> DEFINE o == Observed
           g == Signalled(call[tx])
<1>1. undo # NoUndo /\ undo[2] = x /\ tx \in Threads
  BY DEF UndoFits, NoUndo
<1>2. call[tx].kind \in {"out", "put"} /\ call[tx].tuple = x
  BY <1>1 DEF UndoFits
<1>3. q.cond = 0 \/ q.cond = PartitionOf[x]
  OBVIOUS
<1>4. o \in Seq(Int) /\ g \in Seq(Int)
  BY <1>1, <1>2 DEF Observed, Signalled
<1>5. o = <<0, PartitionOf[x]>> \/ g = <<0, PartitionOf[x]>>
  BY <1>1, <1>2 DEF Observed, Signalled, CallsFit
<1> HIDE DEF o, g
<1>6. Len(o \o g) = Len(o) + Len(g) /\ DOMAIN (o \o g) = 1..(Len(o) + Len(g))
  BY <1>4
<1>7. /\ \A i \in 1..Len(o) : (o \o g)[i] = o[i]
      /\ \A i \in 1..Len(g) : (o \o g)[Len(o) + i] = g[i]
  BY <1>4
<1>8. CASE o = <<0, PartitionOf[x]>>
  <2>1. Len(o) = 2 /\ o[1] = 0 /\ o[2] = PartitionOf[x]
    BY <1>8
  <2>2. 1 \in DOMAIN (o \o g) /\ 2 \in DOMAIN (o \o g)
    BY <1>4, <1>6, <2>1
  <2> QED
    BY <1>3, <1>7, <2>1, <2>2 DEF o, g
<1>9. CASE g = <<0, PartitionOf[x]>>
  <2>1. Len(g) = 2 /\ g[1] = 0 /\ g[2] = PartitionOf[x]
    BY <1>9
  <2>2. Len(o) + 1 \in DOMAIN (o \o g) /\ Len(o) + 2 \in DOMAIN (o \o g)
    BY <1>4, <1>6, <2>1
  <2> QED
    BY <1>3, <1>7, <2>1, <2>2 DEF o, g
<1> QED
  BY <1>5, <1>8, <1>9

\* Only a commit settles a tuple.
LEMMA SettledFrame ==
    ASSUME StoreType, LockType, ThreadType, CallsFit, TxFits, UndoFits,
           NEW t \in Threads, CallStep(t) \/ Environment(t), ~ Commit(t),
           NEW x, Settled(x)'
    PROVE  Settled(x)
<1> USE NoThreadFact DEF StoreType, LockType, ThreadType, CallsFit, TxFits, UndoFits, NoUndo, Settled
<1>1. CASE Out(t)
  BY <1>1 DEF Out, TxFree
<1>2. CASE Direct(t)
  BY <1>2 DEF Direct, TxFree
<1>3. CASE Veto(t)
  BY <1>3 DEF Veto
<1>4. CASE InMatch(t)
  <2>1. PICK z \in Matches(t) : ConsumeOne(z) \/ KeepOne(z)
    BY <1>4 DEF InMatch
  <2> QED
    BY <1>4, <2>1 DEF InMatch, TxFree, ConsumeOne, KeepOne, Matches, storeVars
<1>5. CASE Inp(t)
  <2>1. CASE Matches(t) = {}
    BY <1>5, <2>1 DEF Inp, storeVars
  <2>2. CASE Matches(t) # {}
    <3>1. PICK z \in Matches(t) : ConsumeOne(z)
      BY <1>5, <2>2 DEF Inp
    <3> QED
      BY <1>5, <3>1 DEF Inp, TxFree, ConsumeOne, Matches
  <2> QED
    BY <2>1, <2>2
<1>6. CASE ~ Out(t) /\ ~ Direct(t) /\ ~ Veto(t) /\ ~ InMatch(t) /\ ~ Inp(t)
  BY <1>6, TransactionFrame
<1> QED
  BY <1>1, <1>2, <1>3, <1>4, <1>5, <1>6

\* Only a broadcast takes a partition off the lists of the partitions to wake.
LEMMA WokenFrame ==
    ASSUME ThreadType, WakeType, WakesFit,
           NEW t \in Threads, CallStep(t) \/ Environment(t), ~ Broadcast(t),
           NEW p, Woken(p)
    PROVE  Woken(p)'
<1>1. PICK u \in Threads : \E i \in DOMAIN wake[u] : wake[u][i] = p
  BY DEF Woken
<1>2. wake[u] # <<>>
  BY <1>1 DEF WakeType
<1>3. CASE Commit(t) \/ Close(t) \/ Delete(t)
  <2>1. pc[t] # "wake" /\ \E s : wake' = [wake EXCEPT ![t] = s]
    BY <1>3 DEF Commit, StartWaking, Close, Delete, Shut, MayCall
  <2>2. u # t
    BY <1>2, <2>1 DEF WakesFit
  <2> QED
    BY <1>1, <2>1, <2>2 DEF Woken, WakeType
<1>4. CASE ~ Commit(t) /\ ~ Close(t) /\ ~ Delete(t)
  BY <1>1, <1>4, WakeFrame DEF Woken
<1> QED
  BY <1>3, <1>4

\* A thread begins to wait when it has found no tuple, and to match when the space
\* is open.
LEMMA WaitFrame ==
    ASSUME ThreadType, CallsFit, WakesFit, ~ freed,
           NEW t \in Threads, CallStep(t) \/ Environment(t), NEW u \in Threads
    PROVE  /\ pc'[u] \in {"match", "wait", "asleep"} => call'[u] = call[u]
           /\ pc'[u] \in {"wait", "asleep"} =>
                 pc[u] \in {"wait", "asleep"} \/ RdMatch(u) \/ InNoMatch(u)
           /\ pc'[u] \in {"match", "wait", "asleep"} =>
                 pc[u] \in {"match", "wait", "asleep"} \/ ~ closed
<1> USE DEF ThreadType, CallsFit, WakesFit, NoCall
<1>1. CASE OperationEnd(t)
  BY <1>1 DEF OperationEnd, WakeDrain, storeVars, lifeVars
<1>2. CASE Broadcast(t)
  BY <1>2, AfterWakeFacts DEF Broadcast, storeVars, lifeVars
<1>3. CASE Out(t)
  BY <1>3 DEF Out, Goto, TxFree, storeVars, lifeVars
<1>4. CASE OperationFails(t)
  BY <1>4 DEF OperationFails, Goto, storeVars, lifeVars
<1>5. CASE Direct(t)
  BY <1>5 DEF Direct, Goto, TxFree, storeVars, lifeVars
<1>6. CASE Commit(t)
  BY <1>6, AfterWakeFacts DEF Commit, StartWaking, Goto, Credit, storeVars, lifeVars
<1>7. CASE Veto(t)
  BY <1>7, AfterWakeFacts DEF Veto, Goto, Credit, storeVars, lifeVars
<1>8. CASE Lock(t)
  BY <1>8 DEF Lock, Goto, storeVars, lifeVars
<1>9. CASE Check(t)
  BY <1>9 DEF Check, Goto, Unlocked, storeVars, lifeVars
<1>10. CASE RdMatch(t)
  BY <1>10 DEF RdMatch, Goto, Unlocked, storeVars, lifeVars
<1>11. CASE InMatch(t)
  BY <1>11 DEF InMatch, Goto, Unlocked, TxFree, ConsumeOne, KeepOne, Credit, storeVars, lifeVars
<1>12. CASE InNoMatch(t)
  BY <1>12 DEF InNoMatch, Goto, TxFree, storeVars, lifeVars
<1>13. CASE MatchFails(t)
  BY <1>13 DEF MatchFails, Goto, Unlocked, storeVars, lifeVars
<1>14. CASE Wait(t)
  BY <1>14 DEF Wait, Goto, Unlocked, storeVars, lifeVars
<1>15. CASE Late(t)
  BY <1>15 DEF Late, Goto, storeVars, lifeVars
<1>16. CASE Rdp(t)
  BY <1>16 DEF Rdp, Goto, storeVars, lifeVars
<1>17. CASE Inp(t)
  BY <1>17 DEF Inp, Goto, TxFree, ConsumeOne, Credit, storeVars, lifeVars
<1>18. CASE GuardBegin(t)
  BY <1>18 DEF GuardBegin, Goto, storeVars, lifeVars
<1>19. CASE GuardEnd(t)
  BY <1>19 DEF GuardEnd, Goto, storeVars, lifeVars
<1>20. CASE Spawn(t)
  BY <1>20 DEF Spawn, Goto, WakeDrain, storeVars, lifeVars
<1>21. CASE Drain(t)
  BY <1>21 DEF Drain, Goto, storeVars, lifeVars
<1>22. CASE OperationBegin(t)
  BY <1>22, OperationFacts DEF OperationBegin, Goto, MayCall, storeVars, lifeVars
<1>23. CASE DirectBegin(t)
  BY <1>23 DEF DirectBegin, Goto, MayCall, storeVars, lifeVars
<1>24. CASE Eval(t)
  BY <1>24 DEF Eval, Goto, MayCall, storeVars, lifeVars
<1>25. CASE Close(t)
  BY <1>25, AfterWakeFacts DEF Close, Shut, Goto, MayCall, storeVars, lifeVars
<1>26. CASE Delete(t)
  BY <1>26, AfterWakeFacts DEF Delete, Shut, Goto, MayCall, storeVars, lifeVars
<1>27. CASE WorkerEnd(t)
  BY <1>27 DEF WorkerEnd, WakeDrain, storeVars, lifeVars
<1>28. CASE Spurious(t)
  BY <1>28 DEF Spurious, Goto, storeVars, lifeVars
<1>29. CASE Timeout(t)
  BY <1>29 DEF Timeout, Goto, storeVars, lifeVars
<1> QED
  BY <1>1, <1>2, <1>3, <1>4, <1>5, <1>6, <1>7, <1>8, <1>9, <1>10, <1>11, <1>12, <1>13,
     <1>14, <1>15, <1>16, <1>17, <1>18, <1>19, <1>20, <1>21, <1>22, <1>23, <1>24, <1>25,
     <1>26, <1>27, <1>28, <1>29 DEF CallStep, Environment

\* A broadcast needs the mutex, so that it finds no thread between its look and its
\* sleep, and wakes every thread that sleeps.
LEMMA BroadcastKeeps ==
    ASSUME ThreadType, WakeType, WakesFit, MutexesFit,
           NEW t \in Threads, Broadcast(t),
           NEW u \in Threads, pc'[u] \in {"match", "wait", "asleep"},
           pc[u] \in {"match", "wait", "asleep"},
           call'[u] = call[u], Partition(u) \in Partitions, Woken(Partition(u))
    PROVE  Woken(Partition(u))'
<1>0. Partition(u)' = Partition(u)
  BY DEF Partition
<1> DEFINE p == Head(wake[t])
<1>1. wake[t] # <<>> /\ wake[t] \in Seq(Partitions)
  BY DEF Broadcast, WakesFit, WakeType
<1>2. mutex[p] = NoThread /\ wake' = [wake EXCEPT ![t] = Tail(wake[t])]
  BY DEF Broadcast
<1>3. p # Partition(u)
  <2>1. CASE pc[u] \in {"match", "wait"}
    BY <1>2, <2>1, NoThreadFact DEF MutexesFit
  <2>2. CASE pc[u] = "asleep"
    <3>1. u # t
      BY <2>2 DEF Broadcast
    <3> QED
      BY <2>2, <3>1 DEF Broadcast
  <2> QED
    BY <2>1, <2>2
<1>a. PICK v \in Threads : \E i \in DOMAIN wake[v] : wake[v][i] = Partition(u)
  BY DEF Woken
<1>4. PICK i \in DOMAIN wake[v] : wake[v][i] = Partition(u)
  BY <1>a
<1>5. CASE v # t
  <2>1. wake'[v] = wake[v]
    BY <1>2, <1>5 DEF WakeType
  <2> QED
    BY <1>0, <1>4, <2>1 DEF Woken
<1>6. CASE v = t
  <2>1. i \in 1..Len(wake[t]) /\ wake[t][1] = p
    BY <1>1, <1>4, <1>6
  <2>2. i # 1
    BY <1>3, <1>4, <1>6, <2>1
  <2>3. i - 1 \in DOMAIN Tail(wake[t]) /\ Tail(wake[t])[i - 1] = wake[t][i]
    BY <1>1, <2>1, <2>2
  <2>4. wake'[t] = Tail(wake[t])
    BY <1>2 DEF WakeType
  <2>5. \E j \in DOMAIN wake'[t] : wake'[t][j] = Partition(u)'
    BY <1>0, <1>4, <1>6, <2>3, <2>4
  <2> QED
    BY <2>5 DEF Woken
<1> QED
  BY <1>5, <1>6


LEMMA WakeupsStep ==
    ASSUME IInv, WakeupsUnderWay, Derived \intersect DirectTuples = {}, ~ freed,
           NEW t \in Threads, CallStep(t) \/ Environment(t)
    PROVE  WakeupsUnderWay'
<1> USE DEF IInv, TypeOK
<1>0. ASSUME NEW u \in Threads, pc[u] \in {"match", "wait", "asleep"}
      PROVE  call[u].pattern \in Patterns /\ Partition(u) \in Partitions
  BY <1>0 DEF CallsFit, Partition, Partitions
<1>1. ASSUME NEW u \in Threads, pc'[u] \in {"wait", "asleep"},
             NEW x \in call'[u].pattern.tuples, Settled(x)'
      PROVE  Woken(Partition(u))'
  <2>1. call'[u] = call[u] /\ Partition(u)' = Partition(u)
    BY <1>1, WaitFrame DEF Partition
  <2>2. CASE RdMatch(u) \/ InNoMatch(u)
    <3>1. x \notin asserted /\ undo = NoUndo
      BY <1>1, <2>1, <2>2, NoThreadFact DEF RdMatch, InNoMatch, TxFree, Goto, Matches, UndoFits,
         ThreadType
    <3>2. ~ Settled(x)
      BY <3>1 DEF Settled, NoUndo
    <3>3. ~ Commit(t)
      BY <2>2, NoThreadFact DEF Commit, TxFits, RdMatch, InNoMatch, TxFree
    <3> QED
      BY <1>1, <3>2, <3>3, SettledFrame
  <2>3. CASE pc[u] \in {"wait", "asleep"} /\ Commit(t)
    <3>1. tx = t /\ wake' = [wake EXCEPT ![t] = Observed \o Signalled(call[t])]
      BY <2>3 DEF Commit, StartWaking, TxFits
    <3>2. CASE undo = <<"add", x>>
      <4>1. x \in Tuples /\ call[u].pattern \in Patterns
        BY <1>0, <1>1, <2>1, <2>3
      <4>2. \E i \in DOMAIN (Observed \o Signalled(call[tx])) :
               (Observed \o Signalled(call[tx]))[i] = Partition(u)
        BY <1>1, <2>1, <3>2, <4>1, Announced DEF Partition
      <4>3. wake'[t] = Observed \o Signalled(call[tx])
        BY <3>1 DEF WakeType
      <4> QED
        BY <2>1, <4>2, <4>3 DEF Woken
    <3>3. CASE undo # <<"add", x>>
      <4>1. Settled(x)
        BY <1>1, <2>3, <3>3 DEF Settled, Commit, NoUndo
      <4>2. Woken(Partition(u))
        BY <1>1, <2>1, <2>3, <4>1 DEF WakeupsUnderWay
      <4>3. ~ Broadcast(t)
        BY <2>3 DEF Commit, Broadcast
      <4> QED
        BY <2>1, <4>2, <4>3, WokenFrame
    <3> QED
      BY <3>2, <3>3
  <2>4. CASE pc[u] \in {"wait", "asleep"} /\ ~ Commit(t)
    <3>1. Woken(Partition(u))
      BY <1>1, <2>1, <2>4, SettledFrame DEF WakeupsUnderWay
    <3>2. CASE ~ Broadcast(t)
      BY <2>1, <3>1, <3>2, WokenFrame
    <3>3. CASE Broadcast(t)
      BY <1>0, <1>1, <2>1, <2>4, <3>1, <3>3, BroadcastKeeps
    <3> QED
      BY <3>2, <3>3
  <2> QED
    BY <1>1, <2>2, <2>3, <2>4, WaitFrame
<1>2. ASSUME NEW u \in Threads, pc'[u] \in {"match", "wait", "asleep"}, closed'
      PROVE  Woken(Partition(u))'
  <2>1. call'[u] = call[u] /\ Partition(u)' = Partition(u)
    BY <1>2, WaitFrame DEF Partition
  <2>2. CASE closed
    <3>1. pc[u] \in {"match", "wait", "asleep"}
      BY <1>2, <2>2, WaitFrame
    <3>2. Woken(Partition(u))
      BY <2>2, <3>1 DEF WakeupsUnderWay
    <3>3. CASE ~ Broadcast(t)
      BY <2>1, <3>2, <3>3, WokenFrame
    <3>4. CASE Broadcast(t)
      BY <1>0, <1>2, <2>1, <3>1, <3>2, <3>4, BroadcastKeeps
    <3> QED
      BY <3>3, <3>4
  <2>3. CASE ~ closed
    <3>1. Close(t) \/ Delete(t)
      BY <1>2, <2>3, LifeFrame DEF OperationBegin, OperationEnd, Eval, Spawn, WorkerEnd, Drain
    <3>2. wake' = [wake EXCEPT ![t] = Ascending]
      BY <2>3, <3>1 DEF Close, Delete, Shut
    <3>3. Partition(u) \in Partitions
      <4>1. pc'[t] \notin {"match", "wait", "asleep"}
        BY <3>1, AfterWakeFacts DEF Close, Delete, Shut, Goto, ThreadType
      <4>2. pc'[u] = pc[u]
        BY <1>2, <3>1, <4>1 DEF Close, Delete, Shut, Goto, ThreadType
      <4> QED
        BY <1>0, <1>2, <4>2
    <3>4. wake'[t] = Ascending
      BY <3>2 DEF WakeType
    <3> QED
      BY <2>1, <3>3, <3>4, AscendingFacts DEF Woken
  <2> QED
    BY <2>2, <2>3
<1> QED
  BY <1>1, <1>2 DEF WakeupsUnderWay


-----------------------------------------------------------------------------
(* The theorems *)

LEMMA InitIInv == Init => IInv
<1> SUFFICES ASSUME Init PROVE IInv
  OBVIOUS
<1> USE DEF Init
<1>1. StoreType /\ HistoryType
  BY DEF StoreType, HistoryType, NoUndo
<1>2. LockType /\ MutexType
  BY DEF LockType, MutexType
<1>3. ThreadType
  BY LocationFacts DEF ThreadType
<1>4. WakeType
  BY DEF WakeType
<1>5. LifeType
  BY DEF LifeType
<1>6. CallsFit
  BY DEF CallsFit, NoCall
<1>7. TxFits
  BY NoThreadFact DEF TxFits
<1>8. MutexesFit
  BY NoThreadFact DEF MutexesFit
<1>9. WakesFit
  BY DEF WakesFit
<1>10. UndoFits
  BY DEF UndoFits
<1>11. LifeFits
  <2>1. Operating = {} /\ Spawning = {}
    BY DEF Operating, Spawning, OperationKinds, NoCall
  <2>2. \A t \in Threads : call[t].kind = "none"
    BY DEF NoCall
  <2>3. Workers \subseteq Threads
    BY DEF Threads
  <2> QED
    BY <2>1, <2>2, <2>3, FS_EmptySet DEF LifeFits
<1>12. Conservation
  <2>1. \A x \in Tuples \ DirectTuples : Occurrences(x) = Owed(x) + Open(x)
    BY NoThreadFact DEF Occurrences, Owed, Open
  <2> QED
    BY <1>7, <2>1, OpenCount
<1>13. NoUseAfterFree
  BY DEF NoUseAfterFree
<1> QED
  BY <1>1, <1>2, <1>3, <1>4, <1>5, <1>6, <1>7, <1>8, <1>9, <1>10, <1>11, <1>12, <1>13
     DEF IInv, TypeOK

LEMMA StepIInv == IInv /\ [Next]_vars => IInv'
<1> SUFFICES ASSUME IInv, [Next]_vars PROVE IInv'
  OBVIOUS
<1>1. ASSUME UNCHANGED vars PROVE IInv'
  <2>1. TypeOK'
    BY <1>1 DEF vars, IInv, TypeOK, StoreType, LockType, MutexType, ThreadType, WakeType,
       LifeType, HistoryType
  <2>2. CallsFit' /\ TxFits' /\ MutexesFit' /\ WakesFit'
    BY <1>1 DEF vars, IInv, CallsFit, TxFits, MutexesFit, WakesFit, Partition
  <2>3. UndoFits' /\ LifeFits' /\ NoUseAfterFree'
    BY <1>1 DEF vars, IInv, UndoFits, LifeFits, Operating, Spawning, Deleting, NoUseAfterFree
  <2>4. Conservation'
    BY <1>1 DEF vars, IInv, Conservation, Occurrences, Adding
  <2> QED
    BY <2>1, <2>2, <2>3, <2>4 DEF IInv
<1>2. ASSUME NEW t \in Threads, CallStep(t) \/ Environment(t) PROVE IInv'
  <2>1. ~ freed
    BY <1>2, FreedStops DEF IInv
  <2>2. StoreType' /\ LockType' /\ MutexType' /\ ThreadType' /\ WakeType'
    BY <1>2, StoreTypeStep, LockTypeStep, MutexTypeStep, ThreadTypeStep, WakeTypeStep
       DEF IInv, TypeOK
  <2>3. CallsFit' /\ TxFits' /\ MutexesFit' /\ WakesFit' /\ UndoFits'
    BY <1>2, <2>1, CallsStep, TxStep, MutexesStep, WakesStep, UndoStep DEF IInv, TypeOK
  <2>4. LifeFits' /\ LifeType'
    BY <1>2, <2>1, LifeStep DEF IInv, TypeOK
  <2>5. Conservation' /\ HistoryType'
    BY <1>2, <2>1, <2>3, ConservationStep DEF IInv, TypeOK
  <2>6. NoUseAfterFree'
    BY <1>2, <2>1, <2>3, FreedStep DEF IInv, TypeOK
  <2> QED
    BY <2>2, <2>3, <2>4, <2>5, <2>6 DEF IInv, TypeOK
<1> QED
  BY <1>1, <1>2 DEF Next, Finished

\* The type invariant and what each thread, lock, journal and counter has to do with
\* the others hold in every reachable state of linda.c's tuple space.
THEOREM IInvHolds == Spec => []IInv
BY InitIInv, StepIInv, PTL DEF Spec

\* No tuple is lost by linda_out, linda_in and linda_inp, and none is handed out
\* twice but the ones that a linda_in returned and failed to remove, each counted
\* by `kept', whatever the number of threads and tuples, commits that a listener
\* vetoes included.
THEOREM ConservationHolds == Spec => []Conservation
<1>1. IInv => Conservation
  BY DEF IInv
<1> QED
  BY <1>1, IInvHolds, PTL

\* delete_linda_space frees the space under no thread that is inside a call or holds
\* a read guard, and under no running worker.
THEOREM NoUseAfterFreeHolds == Spec => []NoUseAfterFree
<1>1. IInv => NoUseAfterFree
  BY DEF IInv
<1> QED
  BY <1>1, IInvHolds, PTL

\* A thread inside a partition's mutex waits at most for the database, and who
\* holds the database waits for nobody: no set of threads waits in a circle.
THEOREM NoLockCycleHolds == Spec => []NoLockCycle
<1>1. IInv => NoLockCycle
  <2> SUFFICES ASSUME IInv, NEW S \in (SUBSET Threads) \ {{}}
               PROVE  \E t \in S : \A u \in S : ~ WaitsFor(t, u)
    BY DEF NoLockCycle
  <2>0. S \subseteq Threads /\ S # {}
    OBVIOUS
  <2>1. ASSUME NEW t \in Threads, NEW u \in Threads, WaitsFor(t, u)
        PROVE  \/ pc[t] \in {"lock", "woken", "late", "wake"} /\ pc[u] \in {"check", "match", "wait"}
               \/ /\ pc[t] \in {"out", "direct", "inp", "match", "rdp", "guard"}
                  /\ pc[u] \in {"commit", "reading"}
    <3>1. ASSUME pc[t] \in {"lock", "woken", "late"}, mutex[Partition(t)] = u
          PROVE  pc[u] \in {"check", "match", "wait"}
      <4>1. Partition(t) \in Partitions
        BY <3>1 DEF IInv, CallsFit, Partition, Partitions
      <4> QED
        BY <3>1, <4>1 DEF IInv, MutexesFit
    <3>2. ASSUME pc[t] = "wake", mutex[Head(wake[t])] = u
          PROVE  pc[u] \in {"check", "match", "wait"}
      <4>1. Head(wake[t]) \in Partitions
        BY <3>2 DEF IInv, TypeOK, WakeType, WakesFit
      <4> QED
        BY <3>2, <4>1 DEF IInv, MutexesFit
    <3>3. tx = u => pc[u] = "commit"
      BY DEF IInv, TxFits
    <3>4. u \in guards => pc[u] = "reading"
      BY DEF IInv, TxFits
    <3> QED
      BY <2>1, <3>1, <3>2, <3>3, <3>4 DEF WaitsFor
  <2>2. CASE \E t \in S : pc[t] \notin {"lock", "woken", "late", "wake", "out", "direct", "inp",
                                        "match", "rdp", "guard"}
    BY <2>0, <2>1, <2>2
  <2>3. CASE \A t \in S : pc[t] \in {"lock", "woken", "late", "wake", "out", "direct", "inp",
                                     "match", "rdp", "guard"}
    <3>1. CASE \E t \in S : pc[t] = "match"
      BY <2>0, <2>1, <2>3, <3>1
    <3>2. CASE \A t \in S : pc[t] # "match"
      BY <2>0, <2>1, <2>3, <3>2
    <3> QED
      BY <3>1, <3>2
  <2> QED
    BY <2>2, <2>3
<1> QED
  BY <1>1, IInvHolds, PTL

\* No wake-up is lost between the look at the database and pthread_cond_wait, as
\* long as the application does not itself assert tuples that rules derive: the
\* commit summary does not name those.
THEOREM NoLostWakeupHolds ==
    ASSUME Derived \intersect DirectTuples = {}
    PROVE  Spec => []NoLostWakeup
<1>1. Init => WakeupsUnderWay
  BY DEF Init, WakeupsUnderWay
<1>2. IInv /\ WakeupsUnderWay /\ [Next]_vars => WakeupsUnderWay'
  <2> SUFFICES ASSUME IInv, WakeupsUnderWay, [Next]_vars PROVE WakeupsUnderWay'
    OBVIOUS
  <2>1. CASE UNCHANGED vars
    BY <2>1 DEF vars, WakeupsUnderWay, Settled, Woken, Partition
  <2>2. ASSUME NEW t \in Threads, CallStep(t) \/ Environment(t) PROVE WakeupsUnderWay'
    <3>1. ~ freed
      BY <2>2, FreedStops DEF IInv
    <3> QED
      BY <2>2, <3>1, WakeupsStep
  <2> QED
    BY <2>1, <2>2 DEF Next, Finished
<1>3. IInv /\ WakeupsUnderWay => NoLostWakeup
  <2> SUFFICES ASSUME IInv, WakeupsUnderWay, NEW t \in Threads, pc[t] = "asleep",
                      closed \/ Matches(t) # {}
               PROVE  \E u \in Threads : Partition(t) \in Pending(u)
    BY DEF NoLostWakeup
  <2>1. CASE Woken(Partition(t))
    <3>1. PICK u \in Threads : \E i \in DOMAIN wake[u] : wake[u][i] = Partition(t)
      BY <2>1 DEF Woken
    <3>2. wake[u] # <<>>
      BY <3>1 DEF IInv, TypeOK, WakeType
    <3>3. pc[u] # "commit"
      BY <3>2 DEF IInv, WakesFit
    <3> QED
      BY <3>1, <3>3 DEF Pending
  <2>2. CASE ~ Woken(Partition(t))
    <3>1. PICK x \in Matches(t) : x \in asserted /\ x \in call[t].pattern.tuples
      BY <2>2 DEF WakeupsUnderWay, Matches
    <3>2. undo = <<"add", x>>
      BY <2>2, <3>1 DEF WakeupsUnderWay, Settled
    <3>3. tx \in Threads /\ pc[tx] = "commit"
      BY <3>2 DEF IInv, UndoFits, NoUndo, TxFits
    <3>4. call[t].pattern \in Patterns /\ x \in Tuples
      BY <3>1 DEF IInv, TypeOK, StoreType, CallsFit
    <3>5. \E i \in DOMAIN (Observed \o Signalled(call[tx])) :
             (Observed \o Signalled(call[tx]))[i] = Partition(t)
      BY <3>1, <3>2, <3>4, Announced DEF IInv, TypeOK, Partition
    <3> QED
      BY <3>3, <3>5 DEF Pending
  <2> QED
    BY <2>1, <2>2
<1> QED
  BY <1>1, <1>2, <1>3, IInvHolds, PTL DEF Spec


=============================================================================
