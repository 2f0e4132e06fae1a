---------------------------- MODULE AtomicStore ----------------------------
(***************************************************************************)
(* What the fact store promises to the threads that share it: a writer     *)
(* works on a copy that nobody else sees and either publishes all of it or *)
(* abandons all of it, and nothing is published while anybody reads.  The  *)
(* promise has one exception, which the code makes silently: abandoning    *)
(* may lose a fact when there is no memory to insert it again.             *)
(***************************************************************************)
CONSTANTS Threads, NoThread, Facts, Origins

VARIABLES db,        \* what a reader that starts now sees
          work,      \* the writer's copy
          writer,    \* the thread that writes, or NoThread
          aborting,  \* the writer has decided to abandon its work
          readers    \* the threads that are reading

atomicVars == <<db, work, writer, aborting, readers>>

Contents == [Facts -> SUBSET Origins]

Empty == [f \in Facts |-> {}]

AtomicInit ==
    /\ db = Empty
    /\ work = Empty
    /\ writer = NoThread
    /\ aborting = FALSE
    /\ readers = {}

Open(t) ==
    /\ writer = NoThread
    /\ readers = {}
    /\ writer' = t
    /\ UNCHANGED <<db, work, aborting, readers>>

Write(t) ==
    /\ writer = t
    /\ work' \in Contents
    /\ UNCHANGED <<db, writer, aborting, readers>>

Publish(t) ==
    /\ writer = t
    /\ ~ aborting
    /\ db' = work
    /\ writer' = NoThread
    /\ UNCHANGED <<work, aborting, readers>>

GiveUp(t) ==
    /\ writer = t
    /\ aborting' = TRUE
    /\ UNCHANGED <<db, work, writer, readers>>

Abandon(t) ==
    /\ writer = t
    /\ aborting
    /\ \E lost \in SUBSET Facts : db' = [f \in Facts |-> IF f \in lost THEN {} ELSE db[f]]
    /\ work' = db'
    /\ writer' = NoThread
    /\ aborting' = FALSE
    /\ UNCHANGED readers

Erase ==
    /\ writer = NoThread
    /\ readers = {}
    /\ db' = Empty
    /\ work' = Empty
    /\ UNCHANGED <<writer, aborting, readers>>

Reading(t) ==
    /\ writer = NoThread
    /\ readers' = readers \union {t}
    /\ UNCHANGED <<db, work, writer, aborting>>

DoneReading(t) ==
    /\ readers' = readers \ {t}
    /\ UNCHANGED <<db, work, writer, aborting>>

AtomicNext ==
    \/ Erase
    \/ \E t \in Threads :
          \/ Open(t) \/ Write(t) \/ Publish(t) \/ GiveUp(t) \/ Abandon(t)
          \/ Reading(t) \/ DoneReading(t)

AtomicSpec == AtomicInit /\ [][AtomicNext]_atomicVars
=============================================================================
