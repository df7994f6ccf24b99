------------------------------- MODULE RWLock -------------------------------
(***************************************************************************)
(* The multiple readers/single writer lock of the gatherer's registries    *)
(* and of the local repository (util/mrwlock.c): a mutex, a condition      *)
(* variable and a count of readers.  A writer keeps the mutex while it     *)
(* writes; a reader has it only while it changes the count.                *)
(***************************************************************************)
EXTENDS Integers, FiniteSets

CONSTANTS Threads, NoThread

ASSUME ThreadsAssumption == IsFiniteSet(Threads) /\ NoThread \notin Threads

VARIABLES mrw_mutex,   \* the thread that owns the mutex between its calls
          mrw_rnum,    \* count of readers
          waiting,     \* wait set of mrw_cond
          pc           \* where each thread is

vars == <<mrw_mutex, mrw_rnum, waiting, pc>>

At(t, label)   == pc[t] = label
Goto(t, label) == pc' = [pc EXCEPT ![t] = label]

Init ==
  /\ mrw_mutex = NoThread
  /\ mrw_rnum = 0
  /\ waiting = {}
  /\ pc = [t \in Threads |-> "out"]

MReadLock(t) ==
  /\ At(t, "out")
  /\ mrw_mutex = NoThread
  /\ mrw_rnum' = mrw_rnum + 1
  /\ Goto(t, "reading")
  /\ UNCHANGED <<mrw_mutex, waiting>>

\* Mutant: the last reader does not broadcast.
ReadUnlockSilently(t) ==
  /\ At(t, "reading")
  /\ mrw_mutex = NoThread
  /\ mrw_rnum' = mrw_rnum - 1
  /\ Goto(t, "out")
  /\ UNCHANGED <<mrw_mutex, waiting>>

MReadUnlock(t) ==
  /\ At(t, "reading")
  /\ mrw_mutex = NoThread
  /\ mrw_rnum' = mrw_rnum - 1
  /\ waiting' = IF mrw_rnum' = 0 THEN {} ELSE waiting
  /\ Goto(t, "out")
  /\ UNCHANGED mrw_mutex

\* Mutant: the writer does not wait for the readers.
WriteAtOnce(t) ==
  /\ mrw_mutex = NoThread
  /\ mrw_mutex' = t
  /\ Goto(t, "writing")
  /\ UNCHANGED <<mrw_rnum, waiting>>

\* The loop of MWriteLock for a thread that has got the mutex: wait, which
\* releases the mutex, while there are readers; otherwise keep it.
WriteLoop(t) ==
  /\ mrw_mutex = NoThread
  /\ IF mrw_rnum # 0
     THEN /\ waiting' = waiting \union {t}
          /\ Goto(t, "waiting")
          /\ UNCHANGED mrw_mutex
     ELSE /\ mrw_mutex' = t
          /\ Goto(t, "writing")
          /\ UNCHANGED waiting
  /\ UNCHANGED mrw_rnum

MWriteLock(t) == At(t, "out") /\ WriteLoop(t)

WriterWokenUp(t) == At(t, "waiting") /\ t \notin waiting /\ WriteLoop(t)

MWriteUnlock(t) ==
  /\ At(t, "writing")
  /\ mrw_mutex' = NoThread
  /\ Goto(t, "out")
  /\ UNCHANGED <<mrw_rnum, waiting>>

\* A wait may end without a signal.
SpuriousWakeup(t) ==
  /\ t \in waiting
  /\ waiting' = waiting \ {t}
  /\ UNCHANGED <<mrw_mutex, mrw_rnum, pc>>

Thread(t) ==
  \/ MReadLock(t) \/ MReadUnlock(t)
  \/ MWriteLock(t) \/ WriterWokenUp(t) \/ MWriteUnlock(t)

Next == \E t \in Threads : Thread(t) \/ SpuriousWakeup(t)

Spec == Init /\ [][Next]_vars

-----------------------------------------------------------------------------
Readers == {t \in Threads : pc[t] = "reading"}

(* Type correctness; mrw_rnum never falls below zero.                      *)
TypeOK ==
  /\ mrw_mutex \in Threads \union {NoThread}
  /\ mrw_rnum \in Nat
  /\ waiting \subseteq Threads
  /\ pc \in [Threads -> {"out", "reading", "waiting", "writing"}]

(* Nobody reads while a thread writes, and the writer is the thread that   *)
(* owns the mutex: what the users of the lock rely on.                     *)
WriterIsAlone ==
  \A t \in Threads :
    /\ pc[t] = "writing" <=> mrw_mutex = t
    /\ pc[t] = "writing" => Readers = {}

(* The count of readers is right, whatever the order of calls.             *)
ReadersCounted == mrw_rnum = Cardinality(Readers)

(* No wakeup is lost: a writer in the wait set has a reader to wait for,   *)
(* whose MReadUnlock will wake it up.                                      *)
NoLostWakeup ==
  /\ waiting \subseteq {t \in Threads : pc[t] = "waiting"}
  /\ waiting # {} => Readers # {}

(* The lock is a readers/writer lock.                                      *)
Lock == INSTANCE ReadersWriter WITH readers <- Readers, writer <- mrw_mutex
IsReadersWriterLock == Lock!Spec
=============================================================================
