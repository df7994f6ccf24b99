-------------------------- MODULE Indications_proofs --------------------------
(***************************************************************************)
(* Proofs about metric indications (OSBase_MetricIndicationProvider.c,     *)
(* slisten.c, rrepos.c and the threads of reposd), for any filters,        *)
(* metrics, threads of reposd, queue, calls and faults; first those about  *)
(* the lock of util/mrwlock.c, which the composition keeps, for any finite *)
(* set of threads.                                                         *)
(***************************************************************************)
EXTENDS Indications, FiniteSetTheorems, SequenceTheorems, TLAPS

USE ThreadsAssumption

(* The inductive invariant: the lock's state is consistent.                *)
Inv ==
  /\ TypeOK
  /\ WriterIsAlone
  /\ ReadersCounted
  /\ NoLostWakeup

(* The set of readers is finite, so that counting it makes sense.          *)
LEMMA ReadersFinite ==
  /\ IsFiniteSet(Readers)
  /\ Cardinality(Readers) \in Nat
  /\ Cardinality(Readers) = 0 <=> Readers = {}
<1>1. Readers \subseteq Threads  BY DEF Readers
<1>2. IsFiniteSet(Readers)       BY <1>1, FS_Subset
<1>. QED  BY <1>2, FS_CardinalityType, FS_EmptySet

(* MReadLock adds its thread to the readers, and counts it.                *)
LEMMA CountAdded ==
  ASSUME NEW t \in Threads, TypeOK, ReadersCounted, At(t, "out"), Goto(t, "reading"),
         mrw_rnum' = mrw_rnum + 1
  PROVE  Readers' = Readers \union {t} /\ ReadersCounted'
<1>1. Readers' = Readers \union {t} /\ t \notin Readers
  BY DEF Readers, TypeOK, At, Goto
<1>2. Cardinality(Readers \union {t}) = Cardinality(Readers) + 1
  BY <1>1, ReadersFinite, FS_AddElement
<1>. QED  BY <1>1, <1>2 DEF ReadersCounted

(* MReadUnlock takes its thread from the readers, and from the count.      *)
LEMMA CountRemoved ==
  ASSUME NEW t \in Threads, TypeOK, ReadersCounted, At(t, "reading"), Goto(t, "out"),
         mrw_rnum' = mrw_rnum - 1
  PROVE  /\ Readers' = Readers \ {t}
         /\ ReadersCounted'
         /\ mrw_rnum' \in Nat
         /\ mrw_rnum' = 0 <=> Readers' = {}
<1>1. Readers' = Readers \ {t} /\ t \in Readers
  BY DEF Readers, TypeOK, At, Goto
<1>2. /\ IsFiniteSet(Readers \ {t})
      /\ Cardinality(Readers \ {t}) = Cardinality(Readers) - 1
  BY <1>1, ReadersFinite, FS_RemoveElement
<1>3. Cardinality(Readers \ {t}) \in Nat /\ (Cardinality(Readers \ {t}) = 0 <=> Readers \ {t} = {})
  BY <1>2, FS_CardinalityType, FS_EmptySet
<1>. QED  BY <1>1, <1>2, <1>3 DEF ReadersCounted

(* The lock as MRWLOCK_DEFINE makes it.                                    *)
LEMMA InitInv == Init => Inv
<1>. SUFFICES ASSUME Init PROVE Inv  OBVIOUS
<1>1. TypeOK         BY DEF Init, TypeOK
<1>2. Readers = {}   BY DEF Init, Readers
<1>3. WriterIsAlone  BY <1>2 DEF Init, WriterIsAlone
<1>4. ReadersCounted BY <1>2, FS_EmptySet DEF Init, ReadersCounted
<1>5. NoLostWakeup   BY DEF Init, NoLostWakeup
<1>. QED  BY <1>1, <1>3, <1>4, <1>5 DEF Inv

(* Every step keeps the invariant: one case per call of the lock.          *)
LEMMA NextInv == Inv /\ [Next]_vars => Inv'
<1>. SUFFICES ASSUME Inv, [Next]_vars PROVE Inv'  OBVIOUS
<1>. USE DEF Inv
<1>1. ASSUME NEW t \in Threads, MReadLock(t) PROVE Inv'
  <2>1. Readers' = Readers \union {t} /\ ReadersCounted'
    BY <1>1, CountAdded DEF MReadLock
  <2>2. TypeOK'        BY <1>1 DEF MReadLock, TypeOK, Goto
  <2>3. WriterIsAlone' BY <1>1 DEF MReadLock, WriterIsAlone, TypeOK, Goto, At
  <2>4. NoLostWakeup'  BY <1>1, <2>1 DEF MReadLock, NoLostWakeup, TypeOK, Goto, At
  <2>. QED  BY <2>1, <2>2, <2>3, <2>4
<1>2. ASSUME NEW t \in Threads, MReadUnlock(t) PROVE Inv'
  <2>1. /\ Readers' = Readers \ {t}
        /\ ReadersCounted'
        /\ mrw_rnum' \in Nat
        /\ mrw_rnum' = 0 <=> Readers' = {}
    BY <1>2, CountRemoved DEF MReadUnlock
  <2>2. TypeOK'        BY <1>2, <2>1 DEF MReadUnlock, TypeOK, Goto
  <2>3. WriterIsAlone' BY <1>2 DEF MReadUnlock, WriterIsAlone, TypeOK, Goto, At
  <2>4. NoLostWakeup'  BY <1>2, <2>1 DEF MReadUnlock, NoLostWakeup, TypeOK, Goto, At
  <2>. QED  BY <2>1, <2>2, <2>3, <2>4
<1>3. ASSUME NEW t \in Threads, WriteLoop(t), At(t, "out") \/ At(t, "waiting") PROVE Inv'
  <2>1. Readers' = Readers  BY <1>3 DEF WriteLoop, Readers, TypeOK, Goto, At
  <2>2. TypeOK'             BY <1>3 DEF WriteLoop, TypeOK, Goto
  <2>3. mrw_rnum = 0 <=> Readers = {}  BY ReadersFinite DEF ReadersCounted
  <2>4. WriterIsAlone'
    BY <1>3, <2>1, <2>3 DEF WriteLoop, WriterIsAlone, TypeOK, Goto, At
  <2>5. ReadersCounted'     BY <1>3, <2>1 DEF WriteLoop, ReadersCounted
  <2>6. NoLostWakeup'
    BY <1>3, <2>1, <2>3 DEF WriteLoop, NoLostWakeup, TypeOK, Goto, At
  <2>. QED  BY <2>2, <2>4, <2>5, <2>6
<1>4. ASSUME NEW t \in Threads, MWriteUnlock(t) PROVE Inv'
  <2>1. Readers' = Readers  BY <1>4 DEF MWriteUnlock, Readers, TypeOK, Goto, At
  <2>2. TypeOK'             BY <1>4 DEF MWriteUnlock, TypeOK, Goto
  <2>3. WriterIsAlone'      BY <1>4, <2>1 DEF MWriteUnlock, WriterIsAlone, TypeOK, Goto, At
  <2>4. ReadersCounted'     BY <1>4, <2>1 DEF MWriteUnlock, ReadersCounted
  <2>5. NoLostWakeup'       BY <1>4, <2>1 DEF MWriteUnlock, NoLostWakeup, TypeOK, Goto, At
  <2>. QED  BY <2>2, <2>3, <2>4, <2>5
<1>5. ASSUME NEW t \in Threads, SpuriousWakeup(t) PROVE Inv'
  <2>1. Readers' = Readers  BY <1>5 DEF SpuriousWakeup, Readers
  <2>. QED
    BY <1>5, <2>1 DEF SpuriousWakeup, TypeOK, WriterIsAlone, ReadersCounted, NoLostWakeup
<1>6. CASE UNCHANGED vars
  <2>1. Readers' = Readers  BY <1>6 DEF vars, Readers
  <2>. QED
    BY <1>6, <2>1 DEF vars, TypeOK, WriterIsAlone, ReadersCounted, NoLostWakeup
<1>. QED
  BY <1>1, <1>2, <1>3, <1>4, <1>5, <1>6 DEF Next, Thread, MWriteLock, WriterWokenUp

(* The invariant holds throughout (util/mrwlock.c).                        *)
THEOREM Safety == Spec => []Inv
BY InitInv, NextInv, PTL DEF Spec

(* A writer is alone, for any number of threads (util/mrwlock.c:42-51).    *)
THEOREM WriterAlwaysAlone == Spec => []WriterIsAlone
<1>1. Inv => WriterIsAlone  BY DEF Inv
<1>. QED  BY Safety, <1>1, PTL

(* No writer waits without a reader that will wake it (mrwlock.c:31-40).   *)
THEOREM WakeupNeverLost == Spec => []NoLostWakeup
<1>1. Inv => NoLostWakeup  BY DEF Inv
<1>. QED  BY Safety, <1>1, PTL

(* Every step of the lock is a step of a readers/writer lock, or none.     *)
LEMMA StepRefines == Inv /\ [Next]_vars => [Lock!Next]_<<Readers, mrw_mutex>>
<1>. SUFFICES ASSUME Inv, [Next]_vars PROVE [Lock!Next]_<<Readers, mrw_mutex>>  OBVIOUS
<1>. USE DEF Inv
<1>1. ASSUME NEW t \in Threads, MReadLock(t) PROVE Lock!BeginRead(t)
  <2>1. Readers' = Readers \union {t}  BY <1>1, CountAdded DEF MReadLock
  <2>. QED  BY <1>1, <2>1 DEF MReadLock, Lock!BeginRead, Readers, At
<1>2. ASSUME NEW t \in Threads, MReadUnlock(t) PROVE Lock!EndRead(t)
  <2>1. Readers' = Readers \ {t}  BY <1>2, CountRemoved DEF MReadUnlock
  <2>. QED  BY <1>2, <2>1 DEF MReadUnlock, Lock!EndRead, Readers, At
<1>3. ASSUME NEW t \in Threads, WriteLoop(t), At(t, "out") \/ At(t, "waiting")
      PROVE  Lock!BeginWrite(t) \/ UNCHANGED <<Readers, mrw_mutex>>
  <2>1. Readers' = Readers  BY <1>3 DEF WriteLoop, Readers, TypeOK, Goto, At
  <2>2. mrw_rnum = 0 <=> Readers = {}  BY ReadersFinite DEF ReadersCounted
  <2>. QED  BY <1>3, <2>1, <2>2 DEF WriteLoop, Lock!BeginWrite
<1>4. ASSUME NEW t \in Threads, MWriteUnlock(t) PROVE Lock!EndWrite(t)
  <2>1. Readers' = Readers  BY <1>4 DEF MWriteUnlock, Readers, TypeOK, Goto, At
  <2>. QED  BY <1>4, <2>1 DEF MWriteUnlock, Lock!EndWrite, WriterIsAlone, At
<1>5. ASSUME NEW t \in Threads, SpuriousWakeup(t) PROVE UNCHANGED <<Readers, mrw_mutex>>
  BY <1>5 DEF SpuriousWakeup, Readers
<1>6. CASE UNCHANGED vars
  BY <1>6 DEF vars, Readers
<1>. QED
  BY <1>1, <1>2, <1>3, <1>4, <1>5, <1>6
     DEF Next, Thread, MWriteLock, WriterWokenUp, Lock!Next

(* The lock of util/mrwlock.c implements the abstract readers/writer lock. *)
THEOREM Refinement == Spec => IsReadersWriterLock
<1>1. Init => Lock!Init
  BY DEF Init, Lock!Init, Readers
<1>. QED
  BY <1>1, StepRefines, Safety, PTL DEF Spec, IsReadersWriterLock, Lock!Spec

USE IndicationsAssumption

-----------------------------------------------------------------------------
(* The inductive invariant.                                                *)

(* The list of callbacks, whatever its order; the broker's call and the    *)
(* client's request.                                                       *)
Elements(s)    == {s[i] : i \in 1..Len(s)}
Registered(sr) == sr \in Elements(callbacks)

Shapes ==
  /\ callbacks \in Seq(Elements(callbacks))
  /\ call = [at |-> call.at, op |-> call.op, todo |-> call.todo, after |-> call.after]
  /\ exchange = [at |-> exchange.at, by |-> exchange.by, cmd |-> exchange.cmd,
                 sr |-> exchange.sr, ok |-> exchange.ok]

(* A request to subscribe or unsubscribe is that of the broker's call,     *)
(* which waits for its answer; the listener only asks for the status.      *)
OwnRequest ==
  /\ call.at \in {"request", "response"} => call.op \in {"subscribe", "unsubscribe"}
  /\ call.at = "remove" => call.op = "unsubscribe"
  /\ exchange.at # "none" /\ exchange.by = "provider" =>
       call.at = "response" /\ exchange.cmd = call.op /\ exchange.sr = Head(call.todo)
  /\ exchange.at # "none" /\ exchange.by # "provider" => exchange.cmd = "status"

(* The callback is there before reposd is asked to subscribe ...           *)
EntryFirst ==
  call.at \in {"request", "response"} /\ call.op = "subscribe" => Registered(Head(call.todo))

(* ... and is removed when reposd has unsubscribed.                        *)
Unsubscribed ==
  \/ call.at = "remove"
  \/ exchange.at = "answered" /\ exchange.by = "provider" /\ exchange.cmd = "unsubscribe" /\ exchange.ok
EntryLast == Unsubscribed => Head(call.todo) \notin subscriptions

ClientInv == Shapes /\ OwnRequest /\ EntryFirst /\ EntryLast /\ SubscribedHasCallback

(* Only the main thread of reposd reads under the lock.                    *)
LockInv == Inv /\ Readers \subseteq {Main}

IInv == ClientInv /\ LockInv

-----------------------------------------------------------------------------
(* The list of callbacks.                                                  *)

LEMMA SeqOfElements ==
  ASSUME NEW S, NEW s \in Seq(S)
  PROVE  s \in Seq(Elements(s))
<1>1. Len(s) \in Nat /\ s \in [1..Len(s) -> Elements(s)]  BY DEF Elements
<1>. QED  BY <1>1, SeqDef

LEMMA Joined ==
  ASSUME NEW S, NEW s \in Seq(S), NEW r \in Seq(S)
  PROVE  s \o r \in Seq(S) /\ Elements(s \o r) = Elements(s) \union Elements(r)
<1>1. /\ s \o r \in Seq(S) /\ Len(s) \in Nat /\ Len(r) \in Nat /\ Len(s \o r) = Len(s) + Len(r)
      /\ \A i \in 1..Len(s) + Len(r) : (s \o r)[i] = IF i <= Len(s) THEN s[i] ELSE r[i - Len(s)]
  BY ConcatProperties
<1>2. ASSUME NEW i \in 1..Len(s) PROVE s[i] \in Elements(s \o r)  BY <1>1 DEF Elements
<1>3. ASSUME NEW i \in 1..Len(r) PROVE r[i] \in Elements(s \o r)
  <2>1. Len(s) + i \in 1..Len(s \o r) /\ (s \o r)[Len(s) + i] = r[i]  BY <1>1
  <2>. QED  BY <2>1 DEF Elements
<1>4. ASSUME NEW i \in 1..Len(s \o r) PROVE (s \o r)[i] \in Elements(s) \union Elements(r)
  <2>1. CASE i <= Len(s)  BY <2>1, <1>1 DEF Elements
  <2>2. CASE i > Len(s)
    <3>1. i - Len(s) \in 1..Len(r) /\ (s \o r)[i] = r[i - Len(s)]  BY <2>2, <1>1
    <3>. QED  BY <3>1 DEF Elements
  <2>. QED  BY <2>1, <2>2, <1>1
<1>. QED  BY <1>1, <1>2, <1>3, <1>4 DEF Elements

LEMMA Part ==
  ASSUME NEW S, NEW s \in Seq(S), NEW m \in 1..Len(s) + 1, NEW n \in m - 1..Len(s)
  PROVE  SubSeq(s, m, n) \in Seq(S) /\ Elements(SubSeq(s, m, n)) = {s[i] : i \in m..n}
<1>. DEFINE p == SubSeq(s, m, n)
<1>1. p \in Seq(S) /\ Len(p) = n - m + 1 /\ \A i \in 1..n - m + 1 : p[i] = s[m + i - 1]
  BY SubSeqProperties
<1>. HIDE DEF p
<1>2. ASSUME NEW i \in m..n PROVE s[i] \in Elements(p)
  <2>1. i - m + 1 \in 1..Len(p) /\ p[i - m + 1] = s[i]  BY <1>1
  <2>. QED  BY <2>1 DEF Elements
<1>3. ASSUME NEW i \in 1..Len(p) PROVE p[i] \in {s[j] : j \in m..n}
  <2>1. m + i - 1 \in m..n /\ p[i] = s[m + i - 1]  BY <1>1
  <2>. QED  BY <2>1
<1>4. Elements(p) = {s[j] : j \in m..n}  BY <1>2, <1>3 DEF Elements
<1>. QED  BY <1>1, <1>4 DEF p

LEMMA Inserted ==
  ASSUME NEW S, NEW s \in Seq(S), NEW e \in S, NEW i \in 1..Len(s) + 1
  PROVE  /\ InsertAt(s, i, e) \in Seq(S)
         /\ Elements(InsertAt(s, i, e)) = Elements(s) \union {e}
<1>. DEFINE front == SubSeq(s, 1, i - 1)
            back  == SubSeq(s, i, Len(s))
            new   == <<e>>
<1>1. front \in Seq(S) /\ Elements(front) = {s[j] : j \in 1..i - 1}  BY Part
<1>2. back \in Seq(S) /\ Elements(back) = {s[j] : j \in i..Len(s)}  BY Part
<1>3. InsertAt(s, i, e) = (front \o new) \o back  BY DEF InsertAt
<1>4. new \in Seq(S) /\ Elements(new) = {e}  BY DEF Elements
<1>. HIDE DEF front, back, new
<1>5. front \o new \in Seq(S) /\ Elements(front \o new) = Elements(front) \union {e}
  BY <1>1, <1>4, Joined
<1>6. /\ (front \o new) \o back \in Seq(S)
      /\ Elements((front \o new) \o back) = Elements(front \o new) \union Elements(back)
  BY <1>2, <1>5, Joined
<1>7. Elements(s) = {s[j] : j \in 1..i - 1} \union {s[j] : j \in i..Len(s)}
  <2>1. 1..Len(s) = (1..i - 1) \union (i..Len(s))  OBVIOUS
  <2>. QED  BY <2>1, Zenon DEF Elements
<1>. QED  BY <1>1, <1>2, <1>3, <1>5, <1>6, <1>7

LEMMA Removed ==
  ASSUME NEW S, NEW s \in Seq(S), NEW i \in 1..Len(s)
  PROVE  RemoveAt(s, i) \in Seq(S) /\ Elements(s) \ {s[i]} \subseteq Elements(RemoveAt(s, i))
<1>. DEFINE front == SubSeq(s, 1, i - 1)
            back  == SubSeq(s, i + 1, Len(s))
<1>1. front \in Seq(S) /\ Elements(front) = {s[j] : j \in 1..i - 1}  BY Part
<1>2. back \in Seq(S) /\ Elements(back) = {s[j] : j \in i + 1..Len(s)}  BY Part
<1>3. RemoveAt(s, i) = front \o back  BY DEF RemoveAt
<1>. HIDE DEF front, back
<1>4. Elements(s) = {s[j] : j \in 1..i - 1} \union {s[i]} \union {s[j] : j \in i + 1..Len(s)}
  <2>1. 1..Len(s) = (1..i - 1) \union {i} \union (i + 1..Len(s))  OBVIOUS
  <2>. QED  BY <2>1, Zenon DEF Elements
<1>. QED  BY <1>1, <1>2, <1>3, <1>4, Joined

LEMMA LeastOf ==
  ASSUME NEW S, S \subseteq Nat, S # {}
  PROVE  Min(S) \in S
<1>1. PICK n \in S : \A m \in S : ~ <<m, n>> \in OpToRel(<, Nat)
  BY WFMin, NatLessThanWellFounded, Zenon
<1>2. ASSUME NEW m \in S PROVE n <= m
  <2>1. ~ m < n /\ m \in Nat /\ n \in Nat  BY <1>1, Zenon DEF OpToRel
  <2>. QED  BY <2>1
<1>. QED  BY <1>2 DEF Min

LEMMA PlaceInList ==
  ASSUME Len(callbacks) \in Nat, DOMAIN callbacks = 1..Len(callbacks), NEW corrid
  PROVE  PlaceOf(corrid) \in 1..Len(callbacks) + 1
<1>. DEFINE stops == {i \in DOMAIN callbacks : Follows(i, corrid)}
<1>1. CASE stops = {}
  <2>1. Left(corrid) = Len(callbacks)  BY <1>1 DEF Left
  <2>. QED  BY <2>1 DEF PlaceOf
<1>2. CASE stops # {}
  <2>1. Min(stops) \in 1..Len(callbacks)
    <3>1. stops \subseteq Nat  OBVIOUS
    <3>2. Min(stops) \in stops  BY <1>2, <3>1, LeastOf
    <3>. QED  BY <3>2
  <2>2. Max({1, Min(stops) - 1}) \in 1..Len(callbacks)
    <3>. DEFINE k == Min(stops) - 1
    <3>1. k \in Int /\ k <= Len(callbacks) /\ Len(callbacks) >= 1  BY <2>1
    <3>. HIDE DEF k
    <3>2. \E x \in {1, k} : \A y \in {1, k} : x >= y
      <4>1. CASE k >= 1  BY <4>1, <3>1
      <4>2. CASE k < 1  BY <4>2, <3>1
      <4>. QED  BY <4>1, <4>2, <3>1
    <3>3. Max({1, k}) \in {1, k} /\ Max({1, k}) >= 1  BY <3>2 DEF Max
    <3>4. Max({1, k}) \in 1..Len(callbacks)  BY <3>1, <3>3
    <3>. QED  BY <3>4 DEF k
  <2>3. Left(corrid) = Max({1, Min(stops) - 1})  BY <1>2 DEF Left
  <2>. QED  BY <2>2, <2>3 DEF PlaceOf
<1>. QED  BY <1>1, <1>2

(* rrepos_subscribe leaves the new callback in the list, and the others.   *)
LEMMA AddCallback ==
  ASSUME Shapes, NEW sr, add_subscription_listener(sr)
  PROVE  /\ callbacks' \in Seq(Elements(callbacks'))
         /\ Elements(callbacks) \subseteq Elements(callbacks') /\ sr \in Elements(callbacks')
<1>1. callbacks \in Seq(Elements(callbacks)) /\ Len(callbacks) \in Nat /\ DOMAIN callbacks = 1..Len(callbacks)
  BY DEF Shapes
<1>2. CASE \E i \in DOMAIN callbacks : callbacks[i] = sr
  BY <1>1, <1>2 DEF add_subscription_listener, Elements
<1>3. CASE ~ \E i \in DOMAIN callbacks : callbacks[i] = sr
  <2>. DEFINE S == Elements(callbacks) \union {sr}
  <2>1. callbacks' = InsertAt(callbacks, PlaceOf(sr.corrid), sr)
    BY <1>3 DEF add_subscription_listener
  <2>2. PlaceOf(sr.corrid) \in 1..Len(callbacks) + 1  BY <1>1, PlaceInList
  <2>3. callbacks \in Seq(S)  BY <1>1
  <2>4. sr \in S  OBVIOUS
  <2>. HIDE DEF S
  <2>5. callbacks' \in Seq(S) /\ Elements(callbacks') = Elements(callbacks) \union {sr}
    BY <2>1, <2>2, <2>3, <2>4, Inserted
  <2>. QED  BY <2>5, SeqOfElements
<1>. QED  BY <1>2, <1>3

(* Removing a callback leaves the others.                                  *)
LEMMA RemoveCallback ==
  ASSUME Shapes, NEW i \in DOMAIN callbacks, Forget(i)
  PROVE  /\ callbacks' \in Seq(Elements(callbacks'))
         /\ Elements(callbacks) \ {callbacks[i]} \subseteq Elements(callbacks')
<1>1. callbacks \in Seq(Elements(callbacks)) /\ i \in 1..Len(callbacks)  BY DEF Shapes
<1>2. callbacks' = RemoveAt(callbacks, i)  BY DEF Forget
<1>3. /\ callbacks' \in Seq(Elements(callbacks))
      /\ Elements(callbacks) \ {callbacks[i]} \subseteq Elements(callbacks')
  BY <1>1, <1>2, Removed
<1>. QED  BY <1>3, SeqOfElements

(* unsubscribeFilter removes an entry of the request it made.              *)
LEMMA FoundCallback ==
  ASSUME Shapes, NEW sr,
         Reached(SelectInSeq(callbacks, LAMBDA cb : cb = sr), sr.corrid)
  PROVE  /\ SelectInSeq(callbacks, LAMBDA cb : cb = sr) \in DOMAIN callbacks
         /\ callbacks[SelectInSeq(callbacks, LAMBDA cb : cb = sr)] = sr
<1>. DEFINE I == {i \in 1..Len(callbacks) : callbacks[i] = sr}
            i == SelectInSeq(callbacks, LAMBDA cb : cb = sr)
<1>1. i \in DOMAIN callbacks /\ DOMAIN callbacks = 1..Len(callbacks)  BY DEF Reached, Shapes
<1>2. i = IF I # {} THEN Min(I) ELSE 0  BY DEF SelectInSeq
<1>3. I \subseteq Nat  OBVIOUS
<1>. HIDE DEF i
<1>4. I # {}  BY <1>1, <1>2
<1>5. i \in I  BY <1>2, <1>3, <1>4, LeastOf
<1>. QED  BY <1>1, <1>5 DEF i

-----------------------------------------------------------------------------
(* The steps of the client and of the main thread, which the first half of *)
(* the invariant is about.                                                 *)

USE DEF provider, reposd, Unlocked

LEMMA ClientStutters ==
  ASSUME ClientInv, UNCHANGED <<callbacks, call, exchange, subscriptions>>
  PROVE  ClientInv'
BY DEF ClientInv, Shapes, OwnRequest, EntryFirst, EntryLast, Unsubscribed, SubscribedHasCallback,
       Registered, Elements

(* A call of the broker begins, or the provider goes on to its next filter.*)
LEMMA CallGoesOn ==
  ASSUME ClientInv, UNCHANGED <<callbacks, subscriptions>>,
         \/ UNCHANGED exchange /\ call.at \notin {"response"}
         \/ exchange' = Unlocked,
         NEW op, NEW todo, NEW after,
         call' = [at |-> "next", op |-> op, todo |-> todo, after |-> after]
  PROVE  ClientInv'
<1>1. Shapes'  BY DEF ClientInv, Shapes, Elements
<1>2. OwnRequest'  BY DEF ClientInv, OwnRequest
<1>3. EntryFirst'  BY DEF EntryFirst
<1>4. EntryLast'  BY DEF ClientInv, OwnRequest, EntryLast, Unsubscribed
<1>5. SubscribedHasCallback'  BY DEF ClientInv, SubscribedHasCallback
<1>. QED  BY <1>1, <1>2, <1>3, <1>4, <1>5 DEF ClientInv

LEMMA BrokerInv ==
  ASSUME ClientInv,
         \/ \E f \in Filters : ActivateFilter(f) \/ DeActivateFilter(f)
         \/ enableFilters \/ disableFilters
  PROVE  ClientInv'
<1>1. UNCHANGED <<callbacks, exchange, subscriptions>> /\ call.at = "none"
  <2>1. UNCHANGED <<callbacks, exchange, reposd>> /\ call = NoCall
    BY Zenon DEF ActivateFilter, DeActivateFilter, enableFilters, disableFilters, BrokerCalls
  <2>. QED  BY <2>1 DEF NoCall
<1>2. CASE \E op, todo, after : call' = [at |-> "next", op |-> op, todo |-> todo, after |-> after]
  BY <1>1, <1>2, CallGoesOn
<1>3. CASE UNCHANGED call  BY <1>1, <1>3, ClientStutters
<1>4. CASE \E f \in Filters : ActivateFilter(f)  BY <1>2, <1>4, Zenon DEF ActivateFilter, Calls
<1>5. CASE \E f \in Filters : DeActivateFilter(f)
  BY <1>2, <1>3, <1>5, Zenon DEF DeActivateFilter, Calls
<1>6. CASE enableFilters  BY <1>2, <1>6, Zenon DEF enableFilters, Calls
<1>7. CASE disableFilters  BY <1>2, <1>7, Zenon DEF disableFilters, Calls
<1>. QED  BY <1>4, <1>5, <1>6, <1>7

LEMMA ReturnInv == ASSUME ClientInv, ReturnToBroker PROVE ClientInv'
<1>. USE DEF ClientInv, ReturnToBroker, NoCall
<1>1. Shapes'  BY DEF Shapes, Elements
<1>2. OwnRequest'  BY DEF OwnRequest
<1>3. EntryFirst' /\ EntryLast'  BY DEF OwnRequest, EntryFirst, EntryLast, Unsubscribed
<1>4. SubscribedHasCallback'  BY DEF SubscribedHasCallback
<1>. QED  BY <1>1, <1>2, <1>3, <1>4

LEMMA SubscribeInv == ASSUME ClientInv, rrepos_subscribe PROVE ClientInv'
<1>. USE DEF ClientInv, rrepos_subscribe
<1>1. call' = [call EXCEPT !.at = "request"] /\ call'.at = "request" /\ call'.todo = call.todo
      /\ call'.op = "subscribe"
  BY DEF Shapes
<1>2. /\ callbacks' \in Seq(Elements(callbacks'))
      /\ Elements(callbacks) \subseteq Elements(callbacks') /\ Head(call.todo) \in Elements(callbacks')
  BY AddCallback
<1>3. Shapes'  BY <1>1, <1>2 DEF Shapes
<1>4. OwnRequest'  BY <1>1 DEF OwnRequest
<1>5. EntryFirst'  BY <1>1, <1>2 DEF EntryFirst, Registered
<1>6. EntryLast'  BY <1>1 DEF OwnRequest, EntryLast, Unsubscribed
<1>7. DOMAIN callbacks = 1..Len(callbacks) /\ DOMAIN callbacks' = 1..Len(callbacks')
  BY <1>2 DEF Shapes
<1>8. SubscribedHasCallback'
  <2>1. subscriptions \subseteq Elements(callbacks)  BY <1>7 DEF SubscribedHasCallback, Elements
  <2>2. subscriptions' \subseteq Elements(callbacks')  BY <1>2, <2>1
  <2>. QED  BY <1>7, <2>2 DEF SubscribedHasCallback, Elements
<1>. QED  BY <1>3, <1>4, <1>5, <1>6, <1>8

LEMMA UnsubscribeInv == ASSUME ClientInv, rrepos_unsubscribe PROVE ClientInv'
<1>. USE DEF ClientInv, rrepos_unsubscribe
<1>1. call' = [call EXCEPT !.at = "request"] /\ call'.at = "request" /\ call'.op = "unsubscribe"
  BY DEF Shapes
<1>2. Shapes'  BY <1>1 DEF Shapes, Elements
<1>3. OwnRequest'  BY <1>1 DEF OwnRequest
<1>4. EntryFirst' /\ EntryLast'  BY <1>1 DEF OwnRequest, EntryFirst, EntryLast, Unsubscribed
<1>5. SubscribedHasCallback'  BY DEF SubscribedHasCallback
<1>. QED  BY <1>2, <1>3, <1>4, <1>5

LEMMA SendInv == ASSUME ClientInv, SendRequest PROVE ClientInv'
<1>. USE DEF ClientInv, SendRequest, mcc_request
<1>1. /\ call' = [call EXCEPT !.at = "response"] /\ call'.at = "response"
      /\ call'.op = call.op /\ call'.todo = call.todo
  BY DEF Shapes
<1>2. exchange' = [at |-> "asked", by |-> "provider", cmd |-> call.op, sr |-> Head(call.todo), ok |-> FALSE]
  OBVIOUS
<1>3. Shapes'  BY <1>1, <1>2 DEF Shapes, Elements
<1>4. OwnRequest'  BY <1>1, <1>2 DEF OwnRequest
<1>5. EntryFirst'  BY <1>1 DEF EntryFirst, Registered, Elements
<1>6. EntryLast'  BY <1>1, <1>2 DEF EntryLast, Unsubscribed
<1>7. SubscribedHasCallback'  BY DEF SubscribedHasCallback
<1>. QED  BY <1>3, <1>4, <1>5, <1>6, <1>7

LEMMA SubscribeAnsweredInv == ASSUME ClientInv, subscribeFilter PROVE ClientInv'
<1>1. call' = [at |-> "next", op |-> call.op, todo |-> Tail(call.todo), after |-> call.after]
  BY DEF ClientInv, Shapes, subscribeFilter
<1>. QED  BY <1>1, CallGoesOn DEF subscribeFilter, Answered

LEMMA UnsubscribeAnsweredInv == ASSUME ClientInv, UnsubscribeAnswered PROVE ClientInv'
<1>. USE DEF ClientInv, UnsubscribeAnswered, Answered
<1>1. CASE exchange.ok
  <2>1. call' = [call EXCEPT !.at = "remove"] /\ call'.at = "remove" /\ call'.op = "unsubscribe"
        /\ call'.todo = call.todo
    BY <1>1 DEF Shapes
  <2>2. Head(call.todo) \notin subscriptions  BY <1>1 DEF OwnRequest, EntryLast, Unsubscribed
  <2>3. Shapes'  BY <2>1 DEF Shapes, Elements
  <2>4. OwnRequest'  BY <2>1 DEF OwnRequest
  <2>5. EntryFirst' /\ EntryLast'  BY <2>1, <2>2 DEF EntryFirst, EntryLast
  <2>6. SubscribedHasCallback'  BY DEF SubscribedHasCallback
  <2>. QED  BY <2>3, <2>4, <2>5, <2>6
<1>2. CASE ~exchange.ok
  <2>1. call' = [at |-> "next", op |-> call.op, todo |-> Tail(call.todo), after |-> call.after]
    BY <1>2 DEF Shapes
  <2>. QED  BY <2>1, CallGoesOn
<1>. QED  BY <1>1, <1>2

(* The entry that goes is of a request that reposd has no subscription of. *)
LEMMA RemoveInv == ASSUME ClientInv, unsubscribeFilter PROVE ClientInv'
<1>. USE DEF ClientInv
<1>. DEFINE sr == Head(call.todo)
            i  == SelectInSeq(callbacks, LAMBDA cb : cb = sr)
<1>1. call' = [at |-> "next", op |-> call.op, todo |-> Tail(call.todo), after |-> call.after]
      /\ call.at = "remove" /\ UNCHANGED <<exchange, subscriptions>>
  BY DEF Shapes, unsubscribeFilter
<1>2. sr \notin subscriptions  BY <1>1 DEF EntryLast, Unsubscribed
<1>3. CASE Reached(i, sr.corrid)
  <2>1. i \in DOMAIN callbacks /\ callbacks[i] = sr  BY <1>3, FoundCallback
  <2>2. Forget(i)  BY <1>3 DEF unsubscribeFilter
  <2>. HIDE DEF i
  <2>3. /\ callbacks' \in Seq(Elements(callbacks'))
        /\ Elements(callbacks) \ {sr} \subseteq Elements(callbacks')
    BY <2>1, <2>2, RemoveCallback
  <2>4. Shapes'  BY <1>1, <2>3 DEF Shapes
  <2>5. OwnRequest'  BY <1>1 DEF OwnRequest
  <2>6. EntryFirst' /\ EntryLast'  BY <1>1 DEF OwnRequest, EntryFirst, EntryLast, Unsubscribed
  <2>7. DOMAIN callbacks = 1..Len(callbacks) /\ DOMAIN callbacks' = 1..Len(callbacks')
    BY <2>3 DEF Shapes
  <2>8. SubscribedHasCallback'
    <3>1. subscriptions \subseteq Elements(callbacks)  BY <2>7 DEF SubscribedHasCallback, Elements
    <3>2. subscriptions' \subseteq Elements(callbacks')  BY <1>1, <1>2, <2>3, <3>1
    <3>. QED  BY <2>7, <3>2 DEF SubscribedHasCallback, Elements
  <2>. QED  BY <2>4, <2>5, <2>6, <2>8
<1>4. CASE ~Reached(i, sr.corrid)
  <2>1. UNCHANGED callbacks  BY <1>4 DEF unsubscribeFilter
  <2>. QED  BY <1>1, <2>1, CallGoesOn
<1>. QED  BY <1>3, <1>4

LEMMA ListenerInv == ASSUME ClientInv, Listener PROVE ClientInv'
<1>. USE DEF ClientInv
<1>1. CASE recv \/ call_callbacks \/ FindFilter \/ DeliverIndication
  <2>1. UNCHANGED <<callbacks, call, exchange, subscriptions>>
    BY <1>1 DEF recv, call_callbacks, FindFilter, DeliverIndication
  <2>. QED  BY <2>1, ClientStutters
<1>2. CASE checkRepositoryConnection \/ StatusAnswered
  <2>1. /\ UNCHANGED <<callbacks, call, subscriptions>>
        /\ \/ exchange' = [at |-> "asked", by |-> "listener", cmd |-> "status",
                           sr |-> listener.msg, ok |-> FALSE]
           \/ exchange' = Unlocked
    BY <1>2 DEF checkRepositoryConnection, StatusAnswered, mcc_request, Answered
  <2>2. CASE exchange.at # "none" /\ exchange.by = "provider"
    BY <1>2, <2>2 DEF checkRepositoryConnection, StatusAnswered, mcc_request, Answered
  <2>3. Shapes'  BY <2>1 DEF Shapes, Elements
  <2>4. OwnRequest'  BY <2>1 DEF OwnRequest
  <2>5. EntryFirst' /\ EntryLast'
    BY <2>1 DEF EntryFirst, EntryLast, Unsubscribed, Registered, Elements
  <2>6. SubscribedHasCallback'  BY <2>1 DEF SubscribedHasCallback
  <2>. QED  BY <2>3, <2>4, <2>5, <2>6
<1>. QED  BY <1>1, <1>2 DEF Listener

(* reposd answers, or the request or its answer is lost.                   *)
LEMMA AnswerInv ==
  ASSUME ClientInv, UNCHANGED <<callbacks, call>>, exchange.at # "none",
         NEW ok, Answer(ok),
         exchange.by = "provider" /\ exchange.cmd = "unsubscribe" /\ ok => exchange.sr \notin subscriptions',
         call.at = "remove" => UNCHANGED subscriptions,
         \A sr \in subscriptions' : sr \in subscriptions \/ Registered(sr)
  PROVE  ClientInv'
<1>. USE DEF ClientInv
<1>1. exchange' = [at |-> "answered", by |-> exchange.by, cmd |-> exchange.cmd,
                   sr |-> exchange.sr, ok |-> ok]
  BY DEF Shapes, Answer
<1>2. Shapes'  BY <1>1 DEF Shapes, Elements
<1>3. OwnRequest'  BY <1>1 DEF OwnRequest
<1>4. EntryFirst'  BY DEF EntryFirst, Registered, Elements
<1>5. EntryLast'  BY <1>1 DEF OwnRequest, EntryLast, Unsubscribed
<1>6. SubscribedHasCallback'  BY DEF Shapes, SubscribedHasCallback, Registered, Elements
<1>. QED  BY <1>2, <1>3, <1>4, <1>5, <1>6

LEMMA ServeInv == ASSUME ClientInv, Serve PROVE ClientInv'
<1>. USE DEF ClientInv
<1>. DEFINE sr == exchange.sr
<1>1. exchange.at = "asked" /\ UNCHANGED <<callbacks, call>>  BY DEF Serve
<1>2. CASE exchange.cmd = "subscribe" /\ Subscribe(sr)
  <2>1. exchange.by = "provider" /\ call.at = "response" /\ Registered(sr)
    BY <1>1, <1>2 DEF OwnRequest, EntryFirst
  <2>2. Answer(TRUE) /\ \A s \in subscriptions' : s \in subscriptions \/ s = sr
    BY <1>2 DEF Subscribe
  <2>. QED  BY <1>1, <1>2, <2>1, <2>2, AnswerInv
<1>3. CASE exchange.cmd = "unsubscribe" /\ Unsubscribe(sr)
  <2>1. exchange.by = "provider" /\ call.at = "response"
    BY <1>1, <1>3 DEF OwnRequest
  <2>2. /\ Answer(sr \in forwarded /\ \E s \in subscriptions : s.mid = sr.mid)
        /\ subscriptions' \subseteq subscriptions
        /\ sr \in forwarded => sr \notin subscriptions'
    BY <1>3 DEF Unsubscribe
  <2>. QED  BY <1>1, <2>1, <2>2, AnswerInv
<1>4. CASE exchange.cmd = "status" /\ Answer(TRUE) /\ UNCHANGED subscriptions
  BY <1>1, <1>4, AnswerInv
<1>. QED  BY <1>2, <1>3, <1>4 DEF Serve

LEMMA FaultInv == ASSUME ClientInv, LoseExchange \/ Restart PROVE ClientInv'
<1>. USE DEF ClientInv
<1>1. CASE LoseExchange  BY <1>1, AnswerInv DEF LoseExchange
<1>2. CASE Restart
  <2>1. UNCHANGED <<callbacks, call>> /\ subscriptions' = {}  BY <1>2 DEF Restart
  <2>2. \/ exchange' = [at |-> "answered", by |-> exchange.by, cmd |-> exchange.cmd,
                        sr |-> exchange.sr, ok |-> FALSE] /\ exchange.at = "asked"
        \/ UNCHANGED exchange
    BY <1>2 DEF Restart, Shapes, Answer
  <2>3. Shapes'  BY <2>1, <2>2 DEF Shapes, Elements
  <2>4. OwnRequest'  BY <2>1, <2>2 DEF OwnRequest
  <2>5. EntryFirst'  BY <2>1 DEF EntryFirst, Registered, Elements
  <2>6. EntryLast' /\ SubscribedHasCallback'  BY <2>1 DEF EntryLast, SubscribedHasCallback
  <2>. QED  BY <2>3, <2>4, <2>5, <2>6
<1>. QED  BY <1>1, <1>2

-----------------------------------------------------------------------------
(* The lock in the composition: its steps are those of RWLock, but for the *)
(* restart of reposd, which gives it up whoever has it.                    *)

LEMMA LockSteps ==
  ASSUME IndicationsNext
  PROVE  \/ UNCHANGED vars
         \/ MReadLock(Main) \/ MReadUnlock(Main)
         \/ \E t \in Remotes : MWriteLock(t) \/ WriterWokenUp(t) \/ SpuriousWakeup(t) \/ MWriteUnlock(t)
         \/ Restart
<1>1. CASE (\E f \in Filters : ActivateFilter(f) \/ DeActivateFilter(f)) \/ enableFilters \/ disableFilters
  BY <1>1, Zenon DEF ActivateFilter, DeActivateFilter, enableFilters, disableFilters
<1>2. CASE Provider
  <2>1. UNCHANGED vars
    BY <1>2, Zenon DEF Provider, ReturnToBroker, rrepos_subscribe, rrepos_unsubscribe, SendRequest,
                subscribeFilter, UnsubscribeAnswered, unsubscribeFilter
  <2>. QED  BY <2>1
<1>3. CASE Listener
  <2>1. UNCHANGED vars
    BY <1>3, Zenon DEF Listener, recv, call_callbacks, FindFilter, checkRepositoryConnection,
                StatusAnswered, DeliverIndication
  <2>. QED  BY <2>1
<1>4. CASE MainThread \/ GetValues
  BY <1>4, Zenon DEF MainThread, Serve, ReadValues, ValuesRead, GetValues
<1>5. CASE \E t \in Remotes : RemoteThread(t) \/ \E m \in Metrics : Store(t, m)
  BY <1>5, Zenon DEF RemoteThread, WaitForReaders, subs_forward, Stored, Store
<1>6. CASE LoseExchange \/ Restart
  BY <1>6, Zenon DEF LoseExchange
<1>. QED  BY <1>1, <1>2, <1>3, <1>4, <1>5, <1>6, Zenon DEF IndicationsNext

LEMMA LockStepInv ==
  ASSUME LockInv, IndicationsNext
  PROVE  LockInv'
<1>. USE DEF LockInv
<1>1. CASE UNCHANGED vars
  <2>1. Inv'  BY <1>1, NextInv
  <2>. QED  BY <1>1, <2>1 DEF vars, Readers
<1>2. CASE MReadLock(Main) \/ MReadUnlock(Main)
  <2>1. Inv'  BY <1>2, NextInv DEF Next, Thread
  <2>2. Readers' \subseteq {Main}
    BY <1>2 DEF MReadLock, MReadUnlock, Goto, Readers, Inv, TypeOK
  <2>. QED  BY <2>1, <2>2
<1>3. ASSUME NEW t \in Remotes,
             MWriteLock(t) \/ WriterWokenUp(t) \/ SpuriousWakeup(t) \/ MWriteUnlock(t)
      PROVE  LockInv'
  <2>1. Inv'  BY <1>3, NextInv DEF Next, Thread, Remotes
  <2>2. Readers' \subseteq Readers
    BY <1>3 DEF MWriteLock, WriterWokenUp, WriteLoop, SpuriousWakeup, MWriteUnlock, Goto, At,
                Readers, Inv, TypeOK, Remotes
  <2>. QED  BY <2>1, <2>2
<1>4. CASE Restart
  <2>1. mrw_mutex' = NoThread /\ mrw_rnum' = 0 /\ waiting' = {} /\ pc' = [t \in Threads |-> "out"]
    BY <1>4 DEF Restart
  <2>2. Readers' = {}  BY <2>1 DEF Readers
  <2>3. TypeOK' /\ WriterIsAlone' /\ NoLostWakeup'
    BY <2>1, <2>2, ThreadsAssumption DEF TypeOK, WriterIsAlone, NoLostWakeup
  <2>4. ReadersCounted'  BY <2>1, <2>2, FS_EmptySet DEF ReadersCounted
  <2>. QED  BY <2>2, <2>3, <2>4 DEF Inv
<1>. QED  BY <1>1, <1>2, <1>3, <1>4, LockSteps

LEMMA LockStepRefines ==
  ASSUME LockInv, IndicationsNext
  PROVE  [Lock!Next]_<<Readers, mrw_mutex>>
<1>. USE DEF LockInv
<1>1. CASE UNCHANGED vars  BY <1>1, StepRefines
<1>2. CASE MReadLock(Main) \/ MReadUnlock(Main)
  BY <1>2, StepRefines DEF Next, Thread
<1>3. CASE \E t \in Remotes : MWriteLock(t) \/ WriterWokenUp(t) \/ SpuriousWakeup(t) \/ MWriteUnlock(t)
  BY <1>3, StepRefines DEF Next, Thread, Remotes
<1>4. CASE Restart
  <2>1. mrw_mutex' = NoThread /\ Readers' = {}  BY <1>4 DEF Restart, Readers
  <2>2. CASE mrw_mutex = NoThread /\ Readers = {}  BY <2>1, <2>2
  <2>3. CASE mrw_mutex = NoThread /\ Readers # {}
    <3>1. Readers = {Main}  BY <2>3
    <3>2. Lock!EndRead(Main)  BY <2>1, <2>3, <3>1 DEF Lock!EndRead
    <3>. QED  BY <3>2 DEF Lock!Next
  <2>4. CASE mrw_mutex # NoThread
    <3>1. PICK t \in Threads : mrw_mutex = t  BY <2>4 DEF Inv, TypeOK
    <3>2. Readers = {}  BY <3>1 DEF Inv, WriterIsAlone
    <3>3. Lock!EndWrite(t)  BY <2>1, <3>1, <3>2 DEF Lock!EndWrite
    <3>. QED  BY <3>3 DEF Lock!Next
  <2>. QED  BY <2>2, <2>3, <2>4
<1>. QED  BY <1>1, <1>2, <1>3, <1>4, LockSteps

-----------------------------------------------------------------------------
(* The invariant.                                                          *)

LEMMA IndicationsInitInv == IndicationsInit => IInv
<1>. SUFFICES ASSUME IndicationsInit PROVE IInv  OBVIOUS
<1>. USE DEF IndicationsInit, NoCall
<1>1. Shapes  BY DEF Shapes
<1>2. OwnRequest /\ EntryFirst /\ EntryLast  BY DEF OwnRequest, EntryFirst, EntryLast, Unsubscribed
<1>3. SubscribedHasCallback  BY DEF SubscribedHasCallback
<1>4. Inv  BY InitInv
<1>5. Readers = {}  BY DEF Init, Readers
<1>. QED  BY <1>1, <1>2, <1>3, <1>4, <1>5 DEF IInv, ClientInv, LockInv

LEMMA ClientStepInv ==
  ASSUME ClientInv, IndicationsNext
  PROVE  ClientInv'
<1>1. CASE Provider
  BY <1>1, ReturnInv, SubscribeInv, UnsubscribeInv, SendInv, SubscribeAnsweredInv,
     UnsubscribeAnsweredInv, RemoveInv DEF Provider
<1>2. CASE Serve \/ LoseExchange \/ Restart  BY <1>2, ServeInv, FaultInv
<1>3. CASE ReadValues \/ ValuesRead \/ GetValues
  <2>1. UNCHANGED <<callbacks, call, exchange, subscriptions>>
    BY <1>3, Zenon DEF ReadValues, ValuesRead, GetValues
  <2>. QED  BY <2>1, ClientStutters
<1>4. CASE \E t \in Remotes : RemoteThread(t) \/ \E m \in Metrics : Store(t, m)
  <2>1. UNCHANGED <<callbacks, call, exchange, subscriptions>>
    BY <1>4, Zenon DEF RemoteThread, WaitForReaders, subs_forward, Stored, Store
  <2>. QED  BY <2>1, ClientStutters
<1>. QED
  BY <1>1, <1>2, <1>3, <1>4, BrokerInv, ListenerInv, Zenon DEF IndicationsNext, MainThread

LEMMA IndicationsStepInv == IInv /\ [IndicationsNext]_allvars => IInv'
<1>. SUFFICES ASSUME IInv, [IndicationsNext]_allvars PROVE IInv'  OBVIOUS
<1>. USE DEF IInv
<1>1. CASE IndicationsNext  BY <1>1, ClientStepInv, LockStepInv
<1>2. CASE UNCHANGED allvars
  <2>1. ClientInv'  BY <1>2, ClientStutters DEF allvars
  <2>2. UNCHANGED vars  BY <1>2 DEF allvars
  <2>3. Inv'  BY <2>2, NextInv DEF LockInv
  <2>4. Readers' = Readers  BY <2>2 DEF vars, Readers
  <2>. QED  BY <2>1, <2>3, <2>4 DEF LockInv
<1>. QED  BY <1>1, <1>2

(* What the broker's call, the request to reposd, the list of callbacks    *)
(* and reposd's subscriptions say of each other holds throughout, whatever *)
(* gets lost and whenever reposd restarts (rrepos.c:761-848).              *)
THEOREM IndicationsInvariant == IndicationsSpec => []IInv
BY IndicationsInitInv, IndicationsStepInv, PTL DEF IndicationsSpec

(* Whom reposd forwards a value to has a callback for it in the client     *)
(* (rrepos.c:779, 826; sforward.c:111).                                    *)
THEOREM ForwardedHasCallback == IndicationsSpec => []SubscribedHasCallback
<1>1. IInv => SubscribedHasCallback  BY DEF IInv, ClientInv
<1>. QED  BY IndicationsInvariant, <1>1, PTL

(* No writer of the repository waits without a reader that will wake it,   *)
(* although the lock is kept while a datagram is sent and reposd restarts. *)
THEOREM StoringIsWokenUp == IndicationsSpec => []NoLostWakeup
<1>1. IInv => NoLostWakeup  BY DEF IInv, LockInv, Inv
<1>. QED  BY IndicationsInvariant, <1>1, PTL

(* The repository's lock stays a readers/writer lock in the composition.   *)
THEOREM LockIsRefined == IndicationsSpec => IsReadersWriterLock
<1>1. IndicationsInit => Lock!Init  BY DEF IndicationsInit, Init, Lock!Init, Readers
<1>2. IInv /\ [IndicationsNext]_allvars => [Lock!Next]_<<Readers, mrw_mutex>>
  <2>. SUFFICES ASSUME IInv, [IndicationsNext]_allvars
                PROVE  [Lock!Next]_<<Readers, mrw_mutex>>
    OBVIOUS
  <2>1. CASE IndicationsNext  BY <2>1, LockStepRefines DEF IInv
  <2>2. CASE UNCHANGED allvars  BY <2>2 DEF allvars, vars, Readers
  <2>. QED  BY <2>1, <2>2
<1>. QED
  BY <1>1, <1>2, IndicationsInvariant, PTL DEF IndicationsSpec, IsReadersWriterLock, Lock!Spec
=============================================================================
