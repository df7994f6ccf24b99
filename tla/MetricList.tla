----------------------------- MODULE MetricList -----------------------------
(***************************************************************************)
(* The schedule of metric blocks of the gatherer (mlist.c).                *)
(*                                                                         *)
(* A metric block says when a metric is due for its next sample.  Blocks   *)
(* live in a singly linked list; a client takes a due block out for        *)
(* processing with ML_SelectNextDue, samples the metric, and gives the     *)
(* block back with ML_Relocate.  Every ML_ function works under one mutex  *)
(* of the list head, so each is one step here, except that the time it     *)
(* uses may have been read before the mutex was taken.                     *)
(***************************************************************************)
EXTENDS Integers, SequencesExt

CONSTANTS Blocks,      \* metric blocks: the memory cells malloc hands out
          Interval,    \* sampleInterval of each block, in seconds
          SyncLevel,   \* mlsynclevel: 1 aligns due times with the wall clock
          MaxClients,  \* threads that process blocks (numthreads of MR_Init)
          MaxTime      \* bound of the clock

ASSUME IntervalAssumption  == Interval \in [Blocks -> Nat \ {0}]
ASSUME SyncLevelAssumption == SyncLevel \in {0, 1}
ASSUME MaxClientsAssumption == MaxClients \in Nat \ {0}
ASSUME MaxTimeAssumption   == MaxTime \in Nat

VARIABLES chain,            \* the list, from its first block on
          processingState,  \* of each block; FREE: not allocated
          nextSampleDue,    \* of each block
          mlmutex,          \* "kept": a function returned without unlocking
          held,             \* blocks clients got from ML_SelectNextDue
          sampledAt,        \* history: acttime of the block's last selection
          now               \* time(NULL)

mlvars == <<chain, processingState, nextSampleDue, mlmutex, held, sampledAt, now>>

ProcessingStates ==
  {"FREE", "READY", "IN_PROGRESS", "RESERVED", "DELETED"}

Linked(b) == b \in ToSet(chain)

-----------------------------------------------------------------------------
(* Due times.                                                              *)

\* Mutant: always as soon as possible.
FirstDueAsap(b, t) == 0

\* First due time of a block that is inserted, or reset, at time t.
FirstDue(b, t) == IF SyncLevel = 1 THEN t - (t % Interval[b]) + Interval[b] ELSE 0

\* Due time after the block was selected at time t.
FollowingDue(b, t) ==
  t + Interval[b] - (IF SyncLevel = 1 THEN t % Interval[b] ELSE 0)

-----------------------------------------------------------------------------
(* Searching the list.                                                     *)

\* Mutant: the search stops at the first block with an earlier due time.
StopsAtEarlier(c, d, p) == p <= Len(c) => nextSampleDue[c[p]] < d

\* The search of ML_Relocate stops at p in c: the end of the list, or the
\* first block with a later due time than d.
StopsAt(c, d, p) == p <= Len(c) => d < nextSampleDue[c[p]]

\* The position a block with due time d gets when the search begins at from.
IsInsertPosition(c, from, d, p) ==
  /\ p \in from .. Len(c) + 1
  /\ StopsAt(c, d, p)
  /\ \A q \in from .. p - 1 : ~StopsAt(c, d, q)

\* Mutant: a reserved block is never due.
IsDueUnreserved(b, t) == nextSampleDue[b] <= t /\ processingState[b] = "READY"

\* What the scan of ML_SelectNextDue does with a block at time t: take it,
\* stop for it and sleep until it is due, or pass it over.
IsDue(b, t)   == nextSampleDue[b] <= t /\ processingState[b] \in {"READY", "RESERVED"}
IsLater(b, t) == nextSampleDue[b] > t /\ processingState[b] = "READY"
Stops(b, t)   == IsDue(b, t) \/ IsLater(b, t)

\* The scan at time t ends at block b.
ScanEndsAt(b, t) ==
  \E i \in 1 .. Len(chain) :
    /\ chain[i] = b
    /\ Stops(b, t)
    /\ \A j \in 1 .. i - 1 : ~Stops(chain[j], t)

-----------------------------------------------------------------------------
MLInit ==
  /\ chain = <<>>
  /\ processingState = [b \in Blocks |-> "FREE"]
  /\ nextSampleDue = [b \in Blocks |-> 0]
  /\ mlmutex = "free"
  /\ held = {}
  /\ sampledAt = [b \in Blocks |-> -1]
  /\ now = 0

Tick ==
  /\ now < MaxTime
  /\ now' = now + 1
  /\ UNCHANGED <<chain, processingState, nextSampleDue, mlmutex, held, sampledAt>>

\* MakeMB, then ML_Relocate of the CREATED block: nobody else can reach the
\* block between the two calls.  The search begins at the head of the list.
ML_Insert(b) ==
  /\ mlmutex = "free"
  /\ processingState[b] = "FREE"
  /\ \E p \in 1 .. Len(chain) + 1 :
       /\ IsInsertPosition(chain, 1, FirstDue(b, now), p)
       /\ chain' = InsertAt(chain, p, b)
  /\ processingState' = [processingState EXCEPT ![b] = "READY"]
  /\ nextSampleDue' = [nextSampleDue EXCEPT ![b] = FirstDue(b, now)]
  /\ UNCHANGED <<mlmutex, held, sampledAt, now>>

\* ML_SelectNextDue at time t returns block b, which stays where it is.
ML_SelectNextDue(b, t) ==
  /\ mlmutex = "free"
  /\ ScanEndsAt(b, t)
  /\ IsDue(b, t)
  /\ processingState' = [processingState EXCEPT ![b] = "IN_PROGRESS"]
  /\ nextSampleDue' = [nextSampleDue EXCEPT ![b] = FollowingDue(b, t)]
  /\ held' = held \union {b}
  /\ sampledAt' = [sampledAt EXCEPT ![b] = t]
  /\ UNCHANGED <<chain, mlmutex, now>>

\* It returns NULL and the due time of block b, which is now reserved for
\* the client (reserve is set in the program's only call).
ML_ReserveNextDue(b, t) ==
  /\ mlmutex = "free"
  /\ ScanEndsAt(b, t)
  /\ IsLater(b, t)
  /\ processingState' = [processingState EXCEPT ![b] = "RESERVED"]
  /\ UNCHANGED <<chain, nextSampleDue, mlmutex, held, sampledAt, now>>

\* It returns NULL and the time -1: no block is due, none can be reserved.
ML_NothingDue(t) ==
  /\ mlmutex = "free"
  /\ \A i \in 1 .. Len(chain) : ~Stops(chain[i], t)
  /\ UNCHANGED mlvars

\* A deleted block is deallocated when its client gives it back.
RelocateDeleted(b) ==
  /\ processingState[b] = "DELETED"
  /\ processingState' = [processingState EXCEPT ![b] = "FREE"]
  /\ UNCHANGED <<chain, mlmutex>>

\* The search for the new position begins where the block was found.
RelocateLinked(b) ==
  /\ processingState[b] # "DELETED"
  /\ \E i \in 1 .. Len(chain) :
       /\ chain[i] = b
       /\ LET rest == RemoveAt(chain, i) IN
            \E p \in 1 .. Len(chain) :
              /\ IsInsertPosition(rest, i, nextSampleDue[b], p)
              /\ chain' = InsertAt(rest, p, b)
  /\ processingState' = [processingState EXCEPT ![b] = "READY"]
  /\ UNCHANGED mlmutex

\* The block is not in the list: the function returns with the mutex locked.
RelocateNotFound(b) ==
  /\ processingState[b] # "DELETED"
  /\ ~Linked(b)
  /\ mlmutex' = "kept"
  /\ UNCHANGED <<chain, processingState>>

ML_Relocate(b) ==
  /\ mlmutex = "free"
  /\ b \in held
  /\ RelocateDeleted(b) \/ RelocateLinked(b) \/ RelocateNotFound(b)
  /\ held' = held \ {b}
  /\ UNCHANGED <<nextSampleDue, sampledAt, now>>

\* Mutants: ML_Remove frees every block; unlinks without marking.
RemoveTo(b, state) ==
  /\ mlmutex = "free"
  /\ \E i \in 1 .. Len(chain) :
       chain[i] = b /\ chain' = RemoveAt(chain, i)
  /\ processingState' = [processingState EXCEPT ![b] = state]
  /\ UNCHANGED <<nextSampleDue, mlmutex, held, sampledAt, now>>
RemoveAndFree(b) == RemoveTo(b, "FREE")
RemoveUnmarked(b) ==
  RemoveTo(b, IF processingState[b] = "IN_PROGRESS" THEN "IN_PROGRESS" ELSE "FREE")

\* A block a client is processing is only unlinked and marked; its client
\* deallocates it.  Any other block is deallocated at once.
ML_Remove(b) ==
  /\ mlmutex = "free"
  /\ \E i \in 1 .. Len(chain) :
       chain[i] = b /\ chain' = RemoveAt(chain, i)
  /\ processingState' = [processingState EXCEPT
       ![b] = IF @ = "IN_PROGRESS" THEN "DELETED" ELSE "FREE"]
  /\ UNCHANGED <<nextSampleDue, mlmutex, held, sampledAt, now>>

\* Every block becomes READY with a first due time, where it is.
ML_Reset ==
  /\ mlmutex = "free"
  /\ processingState' = [b \in Blocks |->
       IF Linked(b) THEN "READY" ELSE processingState[b]]
  /\ nextSampleDue' = [b \in Blocks |->
       IF Linked(b) THEN FirstDue(b, now) ELSE nextSampleDue[b]]
  /\ UNCHANGED <<chain, mlmutex, held, sampledAt, now>>

ML_Finish ==
  /\ mlmutex = "free"
  /\ chain' = <<>>
  /\ processingState' = [b \in Blocks |->
       IF Linked(b) THEN "FREE" ELSE processingState[b]]
  /\ UNCHANGED <<nextSampleDue, mlmutex, held, sampledAt, now>>

(***************************************************************************)
(* How the program uses the list: a client relocates only what it          *)
(* selected, and ML_Reset and ML_Finish are called when no client runs.    *)
(* A client processes one block at a time.  The time of a selection is     *)
(* read before the mutex is taken.                                         *)
(***************************************************************************)
MLNext ==
  \/ Tick
  \/ \E b \in Blocks : ML_Insert(b) \/ ML_Remove(b) \/ ML_Relocate(b)
  \/ /\ Cardinality(held) < MaxClients
     /\ \E b \in Blocks, t \in 0 .. now : ML_SelectNextDue(b, t)
  \/ \E b \in Blocks, t \in 0 .. now : ML_ReserveNextDue(b, t)
  \/ \E t \in 0 .. now : ML_NothingDue(t)
  \/ held = {} /\ (ML_Reset \/ ML_Finish)

MLSpec == MLInit /\ [][MLNext]_mlvars

-----------------------------------------------------------------------------
(* Type correctness: the variables of the list hold what mlist.h declares. *)
TypeOK ==
  /\ chain \in Seq(Blocks)
  /\ processingState \in [Blocks -> ProcessingStates]
  /\ nextSampleDue \in [Blocks -> Nat]
  /\ mlmutex \in {"free", "kept"}
  /\ held \subseteq Blocks
  /\ sampledAt \in [Blocks -> Nat \union {-1}]
  /\ now \in Nat

(* The links form a proper list: no block is linked twice, which would     *)
(* make the list circular (ML_Relocate unchains before it inserts).        *)
ChainHasNoDuplicates ==
  \A i, j \in 1 .. Len(chain) : chain[i] = chain[j] => i = j

(* Memory safety and no leak: the linked blocks are the allocated ones     *)
(* that are not marked for deletion, and a block a client holds is still   *)
(* allocated whatever ML_Remove did meanwhile (mlist.c:224, "is in         *)
(* progress - only mark for deletion").                                    *)
BlocksAccountedFor ==
  \A b \in Blocks :
    /\ Linked(b) <=> processingState[b] \in {"READY", "RESERVED", "IN_PROGRESS"}
    /\ b \in held <=> processingState[b] \in {"IN_PROGRESS", "DELETED"}

(* ML_Relocate never takes its error return, which would leave the list    *)
(* locked for good: a block that is given back is in the list or deleted.  *)
NeverLeftLocked == mlmutex = "free"

(* Of the blocks that wait, an earlier due one comes first (mlist.c:21,    *)
(* "sorted in the order of their next due time").                          *)
WaitingBlocksSorted ==
  \A i, j \in 1 .. Len(chain) :
    /\ i < j
    /\ processingState[chain[i]] # "IN_PROGRESS"
    /\ processingState[chain[j]] # "IN_PROGRESS"
    => nextSampleDue[chain[i]] <= nextSampleDue[chain[j]]

(* With wall clock synchronisation a metric is selected at most once in    *)
(* each of its intervals, across ML_Reset and unloading and reloading.     *)
OneSamplePerInterval ==
  [][SyncLevel = 1 =>
       \A b \in Blocks : sampledAt'[b] # sampledAt[b] /\ sampledAt[b] # -1 =>
         sampledAt[b] \div Interval[b] < sampledAt'[b] \div Interval[b]]_mlvars
=============================================================================
