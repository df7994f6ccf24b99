--------------------------- MODULE LocalRepository ---------------------------
(***************************************************************************)
(* The local repository of reposd (mreposl.c): per metric a sorted array   *)
(* of resources, per resource a list of values, newest first.  The remote  *)
(* threads add values, and prune outdated ones as they do; the main thread *)
(* retrieves and shuts down (for its callbacks see Subscriptions).  What   *)
(* is done under the repository's lock is one step.  A value is its time   *)
(* stamp; a resource is a pair of numbers in the order of its names,       *)
(* resource and system.                                                    *)
(***************************************************************************)
EXTENDS Integers, FiniteSets, SequencesExt

CONSTANTS Writers,         \* remote threads
          Metrics,         \* metric ids
          Keys,            \* pairs <<resource, system>>
          Expiration,      \* EXPIRATION_INTERVAL
          MaxTime,         \* bound: of the clock
          MaxDelay,        \* bound: time from a value's sampling to its storing
          MaxValues,       \* bound: values kept per resource when one is added
          MaxLength,       \* bound: length of the lists retrieval is checked for
          SearchKeys       \* bound: resources the search is checked for

ASSUME LocalRepositoryAssumption ==
  /\ Expiration \in Nat \ {0} /\ MaxTime \in Nat /\ MaxValues \in Nat
  /\ MaxDelay \in 0..(Expiration - 1)
  /\ MaxLength \in Nat
  /\ Keys \subseteq Nat \X Nat /\ SearchKeys \subseteq Nat \X Nat /\ IsFiniteSet(SearchKeys)

PruneInterval == Expiration \div 2

VARIABLES header,      \* LocalReposHeader: metric and its array of resources
          nextPrune,
          now,
          pc,          \* where each writer is in LocalMetricAdd
          value,       \* the metric, resource and time stamp it adds
          pruneTime    \* now of its pruneRepository

vars == <<header, nextPrune, now, pc, value, pruneTime>>

NoValue == [mid |-> 0, key |-> <<0, 0>>, ts |-> 0]

Goto(w, label) == pc' = [pc EXCEPT ![w] = label]
At(w, label)   == pc[w] = label

Init ==
  /\ header = <<>>
  /\ nextPrune = 0
  /\ now = 1
  /\ pc = [w \in Writers |-> "idle"]
  /\ value = [w \in Writers |-> NoValue]
  /\ pruneTime = [w \in Writers |-> 0]

-----------------------------------------------------------------------------
\* rescmp: resource first, then system.
Before(k, l) == k[1] < l[1] \/ (k[1] = l[1] /\ k[2] < l[2])

\* The first entry of a metric, 0 if there is none.
LocateIndex(m) ==
  LET found == {i \in 1..Len(header) : header[i].mid = m}
  IN IF found = {} THEN 0 ELSE CHOOSE i \in found : \A j \in found : i <= j

AddIndex(m) == Append(header, [mid |-> m, reslist |-> <<>>])

\* What is left to be searched, from left to right, and its middle.
Windows(list)  == (1..Len(list) + 1) \X (0..Len(list))
Cursor(window) == (window[1] + window[2]) \div 2

\* Mutant: the upper half starts at the middle's left neighbour.
LocateRight(list, key) ==
  LET probe[w \in Windows(list)] ==
        IF w[1] > w[2] THEN w[1]
        ELSE IF list[Cursor(w)].key = key THEN Cursor(w)
        ELSE IF Before(list[Cursor(w)].key, key) THEN probe[<<Cursor(w) + 1, w[2]>>]
        ELSE Cursor(w) + 1
  IN probe[<<1, Len(list)>>]

\* locateres: the binary search, which ends at the resource's place or at the
\* place where it has to be inserted.
LocateRes(list, key) ==
  LET probe[w \in Windows(list)] ==
        IF w[1] > w[2] THEN w[1]
        ELSE IF list[Cursor(w)].key = key THEN Cursor(w)
        ELSE IF Before(list[Cursor(w)].key, key) THEN probe[<<Cursor(w) + 1, w[2]>>]
        ELSE probe[<<w[1], Cursor(w) - 1>>]
  IN probe[<<1, Len(list)>>]

IsAt(list, i, key) == i \in 1..Len(list) /\ list[i].key = key

WithRes(list, key) ==
  LET i == LocateRes(list, key)
  IN IF IsAt(list, i, key) THEN list ELSE InsertAt(list, i, [key |-> key, values |-> <<>>])

Pushed(values, ts) == <<ts>> \o values

\* LocalMetricAdd's change of one metric's resource list.
Stored(list, key, ts) ==
  LET with == WithRes(list, key)
      i    == LocateRes(with, key)
  IN [with EXCEPT ![i].values = Pushed(@, ts)]

\* Mutant: a value is outdated one second too early.
FreshEarly(values, time) ==
  LET first == SelectInSeq(values, LAMBDA v : v <= time - Expiration + 1)
  IN IF first = 0 THEN values ELSE SubSeq(values, 1, first - 1)

\* The values up to the first one that has expired: the list is cut there.
Fresh(values, time) ==
  LET first == SelectInSeq(values, LAMBDA v : v <= time - Expiration)
  IN IF first = 0 THEN values ELSE SubSeq(values, 1, first - 1)

PrunedList(list, time) == [j \in 1..Len(list) |-> [list[j] EXCEPT !.values = Fresh(@, time)]]

Pruned(time) == [i \in 1..Len(header) |-> [header[i] EXCEPT !.reslist = PrunedList(@, time)]]

-----------------------------------------------------------------------------
Forever   == MaxTime + 1      \* LONG_MAX
Unlimited == MaxLength + 1    \* INT_MAX

Upto(from, to, maxnum) ==
  IF to \in {0, -1} \/ (maxnum > 0 /\ to = from) THEN Forever ELSE to

Atmost(maxnum) == IF maxnum <= 0 THEN Unlimited ELSE maxnum

\* Mutant: without the correction of bug 2723.
GoesOnStrictly(ts, num, from, max) == from <= ts

\* Whether the scan looks at a value: one older than "from" is taken as the
\* second of two.
GoesOn(ts, num, from, max) == from <= ts \/ (max = 2 /\ num = 1)

\* The scan of _MetricRetrieveNoLock looks at one more value.  It has found where
\* the values to return begin and their number; past the maximum these slide on
\* to older ones.
Looked(found, i, ts, from, to, max) ==
  LET begin == IF found.first = 0 THEN i ELSE found.first
  IN IF found.over \/ ~GoesOn(ts, found.num, from, max) THEN [found EXCEPT !.over = TRUE]
     ELSE IF to < ts THEN found
     ELSE IF found.num < max
     THEN [first |-> begin, num |-> found.num + 1, over |-> from = 0 /\ found.num + 1 = max]
     ELSE [found EXCEPT !.first = IF @ = 0 THEN i ELSE @ + 1]

NothingFound == [first |-> 0, num |-> 0, over |-> FALSE]

Scan(values, from, to, max) ==
  LET scan[i \in 0..Len(values)] ==     \* after i values
        IF i = 0 THEN NothingFound ELSE Looked(scan[i - 1], i, values[i], from, to, max)
  IN scan[Len(values)]

MetricRetrieve(values, from, to, maxnum) ==
  LET found == Scan(values, from, Upto(from, to, maxnum), Atmost(maxnum))
  IN IF found.num = 0 THEN <<>> ELSE SubSeq(values, found.first, found.first + found.num - 1)

-----------------------------------------------------------------------------
\* Values arrive in the order they were sampled, and one at a time per
\* resource: a resource belongs to one gatherd, which has one connection.
LocalMetricAdd(w, m, k) ==
  /\ At(w, "idle")
  /\ \A v \in Writers : pc[v] # "idle" => value[v].mid # m \/ value[v].key # k
  /\ value' = [value EXCEPT ![w] = [mid |-> m, key |-> k, ts |-> now]]
  /\ pruneTime' = [pruneTime EXCEPT ![w] = now]
  /\ Goto(w, IF nextPrune < now THEN "schedule" ELSE "add")
  /\ UNCHANGED <<header, nextPrune, now>>

\* Mutant: the next prune is due from the last due time on.
SchedulePruneLate(w) ==
  /\ At(w, "schedule")
  /\ nextPrune' = pruneTime[w] + Expiration
  /\ Goto(w, "prune")
  /\ UNCHANGED <<header, now, value, pruneTime>>

SchedulePrune(w) ==
  /\ At(w, "schedule")
  /\ nextPrune' = pruneTime[w] + PruneInterval
  /\ Goto(w, "prune")
  /\ UNCHANGED <<header, now, value, pruneTime>>

PruneRepository(w) ==
  /\ At(w, "prune")
  /\ header' = Pruned(pruneTime[w])
  /\ Goto(w, "add")
  /\ UNCHANGED <<nextPrune, now, value, pruneTime>>

AddValue(w) ==
  /\ At(w, "add")
  /\ LET v    == value[w]
         with == IF LocateIndex(v.mid) = 0 THEN AddIndex(v.mid) ELSE header
         i    == IF LocateIndex(v.mid) = 0 THEN Len(with) ELSE LocateIndex(v.mid)
     IN header' = [with EXCEPT ![i].reslist = Stored(@, v.key, v.ts)]
  /\ Goto(w, "idle")
  /\ value' = [value EXCEPT ![w] = NoValue]
  /\ pruneTime' = [pruneTime EXCEPT ![w] = 0]
  /\ UNCHANGED <<nextPrune, now>>

LocalMetricShutdown ==
  /\ header' = <<>>
  /\ UNCHANGED <<nextPrune, now, pc, value, pruneTime>>

\* The clock; a value that was sampled does not take longer than MaxDelay.
Tick ==
  /\ now < MaxTime
  /\ \A w \in Writers : pc[w] # "idle" => now < value[w].ts + MaxDelay
  /\ now' = now + 1
  /\ UNCHANGED <<header, nextPrune, pc, value, pruneTime>>

HasRoom(m, k) ==
  \A i \in 1..Len(header) : \A j \in 1..Len(header[i].reslist) :
    header[i].mid = m /\ header[i].reslist[j].key = k => Len(header[i].reslist[j].values) < MaxValues

Next ==
  \/ \E w \in Writers :
       \/ \E m \in Metrics, k \in Keys : HasRoom(m, k) /\ LocalMetricAdd(w, m, k)
       \/ SchedulePrune(w) \/ PruneRepository(w) \/ AddValue(w)
  \/ LocalMetricShutdown \/ Tick

Spec == Init /\ [][Next]_vars

-----------------------------------------------------------------------------
Reslists == {header[i].reslist : i \in 1..Len(header)}
Chains   == UNION {{list[j].values : j \in 1..Len(list)} : list \in Reslists}

\* Where what holds of all bounded inputs is looked at, whatever the state.
AtStart == now = 1 /\ nextPrune = 0 /\ header = <<>>

(* For every sorted array and every resource, new or not, the binary       *)
(* search leads to a sorted array with that resource and the others.       *)
KeysOf(list)    == {list[i].key : i \in 1..Len(list)}
Ascending(list) == \A i, j \in 1..Len(list) : i < j => Before(list[i].key, list[j].key)

ArrayOf(keys) == [i \in 1..Len(keys) |-> [key |-> keys[i], values |-> <<>>]]

InsertsInOrder ==
  AtStart =>
    \A keys \in SeqOf(SearchKeys, Cardinality(SearchKeys)) : \A k \in SearchKeys :
      Ascending(ArrayOf(keys)) =>
        /\ Ascending(WithRes(ArrayOf(keys), k))
        /\ KeysOf(WithRes(ArrayOf(keys), k)) = KeysOf(ArrayOf(keys)) \union {k}

(* Pruning never takes a value that has not expired, whichever threads     *)
(* prune and add at the same time.                                         *)
NumFresh(values) == Cardinality({n \in 1..Len(values) : values[n] > now - Expiration})

KeepsEachFresh ==
  header' # <<>> =>
    \A i \in 1..Len(header) : \A j \in 1..Len(header[i].reslist) :
      \E n \in 1..Len(header'[i].reslist) :
        /\ header'[i].reslist[n].key = header[i].reslist[j].key
        /\ NumFresh(header'[i].reslist[n].values) >= NumFresh(header[i].reslist[j].values)

KeepsFresh == [][KeepsEachFresh]_vars

(* The repository does not grow without limit: when no prune is pending,   *)
(* all values are younger than the expiration at the last prune, although  *)
(* nextPrune is read and written outside the lock.                         *)
NothingOverdue ==
  (\A w \in Writers : pc[w] \notin {"schedule", "prune"}) =>
    \A c \in Chains : \A i \in 1..Len(c) : c[i] > nextPrune - PruneInterval - Expiration

(* The reference of retrieval: of the values in the time range, which are  *)
(* consecutive, the newest maxnum if "from" is 0, and otherwise the oldest *)
(* maxnum; a request for two that finds one gets the value before it as    *)
(* well (bug 2723).                                                        *)
NumNewer(values, time) == Cardinality({i \in 1..Len(values) : values[i] > time})

Reference(values, from, to, max) ==
  LET newest == NumNewer(values, to) + 1
      oldest == NumNewer(values, from - 1)
      n      == oldest - newest + 1
  IN CASE n >= max /\ from = 0 -> SubSeq(values, newest, newest + max - 1)
       [] n >= max /\ from > 0 -> SubSeq(values, oldest - max + 1, oldest)
       [] n = 1 /\ max = 2     -> SubSeq(values, oldest, IF oldest < Len(values) THEN oldest + 1 ELSE oldest)
       [] OTHER                -> SubSeq(values, newest, oldest)

(* Retrieval returns what its comment (mreposl.c:172-185) promises, for    *)
(* every list that the repository holds, or up to MaxLength, and every     *)
(* range and maximum, except ranges with 0 < to < from: for them the code  *)
(* returns nothing, although the comment speaks of them as if they were    *)
(* ranges with to = from.                                                  *)
Lists ==
  Chains \union
    IF AtStart THEN {c \in SeqOf(1..MaxTime, MaxLength) : IsSorted(c, LAMBDA x, y : x >= y)}
    ELSE {}

RetrievesRange ==
  \A c \in Lists : \A from \in 0..MaxTime, to \in -1..MaxTime, maxnum \in 0..3 :
    (to <= 0 \/ from <= to) =>
      MetricRetrieve(c, from, to, maxnum)
        = Reference(c, from, Upto(from, to, maxnum), Atmost(maxnum))

=============================================================================
