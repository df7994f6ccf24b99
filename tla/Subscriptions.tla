---------------------------- MODULE Subscriptions -----------------------------
(***************************************************************************)
(* Subscriptions to metric values in reposd: the forwarding table          *)
(* (sforward.c), the list of subscriptions (repos.c) and the repository's  *)
(* callbacks (mreposl.c).  The main thread subscribes and unsubscribes for *)
(* listeners while a remote thread stores values and, under the lock of    *)
(* the repository, walks the list of subscriptions for each of them.  The  *)
(* main thread takes no lock ("TODO: add locks"), so its calls are split   *)
(* where the walk can come in between.                                     *)
(***************************************************************************)
EXTENDS Integers, SequencesExt, Criteria

CONSTANTS Metrics,      \* metric ids
          BaseOf,       \* of each metric: itself, or mcAliasId if it is calculated
          Listeners,    \* socket names
          Correlators,  \* correlator ids listeners use
          Garbage,      \* what malloc'ed memory may hold
          MaxCalls,     \* bound: calls of subscribe and unsubscribe
          MaxReloads    \* bound: plugins unloaded or loaded, and terminations

ASSUME SubscriptionsAssumption ==
  /\ Metrics \subseteq Nat
  /\ BaseOf \in [Metrics -> Nat]
  /\ Correlators \subseteq Nat
  /\ Garbage \subseteq Int
  /\ MaxCalls \in Nat /\ MaxReloads \in Nat

VARIABLES fwl,             \* fwHead: the forwarding entries
          fwCorrelatorId,
          subscriptions,
          header,          \* LocalReposHeader: metric, callback or none, its use count
          loaded,          \* metrics that have a definition in the registry
          pc, request,     \* of the main thread
          walk,            \* of the remote thread: value and place in the list
          owed,            \* history: metrics the walk still has to report
          calls, reloads

mainvars == <<pc, request, calls>>
walkvars == <<walk, owed>>
vars == <<fwl, fwCorrelatorId, subscriptions, header, loaded, mainvars, walkvars, reloads>>

Bases == {BaseOf[m] : m \in Metrics}

NoRequest == [mid |-> 0, corrid |-> 0, listener |-> "none"]
Resting   == [at |-> "idle", value |-> 0, pos |-> 0, mid |-> 0, corrid |-> 0]

Init ==
  /\ fwl = <<>> /\ fwCorrelatorId = 0
  /\ subscriptions = <<>>
  /\ header = <<>>
  /\ loaded = Metrics
  /\ pc = "idle" /\ request = NoRequest /\ calls = 0
  /\ walk = Resting /\ owed = {}
  /\ reloads = 0

Goto(label) == pc' = label
Done        == pc' = "idle" /\ request' = NoRequest /\ UNCHANGED calls

-----------------------------------------------------------------------------
(* The forwarding table.                                                   *)

Forwards(i, r) ==
  i \in 1..Len(fwl) /\ fwl[i].mid = r.mid /\ fwl[i].orig = r.corrid /\ fwl[i].listener = r.listener

\* Mutant: the request keeps the listener's correlator.
KeepCorrelator(r) ==
  /\ fwl' = Append(fwl, [mid |-> r.mid, corrid |-> fwCorrelatorId, orig |-> r.corrid, listener |-> r.listener])
  /\ fwCorrelatorId' = fwCorrelatorId + 1
  /\ request' = r

\* A new entry gets a correlator of its own, and the request as well.
NewForwarding(r) ==
  /\ fwl' = Append(fwl, [mid |-> r.mid, corrid |-> fwCorrelatorId, orig |-> r.corrid, listener |-> r.listener])
  /\ fwCorrelatorId' = fwCorrelatorId + 1
  /\ request' = [r EXCEPT !.corrid = fwCorrelatorId]

\* An entry that is there stays, and so does the request.
subs_enable_forwarding(r) ==
  /\ pc = "idle" /\ calls < MaxCalls /\ calls' = calls + 1
  /\ IF \E i \in 1..Len(fwl) : Forwards(i, r)
     THEN request' = r /\ UNCHANGED <<fwl, fwCorrelatorId>>
     ELSE NewForwarding(r)
  /\ Goto("subscribe")
  /\ UNCHANGED <<subscriptions, header, loaded, walkvars, reloads>>

\* The first entry that matches is freed; without one the command fails.
subs_disable_forwarding(r) ==
  /\ pc = "idle" /\ calls < MaxCalls /\ calls' = calls + 1
  /\ \E i \in 1..Len(fwl) :
       /\ Forwards(i, r)
       /\ fwl' = RemoveAt(fwl, i)
  /\ request' = r
  /\ Goto("unsubscribe")
  /\ UNCHANGED <<fwCorrelatorId, subscriptions, header, loaded, walkvars, reloads>>

\* subs_forward stops at the first larger correlator.
ForwardedTo(i, corrid) ==
  /\ i \in 1..Len(fwl)
  /\ fwl[i].corrid = corrid
  /\ \A j \in 1..i : fwl[j].corrid <= corrid

-----------------------------------------------------------------------------
(* The list of subscriptions.                                              *)

Follows(i, base) == i \in 1..Len(subscriptions) - 1 /\ subscriptions[i + 1].base > base

\* The search gets to position i.
Reaches(i, base) == i \in 1..Len(subscriptions) /\ \A j \in 1..i - 1 : ~Follows(j, base)

SubscribedAt(i, m) == Reaches(i, BaseOf[m]) /\ subscriptions[i].mid = m

\* The element the search leaves behind: one before the one it stops at.
Prev(base) ==
  IF \E i \in 1..Len(subscriptions) : Follows(i, base)
  THEN LET stop == CHOOSE i \in 1..Len(subscriptions) : Follows(i, base) /\ Reaches(i, base)
       IN IF stop = 1 THEN 1 ELSE stop - 1
  ELSE Len(subscriptions)

Place(base) ==
  IF subscriptions = <<>> \/ (Prev(base) = 1 /\ subscriptions[1].base > base)
  THEN 1 ELSE Prev(base) + 1

\* A walk keeps its element when the list changes before it.
sub_add ==
  /\ pc = "subscribe"
  /\ LET m == request.mid
         place == Place(BaseOf[m])
     IN \/ m \notin loaded /\ Done /\ UNCHANGED <<subscriptions, walk>>
        \/ /\ m \in loaded
           /\ \E i \in 1..Len(subscriptions) : SubscribedAt(i, m)
           /\ Goto("register") /\ UNCHANGED <<subscriptions, walk, request, calls>>
        \/ /\ m \in loaded
           /\ ~\E i \in 1..Len(subscriptions) : SubscribedAt(i, m)
           /\ subscriptions' = InsertAt(subscriptions, place,
                [mid |-> m, base |-> BaseOf[m], corrid |-> request.corrid])
           /\ walk' = [walk EXCEPT !.pos = IF place <= @ THEN @ + 1 ELSE @]
           /\ Goto("register") /\ UNCHANGED <<request, calls>>
  /\ UNCHANGED <<fwl, fwCorrelatorId, header, loaded, owed, reloads>>

\* The request of a removed subscription is freed.  A walk that is about to
\* read it may go on with the next one or end (nothing is owed any more).
RemoveSubscription(i) ==
  /\ subscriptions' = RemoveAt(subscriptions, i)
  /\ IF walk.at = "read" /\ walk.pos = i
     THEN (walk' = walk \/ walk' = Resting) /\ owed' = {}
     ELSE /\ walk' = [walk EXCEPT !.pos = IF i <= @ THEN @ - 1 ELSE @]
          /\ owed' = owed \ {subscriptions[i].mid}

sub_remove ==
  /\ pc = "unsubscribe"
  /\ \/ /\ request.mid \in loaded
        /\ \E i \in 1..Len(subscriptions) : SubscribedAt(i, request.mid) /\ RemoveSubscription(i)
        /\ Goto("unregister") /\ UNCHANGED <<request, calls>>
     \/ /\ request.mid \notin loaded \/ ~\E i \in 1..Len(subscriptions) : SubscribedAt(i, request.mid)
        /\ Done /\ UNCHANGED <<subscriptions, walk, owed>>
  /\ UNCHANGED <<fwl, fwCorrelatorId, header, loaded, reloads>>

-----------------------------------------------------------------------------
(* The repository's callbacks.                                             *)

IndexOf(list, mid) == SelectInSeq(list, LAMBDA h : h.mid = mid)

NewEntry(mid) == [mid |-> mid, registered |-> FALSE, usecount |-> 0]

\* LocalMetricRegisterCallback looks for the entry of the base metric ...
LocateEntry ==
  /\ pc \in {"register", "unregister"}
  /\ IndexOf(header, BaseOf[request.mid]) = 0
  /\ Goto(IF pc = "register" THEN "addregister" ELSE "addunregister")
  /\ UNCHANGED <<fwl, fwCorrelatorId, subscriptions, header, loaded, request, calls, walkvars, reloads>>

\* ... and adds one if there is none, at the end; a new callback's use count
\* is whatever its memory holds.
CountUp(h) ==
  \/ h.registered /\ header' = [header EXCEPT ![IndexOf(header, h.mid)].usecount = @ + 1]
  \/ /\ ~h.registered
     /\ \E g \in Garbage :
          header' = [header EXCEPT ![IndexOf(header, h.mid)] =
                       [mid |-> h.mid, registered |-> TRUE, usecount |-> g + 1]]

RegisterCallback ==
  /\ \/ /\ pc = "register"
        /\ \E i \in 1..Len(header) : i = IndexOf(header, BaseOf[request.mid]) /\ CountUp(header[i])
     \/ /\ pc = "addregister"
        /\ \E g \in Garbage :
             header' = Append(header, [mid |-> BaseOf[request.mid], registered |-> TRUE, usecount |-> g + 1])
  /\ Done
  /\ UNCHANGED <<fwl, fwCorrelatorId, subscriptions, loaded, walkvars, reloads>>

\* Mutant: the callback goes whatever its use count.
CountDownToAny(h) ==
  header' = [header EXCEPT ![IndexOf(header, h.mid)].registered = FALSE]

CountDown(h) ==
  header' = [header EXCEPT ![IndexOf(header, h.mid)] =
               IF h.registered /\ h.usecount = 1 THEN NewEntry(h.mid)
               ELSE IF h.registered THEN [h EXCEPT !.usecount = @ - 1] ELSE h]

UnregisterCallback ==
  /\ \/ /\ pc = "unregister"
        /\ \E i \in 1..Len(header) : i = IndexOf(header, BaseOf[request.mid]) /\ CountDown(header[i])
     \/ /\ pc = "addunregister"
        /\ header' = Append(header, NewEntry(BaseOf[request.mid]))
  /\ Done
  /\ UNCHANGED <<fwl, fwCorrelatorId, subscriptions, loaded, walkvars, reloads>>

-----------------------------------------------------------------------------
(* A value of a base metric is stored by the remote thread.                *)

Matches(s, value) == s.mid = value \/ s.base = value

\* LocalMetricAdd up to the call of RepositorySubscriptionCallback.
LocalMetricAdd(mid) ==
  /\ walk.at = "idle"
  /\ LET i == IndexOf(header, mid) IN
       /\ header' = IF i = 0 THEN Append(header, NewEntry(mid)) ELSE header
       /\ IF i # 0 /\ header[i].registered
          THEN /\ walk' = [Resting EXCEPT !.at = "read", !.value = mid, !.pos = 1]
               /\ owed' = {s.mid : s \in {s \in ToSet(subscriptions) : Matches(s, mid)}}
          ELSE UNCHANGED walkvars
  /\ UNCHANGED <<fwl, fwCorrelatorId, subscriptions, loaded, mainvars, reloads>>

\* Mutant: the walk ends at the value's own metric.
EndsEarly(s) == s.base >= walk.value

EndsAt(s) == s.base > walk.value

\* One element of the walk: it ends there, calculates the metric's value to
\* forward it, or passes it over, be it another metric's, or because its
\* criteria (system, resource, value: see Criteria) do not match or there is
\* nobody to calculate it.
ReadSubscription ==
  /\ walk.at = "read"
  /\ walk.pos <= Len(subscriptions)
  /\ LET s == subscriptions[walk.pos] IN
       /\ owed' = IF EndsAt(s) THEN owed ELSE owed \ {s.mid}
       /\ \/ EndsAt(s) /\ walk' = [walk EXCEPT !.at = "ended"]
          \/ /\ ~EndsAt(s) /\ Matches(s, walk.value) /\ s.mid \in loaded
             /\ walk' = [walk EXCEPT !.at = "forward", !.mid = s.mid, !.corrid = s.corrid]
          \/ ~EndsAt(s) /\ walk' = [walk EXCEPT !.pos = @ + 1]
  /\ UNCHANGED <<fwl, fwCorrelatorId, subscriptions, header, loaded, mainvars, reloads>>

\* subs_forward has sent the value to the listener of ForwardedTo's entry, if
\* there is one.
subs_forward ==
  /\ walk.at = "forward"
  /\ walk' = [walk EXCEPT !.at = "read", !.pos = @ + 1, !.mid = 0, !.corrid = 0]
  /\ UNCHANGED <<fwl, fwCorrelatorId, subscriptions, header, loaded, mainvars, owed, reloads>>

EndOfList ==
  /\ walk.at = "read"
  /\ walk.pos > Len(subscriptions)
  /\ walk' = [walk EXCEPT !.at = "ended"]
  /\ UNCHANGED <<fwl, fwCorrelatorId, subscriptions, header, loaded, mainvars, owed, reloads>>

\* The repository's lock is released.
LocalMetricAdded ==
  /\ walk.at = "ended"
  /\ walk' = Resting
  /\ owed' = {}
  /\ UNCHANGED <<fwl, fwCorrelatorId, subscriptions, header, loaded, mainvars, reloads>>

-----------------------------------------------------------------------------
\* Plugins come and go; the subscriptions stay.
Reload(m) ==
  /\ pc = "idle" /\ reloads < MaxReloads /\ reloads' = reloads + 1
  /\ loaded' = IF m \in loaded THEN loaded \ {m} ELSE loaded \union {m}
  /\ UNCHANGED <<fwl, fwCorrelatorId, subscriptions, header, mainvars, walkvars>>

\* repos_terminate: the callbacks go with the repository, under its lock.
repos_terminate ==
  /\ pc = "idle" /\ reloads < MaxReloads /\ reloads' = reloads + 1
  /\ walk.at = "idle"
  /\ loaded' = {}
  /\ header' = <<>>
  /\ UNCHANGED <<fwl, fwCorrelatorId, subscriptions, mainvars, walkvars>>

Requests == [mid : Metrics, corrid : Correlators, listener : Listeners]

Next ==
  \/ \E r \in Requests : subs_enable_forwarding(r) \/ subs_disable_forwarding(r)
  \/ sub_add \/ sub_remove \/ LocateEntry \/ RegisterCallback \/ UnregisterCallback
  \/ \E mid \in Bases : LocalMetricAdd(mid)
  \/ ReadSubscription \/ subs_forward \/ EndOfList \/ LocalMetricAdded
  \/ \E m \in Metrics : Reload(m)
  \/ repos_terminate

Spec == Init /\ [][Next]_vars

-----------------------------------------------------------------------------
SubscribedTo(m) == \E s \in ToSet(subscriptions) : s.mid = m

(* A value that is stored is reported to every metric subscribed to that   *)
(* is based on it, although the list changes while it is walked: none that *)
(* was there all the time is left out when the walk ends.                  *)
NobodyIsMissed == walk.at = "ended" => owed = {}

(* Between the main thread's calls, as long as the plugins stay, a metric  *)
(* is subscribed to exactly when it is forwarded, and the correlator of    *)
(* its subscription leads subs_forward to an entry of that metric: "need   *)
(* to change to local correlator id" (sforward.c:76).                      *)
TablesAgree ==
  pc = "idle" /\ reloads = 0 =>
    /\ {s.mid : s \in ToSet(subscriptions)} = {f.mid : f \in ToSet(fwl)}
    /\ \A s \in ToSet(subscriptions) :
         \E i \in 1..Len(fwl) : ForwardedTo(i, s.corrid) /\ fwl[i].mid = s.mid

(* A metric subscribed to has its callback in the entry LocalMetricAdd     *)
(* finds, also when another metric of the same base was unsubscribed, as   *)
(* long as the repository stays, the base metric has one entry only, and   *)
(* the use count did not start below 0 (its memory is never initialized).  *)
SubscribedIsCalledBack ==
  pc = "idle" /\ reloads = 0 =>
    \A m \in Metrics :
      SubscribedTo(m) /\ (\A i, j \in 1..Len(header) :
                            header[i].mid = BaseOf[m] /\ header[j].mid = BaseOf[m] => i = j)
        => \E h \in ToSet(header) : h.mid = BaseOf[m] /\ h.registered

\* Calculations over all inputs are checked once.
AtStart == calls = 0 /\ reloads = 0 /\ header = <<>> /\ walk = Resting

(* A value passes a subscription's comparison exactly when the numbers are *)
(* in the relation asked for, although only an int keeps their difference  *)
(* (repos.c:709): for every pair the int can tell apart.  Beyond that the  *)
(* code is wrong: values 2^32 apart are equal, farther ones change sides,  *)
(* and floats less than one apart are equal.                               *)
ComparesValues ==
  AtStart => \A type \in {"integer", "float"}, op \in SUBSCR_OP :
    \A ls, lv \in Signed(LongWidth) :
      ToldApart(type, ls, lv) => (matchValue(type, op, ls, lv) <=> Holds(op, ls, lv))
=============================================================================
