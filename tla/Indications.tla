----------------------------- MODULE Indications -----------------------------
(***************************************************************************)
(* Metric indications from end to end: the indication provider in the CIM  *)
(* server (OSBase_MetricIndicationProvider.c), the list of callbacks and   *)
(* the listener thread in the client library (slisten.c, rrepos.c), the    *)
(* main and the remote threads of reposd, and the lock of the repository   *)
(* (RWLock) that a remote thread keeps while it forwards a value to the    *)
(* listener's socket.                                                      *)
(*                                                                         *)
(* The broker makes one call at a time.  The listener thread takes none of *)
(* the provider's locks: it reads the filters and the callbacks while the  *)
(* provider changes them.  Subscribing inside reposd, which Subscriptions  *)
(* takes apart, is one step here.  A value that nobody has to be told of   *)
(* is stored and forgotten.                                                *)
(***************************************************************************)
EXTENDS RWLock, SequencesExt

CONSTANTS Main,          \* of Threads: the main thread of reposd; the others are remote
          Filters,       \* the broker's filters
          MetricOf,      \* the metric id that each asks for
          QueueLength,   \* datagrams a socket holds before the sender waits
          MaxCalls,      \* bound: calls of the broker and faults
          MaxFaults      \* bound: requests or answers lost, and restarts of reposd

ASSUME IndicationsAssumption ==
  /\ Main \in Threads
  /\ MetricOf \in [Filters -> Nat]
  /\ QueueLength \in Nat \ {0}
  /\ MaxCalls \in Nat /\ MaxFaults \in Nat

VARIABLES listenFilters, enabled, runningCorrelator,   \* of the provider
          active,          \* the filters the broker has activated
          call,            \* the broker's call that the provider is working on
          callbacks,       \* cbHead
          exchange,        \* the client's request, made under rrepos_mutex
          listener,        \* the listener thread
          socket,          \* datagrams waiting for it
          main,            \* what the main thread of reposd is doing
          storing,         \* the value each remote thread stores
          forwarded, subscriptions,   \* reposd's tables
          calls, faults

provider == <<listenFilters, enabled, runningCorrelator, active, call, calls>>
reposd   == <<main, storing, forwarded, subscriptions>>
allvars  == <<provider, callbacks, exchange, listener, socket, reposd, faults, vars>>

Metrics == {MetricOf[f] : f \in Filters}
Remotes == Threads \ {Main}

NoRequest == [mid |-> 0, corrid |-> 0]
NoCall    == [at |-> "none", op |-> "none", todo |-> <<>>, after |-> FALSE]
Unlocked  == [at |-> "none", by |-> "none", cmd |-> "none", sr |-> NoRequest, ok |-> FALSE]
Receiving == [at |-> "recv", msg |-> NoRequest, pos |-> 0]

IndicationsInit ==
  /\ Init
  /\ listenFilters = <<>> /\ enabled = FALSE /\ runningCorrelator = 100
  /\ active = {} /\ call = NoCall /\ calls = 0
  /\ callbacks = <<>> /\ exchange = Unlocked
  /\ listener = Receiving /\ socket = <<>>
  /\ main = "idle" /\ storing = [t \in Remotes |-> 0]
  /\ forwarded = {} /\ subscriptions = {}
  /\ faults = 0

-----------------------------------------------------------------------------
(* The provider: calls of the broker, each under listenMutex.              *)

Request(lf) == [mid |-> lf.mid, corrid |-> lf.corrid]

\* What a call has still to subscribe or unsubscribe, and whether indications
\* are enabled when it is done.
Calls(op, lfs, after) ==
  call' = [at |-> "next", op |-> op, todo |-> [i \in DOMAIN lfs |-> Request(lfs[i])], after |-> after]

Fault       == faults < MaxFaults /\ calls + faults < MaxCalls /\ faults' = faults + 1
BrokerCalls == call = NoCall /\ calls + faults < MaxCalls /\ calls' = calls + 1

\* The new filter is the last one; it has a correlator of its own.
ActivateFilter(f) ==
  /\ BrokerCalls
  /\ f \notin active
  /\ LET lf == [filter |-> f, mid |-> MetricOf[f], corrid |-> runningCorrelator, on |-> FALSE] IN
       /\ listenFilters' = Append(listenFilters, lf)
       /\ Calls("subscribe", IF enabled THEN <<lf>> ELSE <<>>, enabled)
  /\ runningCorrelator' = runningCorrelator + 1
  /\ active' = active \union {f}
  /\ UNCHANGED <<enabled, callbacks, exchange, listener, socket, reposd, faults, vars>>

\* The second filter's predecessor is the head, as the first one's is: the
\* first filter goes with it.
Unlink(i) ==
  IF i <= 2 THEN SubSeq(listenFilters, i + 1, Len(listenFilters)) ELSE RemoveAt(listenFilters, i)

\* A filter that is not in the list fails to be deactivated.
DeActivateFilter(f) ==
  /\ BrokerCalls
  /\ f \in active
  /\ LET i == SelectInSeq(listenFilters, LAMBDA lf : lf.filter = f) IN
       IF i = 0 THEN UNCHANGED <<listenFilters, call>>
       ELSE /\ listenFilters' = Unlink(i)
            /\ Calls("unsubscribe", IF listenFilters[i].on THEN <<listenFilters[i]>> ELSE <<>>, enabled)
  /\ active' = active \ {f}
  /\ UNCHANGED <<enabled, runningCorrelator, callbacks, exchange, listener, socket, reposd, faults, vars>>

enableFilters ==
  /\ BrokerCalls
  /\ Calls("subscribe", SelectSeq(listenFilters, LAMBDA lf : ~lf.on), TRUE)
  /\ UNCHANGED <<listenFilters, enabled, runningCorrelator, active,
                 callbacks, exchange, listener, socket, reposd, faults, vars>>

disableFilters ==
  /\ BrokerCalls
  /\ Calls("unsubscribe", SelectSeq(listenFilters, LAMBDA lf : lf.on), FALSE)
  /\ UNCHANGED <<listenFilters, enabled, runningCorrelator, active,
                 callbacks, exchange, listener, socket, reposd, faults, vars>>

ReturnToBroker ==
  /\ call.at = "next" /\ call.todo = <<>>
  /\ enabled' = call.after
  /\ call' = NoCall
  /\ UNCHANGED <<listenFilters, runningCorrelator, active, calls,
                 callbacks, exchange, listener, socket, reposd, faults, vars>>

Switch(sr, on) ==
  listenFilters' = [i \in DOMAIN listenFilters |->
                      IF Request(listenFilters[i]) = sr THEN [listenFilters[i] EXCEPT !.on = on]
                      ELSE listenFilters[i]]

-----------------------------------------------------------------------------
(* The client library: its list of callbacks and its requests.             *)

\* Mutant: the walk stops at an equal correlator, too.
GoesOnBelow(corrid, cb) == corrid < cb.corrid

\* The walks go on up to the first callback with a smaller correlator; the
\* list is in ascending order.
GoesOn(corrid, cb) == corrid <= cb.corrid

Reached(i, corrid) == i \in DOMAIN callbacks /\ \A j \in 1..i : GoesOn(corrid, callbacks[j])

\* The element the search for the place of a new entry leaves behind: one
\* before the one it stops at.
Follows(i, corrid) == i < Len(callbacks) /\ callbacks[i + 1].corrid > corrid

Left(corrid) ==
  LET stops == {i \in DOMAIN callbacks : Follows(i, corrid)}
  IN IF stops = {} THEN Len(callbacks) ELSE Max({1, Min(stops) - 1})

PlaceOf(corrid) ==
  IF callbacks = <<>> \/ (Left(corrid) = 1 /\ callbacks[1].corrid > corrid) THEN 1 ELSE Left(corrid) + 1

\* The listener, if it walks, keeps its place in the list.
add_subscription_listener(sr) ==
  IF \E i \in DOMAIN callbacks : callbacks[i] = sr THEN UNCHANGED <<callbacks, listener>>
  ELSE /\ callbacks' = InsertAt(callbacks, PlaceOf(sr.corrid), sr)
       /\ listener' = [listener EXCEPT !.pos = IF PlaceOf(sr.corrid) <= @ THEN @ + 1 ELSE @]

\* Mutant: reposd is asked first.
SubscribeFirst ==
  /\ call.at = "next" /\ call.op = "subscribe" /\ call.todo # <<>>
  /\ call' = [call EXCEPT !.at = "request"]
  /\ UNCHANGED <<listenFilters, enabled, runningCorrelator, active, calls,
                 callbacks, exchange, listener, socket, reposd, faults, vars>>

rrepos_subscribe ==
  /\ call.at = "next" /\ call.op = "subscribe" /\ call.todo # <<>>
  /\ add_subscription_listener(Head(call.todo))
  /\ call' = [call EXCEPT !.at = "request"]
  /\ UNCHANGED <<listenFilters, enabled, runningCorrelator, active, calls,
                 exchange, socket, reposd, faults, vars>>

rrepos_unsubscribe ==
  /\ call.at = "next" /\ call.op = "unsubscribe" /\ call.todo # <<>>
  /\ call' = [call EXCEPT !.at = "request"]
  /\ UNCHANGED <<listenFilters, enabled, runningCorrelator, active, calls,
                 callbacks, exchange, listener, socket, reposd, faults, vars>>

\* A request is made, and its answer read, under rrepos_mutex.
mcc_request(client, cmd, sr) ==
  /\ exchange = Unlocked
  /\ exchange' = [at |-> "asked", by |-> client, cmd |-> cmd, sr |-> sr, ok |-> FALSE]

Answered(client) == exchange.at = "answered" /\ exchange.by = client /\ exchange' = Unlocked

SendRequest ==
  /\ call.at = "request"
  /\ mcc_request("provider", call.op, Head(call.todo))
  /\ call' = [call EXCEPT !.at = "response"]
  /\ UNCHANGED <<listenFilters, enabled, runningCorrelator, active, calls,
                 callbacks, listener, socket, reposd, faults, vars>>

subscribeFilter ==
  /\ call.at = "response" /\ call.op = "subscribe"
  /\ Answered("provider")
  /\ IF exchange.ok THEN Switch(Head(call.todo), TRUE) ELSE UNCHANGED listenFilters
  /\ call' = [call EXCEPT !.at = "next", !.todo = Tail(@)]
  /\ UNCHANGED <<enabled, runningCorrelator, active, calls, callbacks, listener, socket, reposd, faults, vars>>

UnsubscribeAnswered ==
  /\ call.at = "response" /\ call.op = "unsubscribe"
  /\ Answered("provider")
  /\ call' = IF exchange.ok THEN [call EXCEPT !.at = "remove"]
             ELSE [call EXCEPT !.at = "next", !.todo = Tail(@)]
  /\ UNCHANGED <<listenFilters, enabled, runningCorrelator, active, calls,
                 callbacks, listener, socket, reposd, faults, vars>>

\* A listener that is about to read the entry, or is in its callback, goes on
\* with the next entry (free leaves cb_next as it is) or ends its walk.
Forget(i) ==
  /\ callbacks' = RemoveAt(callbacks, i)
  /\ \/ listener' = [listener EXCEPT !.pos = IF i < @ \/ (i = @ /\ listener.at # "walk") THEN @ - 1 ELSE @]
     \/ listener.at = "walk" /\ listener.pos = i /\ listener' = Receiving

\* remove_subscription_listener: without the entry the filter stays enabled.
unsubscribeFilter ==
  /\ call.at = "remove"
  /\ LET sr == Head(call.todo)
         i  == SelectInSeq(callbacks, LAMBDA cb : cb = sr)
     IN IF Reached(i, sr.corrid) THEN Forget(i) /\ Switch(sr, FALSE)
        ELSE UNCHANGED <<callbacks, listener, listenFilters>>
  /\ call' = [call EXCEPT !.at = "next", !.todo = Tail(@)]
  /\ UNCHANGED <<enabled, runningCorrelator, active, calls, exchange, socket, reposd, faults, vars>>

-----------------------------------------------------------------------------
(* The listener thread.                                                    *)

recv ==
  /\ listener.at = "recv" /\ socket # <<>>
  /\ listener' = [at |-> "walk", msg |-> Head(socket), pos |-> 1]
  /\ socket' = Tail(socket)
  /\ UNCHANGED <<provider, callbacks, exchange, reposd, faults, vars>>

NextCallback == listener' = [listener EXCEPT !.at = "walk", !.pos = @ + 1]

\* One step of the walk: it ends, calls the entry's callback or passes it.
call_callbacks ==
  /\ listener.at = "walk"
  /\ LET i == listener.pos IN
       IF i \notin DOMAIN callbacks \/ ~GoesOn(listener.msg.corrid, callbacks[i]) THEN listener' = Receiving
       ELSE IF callbacks[i] = listener.msg THEN listener' = [listener EXCEPT !.at = "callback"]
       ELSE NextCallback
  /\ UNCHANGED <<provider, callbacks, exchange, socket, reposd, faults, vars>>

\* metricIndicationCB finds the filter of the correlator, or drops the value ...
FindFilter ==
  /\ listener.at = "callback"
  /\ IF \E i \in DOMAIN listenFilters : listenFilters[i].on /\ listenFilters[i].corrid = listener.msg.corrid
     THEN listener' = [listener EXCEPT !.at = "found"]
     ELSE NextCallback
  /\ UNCHANGED <<provider, callbacks, exchange, socket, reposd, faults, vars>>

\* ... and asks for reposd's status before it makes the name of the value.
checkRepositoryConnection ==
  /\ listener.at = "found"
  /\ mcc_request("listener", "status", listener.msg)
  /\ listener' = [listener EXCEPT !.at = "status"]
  /\ UNCHANGED <<provider, callbacks, socket, reposd, faults, vars>>

StatusAnswered ==
  /\ listener.at = "status"
  /\ Answered("listener")
  /\ IF exchange.ok THEN listener' = [listener EXCEPT !.at = "deliver"] ELSE NextCallback
  /\ UNCHANGED <<provider, callbacks, socket, reposd, faults, vars>>

DeliverIndication ==
  /\ listener.at = "deliver"
  /\ NextCallback
  /\ UNCHANGED <<provider, callbacks, exchange, socket, reposd, faults, vars>>

-----------------------------------------------------------------------------
(* reposd: the main thread serves one request at a time.                   *)

Answer(ok) == exchange' = [exchange EXCEPT !.at = "answered", !.ok = ok]

\* The first subscription to a metric is the one that gets its values.
Subscribe(sr) ==
  /\ forwarded' = forwarded \union {sr}
  /\ subscriptions' = IF \E s \in subscriptions : s.mid = sr.mid THEN subscriptions
                      ELSE subscriptions \union {sr}
  /\ Answer(TRUE)

\* The subscription to the metric goes, whoever made it.
Unsubscribe(sr) ==
  /\ forwarded' = forwarded \ {sr}
  /\ subscriptions' = IF sr \in forwarded THEN {s \in subscriptions : s.mid # sr.mid} ELSE subscriptions
  /\ Answer(sr \in forwarded /\ \E s \in subscriptions : s.mid = sr.mid)

\* Mutant: the list of subscriptions is locked (repos.c:554, "TODO: add locks").
ServeLocked ==
  /\ main = "idle" /\ exchange.at = "asked"
  /\ exchange.cmd \in {"subscribe", "unsubscribe"} => mrw_mutex = NoThread /\ mrw_rnum = 0
  /\ \/ exchange.cmd = "subscribe" /\ Subscribe(exchange.sr)
     \/ exchange.cmd = "unsubscribe" /\ Unsubscribe(exchange.sr)
     \/ exchange.cmd = "status" /\ Answer(TRUE) /\ UNCHANGED <<forwarded, subscriptions>>
  /\ UNCHANGED <<provider, callbacks, listener, socket, main, storing, faults, vars>>

Serve ==
  /\ main = "idle" /\ exchange.at = "asked"
  /\ \/ exchange.cmd = "subscribe" /\ Subscribe(exchange.sr)
     \/ exchange.cmd = "unsubscribe" /\ Unsubscribe(exchange.sr)
     \/ exchange.cmd = "status" /\ Answer(TRUE) /\ UNCHANGED <<forwarded, subscriptions>>
  /\ UNCHANGED <<provider, callbacks, listener, socket, main, storing, faults, vars>>

\* Another client retrieves values: the main thread reads under the lock.
GetValues ==
  /\ main = "idle" /\ main' = "get"
  /\ UNCHANGED <<provider, callbacks, exchange, listener, socket,
                 storing, forwarded, subscriptions, faults, vars>>

ReadValues ==
  /\ main = "get"
  /\ MReadLock(Main)
  /\ UNCHANGED <<provider, callbacks, exchange, listener, socket, reposd, faults>>

ValuesRead ==
  /\ MReadUnlock(Main)
  /\ main' = "idle"
  /\ UNCHANGED <<provider, callbacks, exchange, listener, socket,
                 storing, forwarded, subscriptions, faults>>

\* LocalMetricAdd: a remote thread takes the lock to store a value, ...
Store(t, m) ==
  /\ MWriteLock(t)
  /\ storing' = [storing EXCEPT ![t] = m]
  /\ UNCHANGED <<provider, callbacks, exchange, listener, socket,
                 main, forwarded, subscriptions, faults>>

WaitForReaders(t) ==
  /\ WriterWokenUp(t) \/ SpuriousWakeup(t)
  /\ UNCHANGED <<provider, callbacks, exchange, listener, socket, reposd, faults>>

\* ... and keeps it while it sends the value to the subscription's listener,
\* where it waits for room in the socket.
subs_forward(t) ==
  /\ At(t, "writing") /\ storing[t] # 0
  /\ \/ /\ \E s \in subscriptions :
             s.mid = storing[t] /\ Len(socket) < QueueLength /\ socket' = Append(socket, s)
     \/ /\ ~\E s \in subscriptions : s.mid = storing[t]
        /\ UNCHANGED socket
  /\ storing' = [storing EXCEPT ![t] = 0]
  /\ UNCHANGED <<provider, callbacks, exchange, listener, main, forwarded, subscriptions, faults, vars>>

Stored(t) ==
  /\ storing[t] = 0
  /\ MWriteUnlock(t)
  /\ UNCHANGED <<provider, callbacks, exchange, listener, socket, reposd, faults>>

-----------------------------------------------------------------------------
(* Faults.                                                                 *)

\* A request or its answer is lost; the client gives up.
LoseExchange ==
  /\ Fault
  /\ exchange.at # "none" /\ Answer(FALSE)
  /\ UNCHANGED <<provider, callbacks, listener, socket, reposd, vars>>

\* reposd starts anew without any subscription.
Restart ==
  /\ Fault
  /\ main' = "idle" /\ storing' = [t \in Remotes |-> 0]
  /\ forwarded' = {} /\ subscriptions' = {}
  /\ IF exchange.at = "asked" THEN Answer(FALSE) ELSE UNCHANGED exchange
  /\ mrw_mutex' = NoThread /\ mrw_rnum' = 0 /\ waiting' = {} /\ pc' = [t \in Threads |-> "out"]
  /\ UNCHANGED <<provider, callbacks, listener, socket>>

-----------------------------------------------------------------------------
Provider ==
  \/ ReturnToBroker \/ rrepos_subscribe \/ rrepos_unsubscribe
  \/ SendRequest \/ subscribeFilter \/ UnsubscribeAnswered \/ unsubscribeFilter

Listener ==
  \/ recv \/ call_callbacks \/ FindFilter
  \/ checkRepositoryConnection \/ StatusAnswered \/ DeliverIndication

MainThread == Serve \/ ReadValues \/ ValuesRead

RemoteThread(t) == WaitForReaders(t) \/ subs_forward(t) \/ Stored(t)

IndicationsNext ==
  \/ \E f \in Filters : ActivateFilter(f) \/ DeActivateFilter(f)
  \/ enableFilters \/ disableFilters
  \/ Provider \/ Listener \/ MainThread \/ GetValues
  \/ \E t \in Remotes : RemoteThread(t) \/ \E m \in Metrics : Store(t, m)
  \/ LoseExchange \/ Restart

\* Every thread goes on; values of every metric keep coming.
IndicationsSpec ==
  /\ IndicationsInit /\ [][IndicationsNext]_allvars
  /\ WF_allvars(Provider) /\ WF_allvars(Listener) /\ WF_allvars(MainThread)
  /\ \A t \in Remotes : WF_allvars(RemoteThread(t))
  /\ \A m \in Metrics : SF_allvars(\E t \in Remotes : Store(t, m))

-----------------------------------------------------------------------------
(* A value that reposd forwards finds its callback in the client: the      *)
(* entry is there before reposd is asked to subscribe, and stays until     *)
(* reposd has unsubscribed, although requests and answers get lost, reposd *)
(* restarts and filters are dropped from the provider's list.              *)
SubscribedHasCallback == \A sr \in subscriptions : \E i \in DOMAIN callbacks : callbacks[i] = sr

\* The first callback's filter is enabled and reposd subscribed to it.
Serves(f) ==
  \E i \in DOMAIN listenFilters :
    /\ listenFilters[i].filter = f /\ listenFilters[i].on
    /\ callbacks # <<>> /\ callbacks[1] = Request(listenFilters[i])
    /\ Request(listenFilters[i]) \in subscriptions

Delivers(f) ==
  /\ listener.at = "deliver"
  /\ \E i \in DOMAIN listenFilters :
       listenFilters[i].filter = f /\ listenFilters[i].corrid = listener.msg.corrid

NobodyElseRetrieves == [](main = "idle")

(* Indications of the oldest filter keep coming (the walks of the list of  *)
(* callbacks do not get to those of the others), if no other client        *)
(* retrieves values.                                                       *)
OldestIsServed == NobodyElseRetrieves => \A f \in Filters : <>[]Serves(f) => []<>Delivers(f)

(* Storing a value ends, although it is forwarded under the lock to a      *)
(* listener whose callback waits for an answer of the same daemon: the     *)
(* main thread answers without the lock, as long as no client retrieves    *)
(* values.                                                                 *)
StoringEnds == NobodyElseRetrieves => \A t \in Remotes : []<>At(t, "out")

(* "After no longer than a minute, appropriate entries should show up"     *)
(* (provider/indicationtest/README.indicationtest:74), with one filter     *)
(* that is enabled and whatever other clients do.                          *)
EntriesShowUp == \A f \in Filters : <>[]Serves(f) => []<>Delivers(f)
=============================================================================
