---------------------------- MODULE LocalCommands ------------------------------
(***************************************************************************)
(* Commands to the daemons.  Every function of rgather.c (to gatherd) and  *)
(* rrepos.c (to reposd) sends one request over the process's connection    *)
(* and waits for the answer, both under the library's mutex                *)
(* (comms/mcclt_unix.c); the daemon's main loop (gatherd.c, reposd.c)      *)
(* serves one connection at a time (comms/mcserv_unix.c), and closes it    *)
(* when it has been silent for a second.  A daemon may crash, be told to   *)
(* quit, and be loaded again by any process.                               *)
(*                                                                         *)
(* A command is what its function makes of it: the length of the request,  *)
(* whether the answer may come in two parts, and what is done afterwards.  *)
(* What the daemon does with it is a matter of the other modules.          *)
(***************************************************************************)
EXTENDS Integers, Sequences, FiniteSets, Functions

CONSTANTS Threads, NoThread,
          process,      \* the process of each thread
          Foreign,      \* threads of programs built with another layout
          Uses(_),      \* bound: the commands each thread uses
          MaxCalls,     \* bound: of each thread, its calls
          MaxTotal,     \* bound: calls of all threads
          MaxConns,     \* bound: connections at one time
          MaxCrashes    \* bound: times a daemon crashes

Processes == {process[t] : t \in Threads}

ASSUME LocalCommandsAssumption ==
  /\ NoThread \notin Threads /\ Foreign \subseteq Threads
  /\ process \in [Threads -> Processes] /\ MaxCalls \in [Threads -> Nat] /\ MaxTotal \in Nat
  /\ MaxConns \in Nat /\ MaxCrashes \in Nat

Conns  == 1..MaxConns
NoConn == 0
Broken == -1         \* a socket whose connect failed
Failed == 0

Header == 1          \* lengths of requests
Longer == 2
Whole  == 3          \* the length of the daemon's buffer

VARIABLES
  library,    \* whose commands these are: "gather" or "repos"
  \* the client library of each process
  mutex,
  handle,     \* rgatherhandle or rreposhandle: "none", "named" or, after mcc_term, "freed"
  sn_handle,  \* its connection
  \* the threads
  pc, command, result, called,
  \* the connections
  owner,      \* processes that have the client's end open
  serverEnd,  \* "none", "backlog", "open" or "closed"
  requests, answers,
  \* the daemon
  dpc,        \* "down", "accept", "poll", "answer" or "term"
  serving,    \* the connection it serves
  room,       \* bufferlen, the longest request it takes
  pending,    \* the parts of the answer it has still to send
  executed,   \* history: of each thread, what was executed since its last call
  crashes

libvars    == <<mutex, handle, sn_handle>>
threadvars == <<pc, command, result, called>>
connvars   == <<owner, serverEnd, requests, answers>>
daemonvars == <<dpc, serving, room, pending, executed>>
vars == <<library, libvars, threadvars, connvars, daemonvars, crashes>>

-----------------------------------------------------------------------------
(* The commands.                                                           *)

Command(length, parts, after, onFailure) ==
  [length |-> length, parts |-> parts, after |-> after, onFailure |-> onFailure]
Short == Command(Header, {1}, "nothing", "unlock")
Named == Command(Longer, {1}, "nothing", "unlock")
List  == Command(Longer, {1, 2}, "nothing", "unlock")
NoCommand == Command(0, {}, "nothing", "unlock")

rgather_init         == Short
rgather_start        == Short
rgather_stop         == Short
rgather_status       == Short
rgather_terminate    == [Short EXCEPT !.after = "mcc_term"]
rgather_unload       == [Short EXCEPT !.after = "quit"]
rmetricplugin_add    == Named
rmetricplugin_remove == Named
rmetricplugin_list   == List

rrepos_init            == Short
rrepos_status          == Short
rrepos_terminate       == [Short EXCEPT !.after = "mcc_term"]
rrepos_unload          == [Short EXCEPT !.after = "quit"]
rrepos_setglobalfilter == Named
rrepos_getglobalfilter == Named
rreposplugin_add       == Named
rreposplugin_remove    == Named
rreposplugin_list      == List
rrepos_subscribe       == Named
rrepos_unsubscribe     == Named
rrepos_get             == List
rrepos_getfiltered     == List

\* After a failure the mutex is locked, not unlocked.
rreposresource_list    == [List EXCEPT !.onFailure = "lock"]

Commands ==
  [gather |-> {rgather_init, rgather_start, rgather_stop, rgather_status, rgather_terminate,
               rgather_unload, rmetricplugin_add, rmetricplugin_remove, rmetricplugin_list},
   repos  |-> {rrepos_init, rrepos_status, rrepos_terminate, rrepos_unload,
               rrepos_setglobalfilter, rrepos_getglobalfilter, rreposplugin_add,
               rreposplugin_remove, rreposplugin_list, rrepos_subscribe, rrepos_unsubscribe,
               rrepos_get, rrepos_getfiltered, rreposresource_list}]

ClientInit ==
  /\ library \in {"gather", "repos"}
  /\ mutex = [p \in Processes |-> NoThread]
  /\ handle = [p \in Processes |-> "none"]
  /\ sn_handle = [p \in Processes |-> NoConn]
  /\ pc = [t \in Threads |-> "idle"]
  /\ command = [t \in Threads |-> NoCommand]
  /\ result = [t \in Threads |-> Failed]
  /\ called = [t \in Threads |-> 0]

DaemonInit ==
  /\ dpc = "accept" /\ serving = NoConn /\ room = Whole /\ pending = <<>>
  /\ executed = [t \in Threads |-> <<>>]

Init ==
  /\ ClientInit /\ DaemonInit /\ crashes = 0
  /\ owner = [k \in Conns |-> FALSE]
  /\ serverEnd = [k \in Conns |-> "none"]
  /\ requests = [k \in Conns |-> <<>>]
  /\ answers = [k \in Conns |-> <<>>]

-----------------------------------------------------------------------------
(* The client.                                                             *)

Goto(t, label) == pc' = [pc EXCEPT ![t] = label]
conn(t) == sn_handle[process[t]]
Connected(k) == k \in Conns

MoreCalls(t) == called[t] < MaxCalls[t] /\ FoldFunction(+, 0, called) < MaxTotal

\* A function is called and makes INITCHECK, which has the mutex for a moment.
\* Which function it is matters, and is chosen, when it sends its request.
Call(t) ==
  /\ pc[t] = "idle" /\ MoreCalls(t) /\ mutex[process[t]] = NoThread
  /\ called' = [called EXCEPT ![t] = @ + 1]
  /\ handle' = [handle EXCEPT ![process[t]] = IF @ = "none" THEN "named" ELSE @]
  /\ Goto(t, "lock")
  /\ executed' = [executed EXCEPT ![t] = <<>>]
  /\ result' = [result EXCEPT ![t] = Failed]
  /\ UNCHANGED <<library, mutex, sn_handle, command, connvars, dpc, serving, room, pending, crashes>>

\* An error of mcc_request or mcc_response: release the mutex and return -1.
Fail(t, c) ==
  LET unlocks == c.onFailure = "unlock"
  IN  /\ Goto(t, IF unlocks THEN "idle" ELSE "relock")
      /\ mutex' = [mutex EXCEPT ![process[t]] = IF unlocks THEN NoThread ELSE t]
      /\ command' = [command EXCEPT ![t] = IF unlocks THEN NoCommand ELSE c]

\* With the mutex, mcc_request finds no name under the handle, a connection, or none.
Lock(t) ==
  /\ pc[t] = "lock" /\ mutex[process[t]] = NoThread
  /\ \E c \in Commands[library] \cap Uses(t) :
       IF handle[process[t]] = "named"
       THEN /\ command' = [command EXCEPT ![t] = c]
            /\ mutex' = [mutex EXCEPT ![process[t]] = t]
            /\ Goto(t, IF conn(t) = NoConn THEN "connect" ELSE "write")
       ELSE Fail(t, c)
  /\ UNCHANGED <<library, handle, sn_handle, result, called, connvars, daemonvars, crashes>>

\* The connections with the client's end of one closed: nobody reads answers.
Unowned(k) == [l \in Conns |-> IF l = k THEN FALSE ELSE owner[l]]
Unread(k)  == [l \in Conns |-> IF l = k THEN <<>> ELSE answers[l]]
HalfClosed(k) == [l \in Conns |-> IF l = k /\ serverEnd[l] = "closed" THEN "none" ELSE serverEnd[l]]
Free(k) == ~owner[k] /\ serverEnd[k] = "none"

BacklogIsFull == \E k \in Conns : serverEnd[k] = "backlog"

\* _mcc_connect closes what it has and connects; the backlog holds one.
Connect(t) ==
  /\ pc[t] \in {"connect", "reconnect"} /\ dpc # "down" /\ ~BacklogIsFull
  /\ \E k \in Conns :
       /\ Free(k) /\ \A l \in Conns : Free(l) => k <= l
       /\ sn_handle' = [sn_handle EXCEPT ![process[t]] = k]
       /\ owner' = [Unowned(conn(t)) EXCEPT ![k] = TRUE]
       /\ serverEnd' = [HalfClosed(conn(t)) EXCEPT ![k] = "backlog"]
  /\ answers' = Unread(conn(t))
  /\ Goto(t, IF pc[t] = "connect" THEN "write" ELSE "rewrite")
  /\ UNCHANGED <<library, mutex, handle, command, result, called, requests, daemonvars, crashes>>

ConnectFails(t) ==
  /\ pc[t] \in {"connect", "reconnect"} /\ dpc = "down"
  /\ sn_handle' = [sn_handle EXCEPT ![process[t]] = Broken]
  /\ owner' = Unowned(conn(t))
  /\ answers' = Unread(conn(t))
  /\ serverEnd' = HalfClosed(conn(t))
  /\ Fail(t, command[t])
  /\ UNCHANGED <<library, handle, result, called, requests, daemonvars, crashes>>

\* A request on its way: who wants it, and what the daemon can tell of it.
Message(t) ==
  [thread |-> t, number |-> called[t], length |-> command[t].length,
   parts |-> command[t].parts, quits |-> command[t].after = "quit"]

\* Written whole, or not at all: then connect once more and write again.
Write(t) ==
  /\ pc[t] \in {"write", "rewrite"}
  /\ LET k == conn(t)
     IN  IF Connected(k) /\ serverEnd[k] # "closed"
         THEN /\ requests' = [requests EXCEPT ![k] = Append(@, Message(t))]
              /\ Goto(t, "response")
              /\ UNCHANGED <<mutex, command>>
         ELSE /\ IF pc[t] = "write"
                 THEN Goto(t, "reconnect") /\ UNCHANGED <<mutex, command>>
                 ELSE Fail(t, command[t])
              /\ UNCHANGED requests
  /\ UNCHANGED <<library, handle, sn_handle, result, called, owner, serverEnd, answers, daemonvars, crashes>>

Returned(t, number) ==
  /\ result' = [result EXCEPT ![t] = number]
  /\ command' = [command EXCEPT ![t] = NoCommand]

\* The last part of the answer: terminate forgets the connection, in rgather.c
\* with the handle, in rrepos.c the handle only after the mutex is released.
Answered(t, part) ==
  LET p == process[t]
      terminates == command[t].after = "mcc_term"
  IN  /\ mutex' = [mutex EXCEPT ![p] = NoThread]
      /\ IF terminates
         THEN /\ sn_handle' = [sn_handle EXCEPT ![p] = NoConn]
              /\ owner' = Unowned(conn(t))
              /\ serverEnd' = HalfClosed(conn(t))
              /\ handle' = [handle EXCEPT ![p] = IF library = "gather" THEN "none" ELSE "freed"]
         ELSE UNCHANGED <<sn_handle, owner, serverEnd, handle>>
      /\ Returned(t, part.number)
      /\ Goto(t, IF terminates /\ library = "repos" THEN "forget" ELSE "idle")

\* Mutant: the request is written again when no answer comes.
ResponseOrRewrite(t) ==
  /\ pc[t] = "response"
  /\ answers[conn(t)] = <<>> /\ serverEnd[conn(t)] = "closed"
  /\ Goto(t, "reconnect")
  /\ UNCHANGED <<library, libvars, command, result, called, connvars, daemonvars, crashes>>

\* The server's end is closed and there is nothing to read.
ResponseFails(t) ==
  /\ pc[t] = "response"
  /\ answers[conn(t)] = <<>> /\ serverEnd[conn(t)] = "closed"
  /\ Fail(t, command[t])
  /\ UNCHANGED <<library, handle, sn_handle, result, called, connvars, daemonvars, crashes>>

Response(t) ==
  /\ pc[t] = "response" /\ answers[conn(t)] # <<>>
  /\ LET part == Head(answers[conn(t)])
     IN  /\ answers' = [answers EXCEPT ![conn(t)] = Tail(@)]
         /\ IF part.more
            THEN UNCHANGED <<libvars, threadvars, owner, serverEnd>>
            ELSE Answered(t, part) /\ UNCHANGED called
  /\ UNCHANGED <<library, requests, daemonvars, crashes>>

Forget(t) ==
  /\ pc[t] = "forget"
  /\ handle' = [handle EXCEPT ![process[t]] = "none"]
  /\ Goto(t, "idle")
  /\ UNCHANGED <<library, mutex, sn_handle, command, result, called, connvars, daemonvars, crashes>>

\* rgather_load and rrepos_load look for the daemon among the processes.
Load(t) ==
  /\ pc[t] = "idle" /\ MoreCalls(t) /\ dpc = "down"
  /\ dpc' = "accept" /\ room' = Whole
  /\ UNCHANGED <<library, libvars, threadvars, connvars, serving, pending, executed, crashes>>

-----------------------------------------------------------------------------
(* The daemon.                                                             *)

mcs_accept(k) ==
  /\ dpc = "accept" /\ serverEnd[k] = "backlog"
  /\ serverEnd' = [serverEnd EXCEPT ![k] = "open"]
  /\ serving' = k
  /\ dpc' = "poll"
  /\ UNCHANGED <<library, libvars, threadvars, owner, requests, answers, room, pending, executed, crashes>>

ServerClosed(k) == IF owner[k] THEN "closed" ELSE "none"
Close(k) ==
  /\ serverEnd' = [serverEnd EXCEPT ![k] = ServerClosed(k)]
  /\ requests' = [requests EXCEPT ![k] = <<>>]
  /\ serving' = NoConn
  /\ dpc' = "accept"

\* Mutant: the connection of a dropped request is never given up.
HangUpUnlessDropped ==
  /\ dpc = "poll"
  /\ requests[serving] = <<>> \/ ~owner[serving]
  /\ room = Whole
  /\ Close(serving)
  /\ UNCHANGED <<library, libvars, threadvars, owner, answers, room, pending, executed, crashes>>

\* mcs_getrequest gives up: a second of silence, or the client's end is closed.
HangUp ==
  /\ dpc = "poll"
  /\ requests[serving] = <<>> \/ ~owner[serving]
  /\ Close(serving)
  /\ UNCHANGED <<library, libvars, threadvars, owner, answers, room, pending, executed, crashes>>

Received(m) == dpc = "poll" /\ owner[serving] /\ requests[serving] # <<>> /\ m = Head(requests[serving])

\* The request does not fit the length of the last one, which is left in
\* bufferlen when that was dropped.
Refuse ==
  /\ \E m \in {Head(requests[k]) : k \in {l \in Conns : requests[l] # <<>>}} :
       Received(m) /\ m.length > room /\ room' = m.length
  /\ Close(serving)
  /\ UNCHANGED <<library, libvars, threadvars, owner, answers, pending, executed, crashes>>

\* A request whose length is not what its header says is left unanswered.
Drop ==
  /\ \E m \in {Head(requests[k]) : k \in {l \in Conns : requests[l] # <<>>}} :
       Received(m) /\ m.length <= room /\ m.thread \in Foreign /\ room' = m.length
  /\ requests' = [requests EXCEPT ![serving] = Tail(@)]
  /\ UNCHANGED <<library, libvars, threadvars, owner, serverEnd, answers, dpc, serving, pending, executed, crashes>>

\* An answer longer than GATHERVALBUFLEN is announced by a part of its own.
Parts(m, n) ==
  LET last == [number |-> m.number, more |-> FALSE, quits |-> m.quits]
  IN  IF n = 1 THEN <<last>> ELSE << [last EXCEPT !.more = TRUE], last >>

\* The switch over the commands: execute it and build the answer.
Execute ==
  /\ \E m \in {Head(requests[k]) : k \in {l \in Conns : requests[l] # <<>>}} :
       /\ Received(m) /\ m.length <= room /\ m.thread \notin Foreign
       /\ executed' = [executed EXCEPT ![m.thread] = Append(@, m.number)]
       /\ \E n \in m.parts : pending' = Parts(m, n)
  /\ requests' = [requests EXCEPT ![serving] = Tail(@)]
  /\ dpc' = "answer"
  /\ UNCHANGED <<library, libvars, threadvars, owner, serverEnd, answers, serving, room, crashes>>

\* mcs_sendresponse, for each part; then the loop goes on or ends.
Answer ==
  /\ dpc = "answer"
  /\ answers' = [answers EXCEPT ![serving] = IF owner[serving] THEN Append(@, Head(pending)) ELSE @]
  /\ pending' = Tail(pending)
  /\ IF Tail(pending) = <<>>
     THEN room' = Whole /\ dpc' = (IF Head(pending).quits THEN "term" ELSE "poll")
     ELSE UNCHANGED <<room, dpc>>
  /\ UNCHANGED <<library, libvars, threadvars, owner, serverEnd, requests, serving, executed, crashes>>

\* The process ends, and the system closes its connections.
Down ==
  /\ dpc' = "down"
  /\ serving' = NoConn /\ pending' = <<>>
  /\ serverEnd' = [k \in Conns |-> ServerClosed(k)]
  /\ requests' = [k \in Conns |-> <<>>]

mcs_term ==
  /\ dpc = "term"
  /\ Down
  /\ UNCHANGED <<library, libvars, threadvars, owner, answers, room, executed, crashes>>

Crash ==
  /\ dpc # "down" /\ crashes < MaxCrashes
  /\ Down
  /\ crashes' = crashes + 1
  /\ UNCHANGED <<library, libvars, threadvars, owner, answers, room, executed>>

-----------------------------------------------------------------------------
ThreadStep(t) ==
  \/ Lock(t) \/ Connect(t) \/ ConnectFails(t) \/ Write(t)
  \/ Response(t) \/ ResponseFails(t) \/ Forget(t)
Daemon ==
  (\E k \in Conns : mcs_accept(k)) \/ HangUp \/ Refuse \/ Drop \/ Execute \/ Answer \/ mcs_term

Next ==
  \/ \E t \in Threads : Call(t) \/ Load(t) \/ ThreadStep(t)
  \/ Daemon \/ Crash

\* A thread in a call goes on, a daemon that runs serves.  That is enough for a
\* bounded number of calls; with more, mutex and backlog must be fair as well.
Fairness == WF_vars(Daemon) /\ \A t \in Threads : WF_vars(ThreadStep(t))

Spec == Init /\ [][Next]_vars /\ Fairness

-----------------------------------------------------------------------------
(* Every command is executed at most once and answered by its own outcome, *)
(* although requests are written again, connections closed in silence, and *)
(* daemons end between request and answer: only a write of which nothing   *)
(* was sent is repeated, and the mutex is kept from request to answer.     *)
InCall == {t \in Threads : pc[t] \notin {"idle", "forget"}}
Once == INSTANCE AtMostOnce WITH Callers <- Threads, calling <- InCall
IsAtMostOnce == Once!Spec

(* Every call returns, with an error if need be, also when its request is  *)
(* dropped without an answer or refused, when the daemon serves others, or *)
(* crashes: the silence on the connection ends it.  Excepted are calls in  *)
(* a process one of whose threads waits for the mutex it has itself.       *)
SelfLocked(p) == \E t \in Threads : process[t] = p /\ pc[t] = "relock"
EveryCallReturns == \A t \in Threads : t \in InCall ~> (t \notin InCall \/ SelfLocked(process[t]))

=============================================================================
