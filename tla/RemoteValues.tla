----------------------------- MODULE RemoteValues ------------------------------
(***************************************************************************)
(* The way of a value from gatherd to reposd: rcc_request on the client's  *)
(* side (comms/rcclt_ip.c, called by rrepos_put under its mutex), and on   *)
(* the other the accept loop repos_remote and its threads rrepos_getrequest*)
(* (reposd.c) with rcs_accept and rcs_getrequest (comms/rcserv_ip.c).      *)
(*                                                                         *)
(* A message is two writes, its length and its contents, and nothing comes *)
(* back.  The server closes a connection after a second of silence, with   *)
(* SO_LINGER 0: what is in its buffer is discarded and a reset goes to the *)
(* client, which may write before it arrives.  One mutex guards the count  *)
(* of connections and is also kept while a thread polls and reads.         *)
(***************************************************************************)
EXTENDS Integers, FiniteSets, SequencesExt

CONSTANTS Clients,      \* processes that send values
          NoClient,
          Wide,         \* those built with 64-bit longs
          Mortal,       \* bound: those that may end
          rmaxconn,     \* RepositoryMaxConnections
          MaxConns,     \* bound: connections that are ever made
          MaxValues,    \* bound: of each client, the values it sends
          MaxFailures   \* bound: connects, accepts and thread creations that fail, clients that end

ASSUME RemoteValuesAssumption ==
  /\ Wide \subseteq Clients /\ Mortal \subseteq Clients /\ NoClient \notin Clients
  /\ rmaxconn \in Nat /\ MaxConns \in Nat /\ MaxValues \in [Clients -> Nat] /\ MaxFailures \in Nat

Conns     == 1..MaxConns
NoConn    == 0
Header    == 0    \* a length on the wire; any other number is the contents
Garbled   == -1

VARIABLES
  \* the clients
  cpc,        \* where each client is in rcc_request; "gone" when it has ended
  srvhdl,     \* its connection
  retried,    \* this write is the one after _rcc_connect
  wrote,      \* of the two writes: those that succeeded
  value,      \* number of the value it sends or has sent
  refused,    \* history: values for which rcc_request returned an error
  \* the connections
  owner,      \* client that made the connection
  wire,       \* what was written and not yet read
  serverEnd,  \* "none", "backlog", "open" or "closed"
  reset,      \* connections in use whose reset has reached the client
  \* reposd
  mutex,      \* thread, by its connection, that has connect_mutex
  connects,
  apc, ahdl,  \* the accept loop, and the connection it has accepted
  tpc,        \* the thread of each connection
  is64,       \* connections whose thread has seen a 64-bit value
  inHand,     \* value the thread has read
  stored,     \* of each client: values given to reposvalue_put
  failures

clientvars == <<cpc, srvhdl, retried, wrote, value, refused>>
connvars   == <<owner, wire, serverEnd, reset>>
threadvars == <<tpc, is64, inHand, stored>>
acceptvars == <<apc, ahdl>>
vars == <<clientvars, connvars, mutex, connects, acceptvars, threadvars, failures>>

ClientInit ==
  /\ cpc = [c \in Clients |-> "idle"]
  /\ srvhdl = [c \in Clients |-> NoConn]
  /\ retried = [c \in Clients |-> FALSE]
  /\ wrote = [c \in Clients |-> {}]
  /\ value = [c \in Clients |-> 0]
  /\ refused = [c \in Clients |-> {}]

ConnInit ==
  /\ owner = [k \in Conns |-> NoClient]
  /\ wire = [k \in Conns |-> <<>>]
  /\ serverEnd = [k \in Conns |-> "none"]
  /\ reset = {}

PoolInit ==
  /\ mutex = NoConn /\ connects = 0
  /\ apc = "accept" /\ ahdl = NoConn
  /\ tpc = [k \in Conns |-> "none"]
  /\ is64 = {}
  /\ inHand = [k \in Conns |-> NoConn]
  /\ stored = [c \in Clients |-> <<>>]

Init == ClientInit /\ ConnInit /\ PoolInit /\ failures = 0

-----------------------------------------------------------------------------
(* The client.                                                             *)

GotoC(c, label) == cpc' = [cpc EXCEPT ![c] = label]

\* rcc_request returns, and with it rrepos_put.
Return(c, failed) ==
  /\ GotoC(c, "idle")
  /\ refused' = [refused EXCEPT ![c] = IF failed THEN @ \union {value[c]} ELSE @]
  /\ retried' = [retried EXCEPT ![c] = FALSE]
  /\ wrote' = [wrote EXCEPT ![c] = {}]

\* rrepos_put calls rcc_request; the first call finds no connection.
rrepos_put(c) ==
  /\ cpc[c] = "idle" /\ value[c] < MaxValues[c]
  /\ value' = [value EXCEPT ![c] = @ + 1]
  /\ GotoC(c, IF srvhdl[c] = NoConn THEN "connect" ELSE "length")
  /\ UNCHANGED <<srvhdl, retried, wrote, refused, connvars, mutex, connects, acceptvars, threadvars, failures>>

Unused == {k \in Conns : serverEnd[k] = "none"}

\* The connection is complete once it is in the server's backlog.
Connect(c) ==
  /\ cpc[c] = "connect" /\ Unused # {}
  /\ LET k == CHOOSE k \in Unused : \A l \in Unused : k <= l
     IN  /\ srvhdl' = [srvhdl EXCEPT ![c] = k]
         /\ owner' = [owner EXCEPT ![k] = c]
         /\ reset' = reset \ {srvhdl[c]}
         /\ serverEnd' = [serverEnd EXCEPT ![k] = "backlog"]
  /\ GotoC(c, "length")
  /\ UNCHANGED <<retried, wrote, value, refused, wire, mutex, connects, acceptvars, threadvars, failures>>

ConnectFails(c) ==
  /\ cpc[c] = "connect" /\ failures < MaxFailures
  /\ srvhdl' = [srvhdl EXCEPT ![c] = NoConn]
  /\ reset' = reset \ {srvhdl[c]}
  /\ Return(c, TRUE)
  /\ failures' = failures + 1
  /\ UNCHANGED <<value, owner, wire, serverEnd, mutex, connects, acceptvars, threadvars>>

\* A write fails once the reset has arrived; until then it succeeds, and what
\* is written to an end that is closed goes nowhere.
Accepts(k, part) == IF k \in reset THEN {} ELSE {part}
Written(k, contents) ==
  [wire EXCEPT ![k] = IF k \in reset \/ serverEnd[k] = "closed" THEN @ ELSE Append(@, contents)]

WriteLength(c) ==
  /\ cpc[c] = "length"
  /\ wrote' = [wrote EXCEPT ![c] = Accepts(srvhdl[c], "length")]
  /\ wire' = Written(srvhdl[c], Header)
  /\ GotoC(c, "contents")
  /\ UNCHANGED <<srvhdl, retried, value, refused, owner, serverEnd, reset, mutex, connects, acceptvars, threadvars, failures>>

\* The results of both writes are added up, and the sum compared.
NothingSent(written) == written = {}

Complete(written) == written = {"length", "contents"}

\* Reconnect once and write again if nothing was sent; otherwise compare with
\* the full length.  A partial write is an error that keeps the connection.
WriteContents(c) ==
  /\ cpc[c] = "contents"
  /\ LET k       == srvhdl[c]
         written == wrote[c] \union Accepts(k, "contents")
     IN  /\ wire' = Written(k, value[c])
         /\ IF NothingSent(written) /\ ~retried[c]
            THEN /\ GotoC(c, "connect")
                 /\ retried' = [retried EXCEPT ![c] = TRUE]
                 /\ wrote' = [wrote EXCEPT ![c] = {}]
                 /\ UNCHANGED refused
            ELSE Return(c, ~Complete(written))
  /\ UNCHANGED <<srvhdl, value, owner, serverEnd, reset, mutex, connects, acceptvars, threadvars, failures>>

\* The client's process ends, in whatever it is doing.
Exit(c) ==
  /\ cpc[c] # "gone" /\ c \in Mortal /\ failures < MaxFailures
  /\ reset' = reset \ {srvhdl[c]}
  /\ GotoC(c, "gone")
  /\ srvhdl' = [srvhdl EXCEPT ![c] = NoConn]
  /\ retried' = [retried EXCEPT ![c] = FALSE]
  /\ wrote' = [wrote EXCEPT ![c] = {}]
  /\ failures' = failures + 1
  /\ UNCHANGED <<value, refused, owner, wire, serverEnd, mutex, connects, acceptvars, threadvars>>

ResetArrives(k) ==
  /\ serverEnd[k] = "closed" /\ k \notin reset
  /\ srvhdl[owner[k]] = k
  /\ reset' = reset \union {k}
  /\ UNCHANGED <<clientvars, owner, wire, serverEnd, mutex, connects, acceptvars, threadvars, failures>>

-----------------------------------------------------------------------------
(* The accept loop.                                                        *)

GotoA(label) == apc' = label

rcs_accept(k) ==
  /\ apc = "accept" /\ serverEnd[k] = "backlog"
  /\ \A l \in Conns : serverEnd[l] = "backlog" => k <= l
  /\ serverEnd' = [serverEnd EXCEPT ![k] = "open"]
  /\ ahdl' = k
  /\ GotoA("count")
  /\ UNCHANGED <<clientvars, owner, wire, reset, mutex, connects, threadvars, failures>>

\* The loop ends, and nobody accepts connections any more.
AcceptFails ==
  /\ apc = "accept" /\ failures < MaxFailures
  /\ GotoA("ended")
  /\ failures' = failures + 1
  /\ UNCHANGED <<clientvars, connvars, mutex, connects, ahdl, threadvars>>

\* Mutant: the connection is not counted.
CreateUncounted ==
  /\ apc = "count" /\ mutex = NoConn
  /\ tpc' = [tpc EXCEPT ![ahdl] = "lock"]
  /\ GotoA("limit")
  /\ UNCHANGED <<clientvars, connvars, mutex, connects, ahdl, is64, inHand, stored, failures>>

\* The connection is counted and its thread created; until it runs nobody else
\* can tell the one from the other.
CreateThread ==
  /\ apc = "count" /\ mutex = NoConn
  /\ connects' = connects + 1
  /\ tpc' = [tpc EXCEPT ![ahdl] = "lock"]
  /\ GotoA("limit")
  /\ UNCHANGED <<clientvars, connvars, mutex, ahdl, is64, inHand, stored, failures>>

\* The connection stays counted, and the loop ends.
CreateFails ==
  /\ apc = "count" /\ mutex = NoConn /\ failures < MaxFailures
  /\ connects' = connects + 1
  /\ GotoA("ended")
  /\ failures' = failures + 1
  /\ UNCHANGED <<clientvars, connvars, mutex, ahdl, threadvars>>

\* The limit is tested with equality, and one wait is all: whatever ends it,
\* the loop goes on to accept.
AtLimit == connects = rmaxconn

CheckLimit ==
  /\ apc = "limit" /\ mutex = NoConn
  /\ GotoA(IF AtLimit THEN "waiting" ELSE "accept")
  /\ ahdl' = NoConn
  /\ UNCHANGED <<clientvars, connvars, mutex, connects, threadvars, failures>>

SpuriousWakeup ==
  /\ apc = "waiting"
  /\ GotoA("woken")
  /\ UNCHANGED <<clientvars, connvars, mutex, connects, ahdl, threadvars, failures>>

WokenUp ==
  /\ apc = "woken" /\ mutex = NoConn
  /\ GotoA("accept")
  /\ UNCHANGED <<clientvars, connvars, mutex, connects, ahdl, threadvars, failures>>

-----------------------------------------------------------------------------
(* The threads of reposd, one per connection.                              *)

GotoT(k, label) == tpc' = [tpc EXCEPT ![k] = label]

Lock(k) ==
  /\ tpc[k] = "lock" /\ mutex = NoConn
  /\ mutex' = k
  /\ GotoT(k, "poll")
  /\ UNCHANGED <<clientvars, connvars, connects, acceptvars, is64, inHand, stored, failures>>

ClientIsGone(k) == cpc[owner[k]] = "gone"

\* poll times out after a second, or it reports the end of a connection that
\* has nothing to read; likewise a read finds the end.
GiveUp(k) ==
  /\ \/ tpc[k] = "poll" /\ wire[k] = <<>>
     \/ tpc[k] = "body" /\ wire[k] = <<>> /\ ClientIsGone(k)
  /\ GotoT(k, "close")
  /\ UNCHANGED <<clientvars, connvars, mutex, connects, acceptvars, is64, inHand, stored, failures>>

ReadLength(k) ==
  /\ tpc[k] = "poll" /\ wire[k] # <<>>
  /\ wire' = [wire EXCEPT ![k] = Tail(@)]
  /\ GotoT(k, "body")
  /\ UNCHANGED <<clientvars, owner, serverEnd, reset, mutex, connects, acceptvars, is64, inHand, stored, failures>>

\* The contents are read, for as long as that takes, and the mutex released.
ReadContents(k) ==
  /\ tpc[k] = "body" /\ wire[k] # <<>>
  /\ inHand' = [inHand EXCEPT ![k] = Head(wire[k])]
  /\ wire' = [wire EXCEPT ![k] = Tail(@)]
  /\ mutex' = NoConn
  /\ GotoT(k, "put")
  /\ UNCHANGED <<clientvars, owner, serverEnd, reset, connects, acceptvars, is64, stored, failures>>

\* Mutant: the flag is shared by all threads.
SeenByAnyone(k) == IF is64 # {} \/ owner[k] \in Wide THEN Conns ELSE {}

\* A value from a client with other longs has another layout, which the mark in
\* the padding of a 64-bit value tells; is64 is never taken back.
Seen64(k)  == is64 \union (IF owner[k] \in Wide THEN {k} ELSE {})
Unpacked(k) == IF k \in Seen64(k) <=> owner[k] \in Wide THEN inHand[k] ELSE Garbled

reposvalue_put(k) ==
  /\ tpc[k] = "put"
  /\ is64' = Seen64(k)
  /\ stored' = [stored EXCEPT ![owner[k]] = Append(@, Unpacked(k))]
  /\ inHand' = [inHand EXCEPT ![k] = NoConn]
  /\ GotoT(k, "lock")
  /\ UNCHANGED <<clientvars, connvars, mutex, connects, acceptvars, failures>>

\* Mutant: the accept loop is not told.
Unsignalled == apc

Signalled == IF apc = "waiting" THEN "woken" ELSE apc

\* Mutant: the mutex is not released on this way out.
EndLocked(k) ==
  /\ tpc[k] = "close"
  /\ serverEnd' = [serverEnd EXCEPT ![k] = "closed"]
  /\ wire' = [wire EXCEPT ![k] = <<>>]
  /\ connects' = connects - 1
  /\ GotoA(Signalled)
  /\ GotoT(k, "ended")
  /\ is64' = is64 \ {k}
  /\ UNCHANGED <<clientvars, owner, reset, mutex, ahdl, inHand, stored, failures>>

\* Close, which discards what has arrived since, and end.
EndThread(k) ==
  /\ tpc[k] = "close"
  /\ serverEnd' = [serverEnd EXCEPT ![k] = "closed"]
  /\ wire' = [wire EXCEPT ![k] = <<>>]
  /\ connects' = connects - 1
  /\ GotoA(Signalled)
  /\ mutex' = NoConn
  /\ GotoT(k, "ended")
  /\ is64' = is64 \ {k}
  /\ UNCHANGED <<clientvars, owner, reset, ahdl, inHand, stored, failures>>

-----------------------------------------------------------------------------
ClientStep(c) == Connect(c) \/ ConnectFails(c) \/ WriteLength(c) \/ WriteContents(c)
AcceptLoop ==
  \/ \E k \in Conns : rcs_accept(k)
  \/ CreateThread \/ CheckLimit \/ WokenUp
Thread(k) == Lock(k) \/ GiveUp(k) \/ ReadLength(k) \/ ReadContents(k) \/ reposvalue_put(k) \/ EndThread(k)

Next ==
  \/ \E c \in Clients : rrepos_put(c) \/ ClientStep(c) \/ Exit(c)
  \/ \E k \in Conns : ResetArrives(k) \/ Thread(k)
  \/ AcceptLoop \/ AcceptFails \/ CreateFails \/ SpuriousWakeup

\* A client that has begun a message ends it or ends itself, and threads run.
\* That is enough for a bounded number of values; with more, the mutex must be
\* fair as well.
Fairness ==
  /\ \A c \in Clients : WF_vars(ClientStep(c))
  /\ \A k \in Conns : WF_vars(Thread(k))
  /\ WF_vars(AcceptLoop)

Spec == Init /\ [][Next]_vars /\ Fairness

-----------------------------------------------------------------------------
Alive(k)  == tpc[k] \in {"lock", "poll", "body", "put", "close"}
Threads   == {k \in Conns : Alive(k)}
Holding(k) == tpc[k] \in {"poll", "body", "close"}

(* connects is the number of threads, and of the connection that could not *)
(* get one; exactly the thread in rcs_getrequest has the mutex, whatever   *)
(* the order in which threads come and go.                                 *)
ConnectsCounted ==
  /\ connects = Cardinality(Threads \union {k \in {ahdl} : apc = "ended" /\ k # NoConn})
  /\ \A k \in Conns : Holding(k) <=> mutex = k

\* Lengths and contents alternate on the wire: the contents among them.
Odd(s)  == [i \in 1..(Len(s) + 1) \div 2 |-> s[2 * i - 1]]
Even(s) == [i \in 1..Len(s) \div 2 |-> s[2 * i]]

\* The value in the thread's hands, and those that it has not read.
Read(k)   == IF inHand[k] = NoConn THEN <<>> ELSE <<inHand[k]>>
Unread(k) == IF tpc[k] = "body" THEN Odd(wire[k]) ELSE Even(wire[k])
Live(k)   == serverEnd[k] \in {"backlog", "open"}
OnItsWay(c) ==
  LET live == {k \in Conns : owner[k] = c /\ Live(k)}
  IN  IF live = {} THEN <<>>
      ELSE LET k == CHOOSE k \in live : TRUE IN Read(k) \o Unread(k)

(* A value on its way is stored or lost in the end: no thread keeps the    *)
(* mutex for ever, and no connection waits for ever for its thread, unless *)
(* the accept loop has ended.                                              *)
EveryValueSettles ==
  \A c \in Clients : OnItsWay(c) # <<>> ~> (OnItsWay(c) = <<>> \/ apc = "ended")

(* An accept loop that waits for the end of a thread is woken up by it.    *)
WaitEnds == apc = "waiting" ~> apc # "waiting"

(* What is left of a value's way when connections are closed, reset and    *)
(* made again, when writes are repeated and processes end, is a channel    *)
(* that may lose values, and does no worse.                                *)
Channel == INSTANCE LossyChannel WITH
  Senders <- Clients, sent <- value,
  channel <- [c \in Clients |-> OnItsWay(c)], delivered <- stored
IsLossyChannel == Channel!Spec
=============================================================================
