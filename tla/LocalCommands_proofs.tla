------------------------- MODULE LocalCommands_proofs -------------------------
(***************************************************************************)
(* Proofs about commands to the daemons (rgather.c, rrepos.c,              *)
(* comms/mcclt_unix.c, comms/mcserv_unix.c), for any processes, threads,   *)
(* calls, connections and crashes.                                         *)
(***************************************************************************)
EXTENDS LocalCommands, SequenceTheorems, TLAPS

USE LocalCommandsAssumption
  DEF Goto, libvars, threadvars, connvars, daemonvars, Failed, Conns, NoConn, Broken,
    conn

-----------------------------------------------------------------------------
(* The inductive invariant.                                                *)

PartSet == [number : Nat, more : BOOLEAN, quits : BOOLEAN]

Places ==
  {"idle", "lock", "connect", "write", "reconnect", "rewrite", "response", "relock", "forget"}
Types ==
  /\ mutex \in [Processes -> Threads \union {NoThread}]
  /\ sn_handle \in [Processes -> Conns \union {NoConn, Broken}]
  /\ pc \in [Threads -> Places]
  /\ result \in [Threads -> Nat]
  /\ called \in [Threads -> Nat]
  /\ owner \in [Conns -> BOOLEAN]
  /\ serverEnd \in [Conns -> {"none", "backlog", "open", "closed"}]
  /\ DOMAIN requests = Conns
  /\ answers \in [Conns -> Seq(PartSet)]
  /\ dpc \in {"down", "accept", "poll", "answer", "term"}
  /\ serving \in Conns \union {NoConn}
  /\ pending \in Seq(PartSet)
  /\ executed \in [Threads -> Seq(Nat)]

(* The library's mutex is with the thread that connects, writes or waits   *)
(* for the answer, or has locked it once more.                             *)
Holds(t) == pc[t] \in {"connect", "write", "reconnect", "rewrite", "response", "relock"}
Locked == \A t \in Threads : Holds(t) <=> mutex[process[t]] = t

(* No two processes have the same connection, and each has its own end     *)
(* open.                                                                   *)
Handles ==
  /\ \A p \in Processes : sn_handle[p] \in Conns => owner[sn_handle[p]]
  /\ \A p, q \in Processes : sn_handle[p] \in Conns /\ sn_handle[p] = sn_handle[q] => p = q

(* The two ends of a connection; the daemon serves the one it has open.    *)
Ends ==
  /\ \A k \in Conns :
       /\ owner[k] => serverEnd[k] # "none"
       /\ serverEnd[k] = "open" <=> serving = k
       /\ serverEnd[k] \in {"none", "closed"} => requests[k] = <<>>
  /\ serving = NoConn <=> dpc \in {"accept", "down"}
  /\ pending # <<>> <=> dpc = "answer"

(* A request on its way is that of a thread that waits for its answer and  *)
(* has not been executed: nothing else is on the connection.               *)
Waits(t, k)  == pc[t] = "response" /\ conn(t) = k
Answering(k) == dpc = "answer" /\ serving = k
AskedOn(k) ==
  requests[k] # <<>> =>
    LET m == Head(requests[k])
    IN  /\ requests[k] = <<m>>
        /\ m.thread \in Threads /\ Waits(m.thread, k)
        /\ m.number = called[m.thread] /\ m.quits \in BOOLEAN
        /\ executed[m.thread] = <<>>
        /\ answers[k] = <<>> /\ ~Answering(k)
Asked == \A k \in Conns : AskedOn(k)

(* An answer on its way, or being sent, is that to the call of a thread    *)
(* that waits for it and was executed once.                                *)
Of(parts, number) == \A i \in 1..Len(parts) : parts[i].number = number
ToldOn(k) ==
  answers[k] # <<>> \/ Answering(k) =>
    \E t \in Threads :
      /\ Waits(t, k) /\ executed[t] = <<called[t]>>
      /\ Of(answers[k], called[t])
      /\ Answering(k) => Of(pending, called[t])
Told == \A k \in Conns : ToldOn(k)

(* Nothing follows the last part of an answer.                             *)
LastOn(k) ==
  \A i \in 1..Len(answers[k]) : ~answers[k][i].more => i = Len(answers[k]) /\ ~Answering(k)
LastParts ==
  /\ \A k \in Conns : LastOn(k)
  /\ \A i \in 1..Len(pending) : pending[i].more <=> i < Len(pending)

(* A call whose request is not sent has not been executed, and one that    *)
(* has not returned has no result.                                         *)
Waiting ==
  \A t \in Threads :
    /\ pc[t] = "response" => conn(t) \in Conns
    /\ pc[t] \in {"lock", "connect", "write", "reconnect", "rewrite"} => executed[t] = <<>>
    /\ t \in InCall => result[t] = Failed

Inv ==
  /\ Types /\ Locked /\ Handles /\ Ends
  /\ Asked /\ Told /\ LastParts /\ Waiting

-----------------------------------------------------------------------------
USE DEF Answering, Places

(* Sequences of requests and of parts.                                     *)

LEMMA OneRequest ==
  ASSUME NEW m
  PROVE  Append(<<>>, m) = <<m>> /\ <<m>> # <<>> /\ Head(<<m>>) = m /\ Tail(<<m>>) = <<>>
<1>1. <<>> \in Seq({m}) /\ <<m>> \in Seq({m}) /\ Len(<<m>>) = 1 /\ <<m>>[1] = m  OBVIOUS
<1>. QED  BY <1>1

LEMMA PartsSent ==
  ASSUME NEW s \in Seq(PartSet), NEW x \in PartSet
  PROVE  /\ Append(s, x) \in Seq(PartSet) /\ Append(s, x) # <<>>
         /\ Len(Append(s, x)) = Len(s) + 1 /\ Len(s) \in Nat
         /\ \A i \in 1..Len(s) : Append(s, x)[i] = s[i]
         /\ Append(s, x)[Len(s) + 1] = x
OBVIOUS

LEMMA PartsRead ==
  ASSUME NEW s \in Seq(PartSet), s # <<>>
  PROVE  /\ Tail(s) \in Seq(PartSet) /\ Len(s) \in Nat \ {0} /\ Len(Tail(s)) = Len(s) - 1
         /\ Head(s) = s[1] /\ Head(s) \in PartSet
         /\ \A i \in 1..Len(s) - 1 : Tail(s)[i] = s[i + 1]
         /\ Tail(s) = <<>> <=> Len(s) = 1
<1>1. /\ Tail(s) \in Seq(PartSet) /\ Len(s) \in Nat \ {0} /\ Len(Tail(s)) = Len(s) - 1
      /\ Head(s) = s[1] /\ Head(s) \in PartSet
      /\ \A i \in 1..Len(s) - 1 : Tail(s)[i] = s[i + 1]
  OBVIOUS
<1>2. Tail(s) = <<>> <=> Len(Tail(s)) = 0  BY <1>1, EmptySeq
<1>. QED  BY <1>1, <1>2

LEMMA PartsMade ==
  ASSUME NEW m, m.number \in Nat, m.quits \in BOOLEAN, NEW n
  PROVE  /\ Parts(m, n) \in Seq(PartSet) /\ Parts(m, n) # <<>>
         /\ Of(Parts(m, n), m.number)
         /\ \A i \in 1..Len(Parts(m, n)) : Parts(m, n)[i].more <=> i < Len(Parts(m, n))
<1>. DEFINE last == [number |-> m.number, more |-> FALSE, quits |-> m.quits]
            more == [last EXCEPT !.more = TRUE]
<1>1. last \in PartSet /\ more \in PartSet /\ last.number = m.number /\ more.number = m.number
      /\ last.more = FALSE /\ more.more = TRUE
  BY DEF PartSet
<1>. HIDE DEF last, more
<1>2. CASE n = 1
  <2>1. Parts(m, n) = <<last>>  BY <1>2 DEF Parts, last
  <2>. QED  BY <1>1, <2>1 DEF Of
<1>3. CASE n # 1
  <2>1. Parts(m, n) = <<more, last>>  BY <1>3 DEF Parts, last, more
  <2>2. Len(<<more, last>>) = 2 /\ <<more, last>>[1] = more /\ <<more, last>>[2] = last  OBVIOUS
  <2>. QED  BY <1>1, <2>1, <2>2 DEF Of
<1>. QED  BY <1>2, <1>3

(* Two threads that have the mutexes of their processes do not share a     *)
(* connection.                                                             *)
LEMMA Alone ==
  ASSUME Locked, Handles, Types, NEW t \in Threads, NEW u \in Threads,
         Holds(t), Holds(u), conn(t) \in Conns, conn(t) = conn(u)
  PROVE  t = u
BY DEF Locked, Handles, conn

(* A connection that no waiting thread has is empty.                       *)
LEMMA NothingOnIt ==
  ASSUME Asked, Told, NEW k \in Conns, \A t \in Threads : ~Waits(t, k)
  PROVE  requests[k] = <<>> /\ answers[k] = <<>> /\ ~Answering(k)
BY DEF Asked, AskedOn, Told, ToldOn

(* An action that adds nothing to what is on a connection, and ends no     *)
(* wait while there is something.                                          *)
LessOn(k) ==
  /\ requests'[k] \in {<<>>, requests[k]}
  /\ answers'[k] \in {<<>>, answers[k]}
  /\ Answering(k)' => Answering(k) /\ pending' = pending
  /\ requests'[k] # <<>> \/ answers'[k] # <<>> \/ Answering(k)' =>
       \A t \in Threads : Waits(t, k) =>
         Waits(t, k)' /\ called'[t] = called[t] /\ executed'[t] = executed[t]

LEMMA OnWireLess ==
  ASSUME Inv, NEW k \in Conns, LessOn(k)
  PROVE  AskedOn(k)' /\ ToldOn(k)' /\ LastOn(k)'
<1>. USE DEF Inv, LessOn
<1>1. AskedOn(k)'
  <2>1. CASE requests'[k] = <<>>  BY <2>1 DEF AskedOn
  <2>2. CASE requests'[k] # <<>>
    <3>1. requests'[k] = requests[k]  BY <2>2
    <3>2. PICK u \in Threads :
            /\ requests[k] = <<Head(requests[k])>> /\ Head(requests[k]).thread = u /\ Waits(u, k)
            /\ Head(requests[k]).number = called[u] /\ Head(requests[k]).quits \in BOOLEAN
            /\ executed[u] = <<>> /\ answers[k] = <<>> /\ ~Answering(k)
      BY <2>2, <3>1 DEF Asked, AskedOn
    <3>3. Waits(u, k)' /\ called'[u] = called[u] /\ executed'[u] = executed[u]  BY <2>2, <3>2
    <3>4. answers'[k] = <<>> /\ ~Answering(k)'  BY <3>2
    <3>. QED  BY <3>1, <3>2, <3>3, <3>4 DEF AskedOn
  <2>. QED  BY <2>1, <2>2
<1>2. ToldOn(k)'
  <2>. SUFFICES ASSUME answers'[k] # <<>> \/ Answering(k)'
                PROVE  \E t \in Threads :
                         /\ Waits(t, k)' /\ executed'[t] = <<called'[t]>>
                         /\ Of(answers'[k], called'[t])
                         /\ Answering(k)' => Of(pending', called'[t])
    BY DEF ToldOn
  <2>1. answers[k] # <<>> \/ Answering(k)  OBVIOUS
  <2>2. PICK t \in Threads :
          /\ Waits(t, k) /\ executed[t] = <<called[t]>>
          /\ Of(answers[k], called[t])
          /\ Answering(k) => Of(pending, called[t])
    BY <2>1 DEF Told, ToldOn
  <2>3. Waits(t, k)' /\ called'[t] = called[t] /\ executed'[t] = executed[t]  BY <2>2
  <2>4. Of(answers'[k], called[t])  BY <2>2 DEF Of
  <2>. QED  BY <2>2, <2>3, <2>4
<1>3. LastOn(k)'  BY DEF LastParts, LastOn
<1>. QED  BY <1>1, <1>2, <1>3

LEMMA OnWire ==
  ASSUME Inv, pending' \in {<<>>, pending}, \A k \in Conns : LessOn(k)
  PROVE  Asked' /\ Told' /\ LastParts'
<1>1. \A k \in Conns : AskedOn(k)' /\ ToldOn(k)' /\ LastOn(k)'  BY OnWireLess
<1>. QED  BY <1>1 DEF Inv, Asked, Told, LastParts

(* A thread takes, keeps or releases the mutex as its place says.          *)
LEMMA MutexPassed ==
  ASSUME Types, Locked, NEW t \in Threads, mutex[process[t]] \in {t, NoThread},
         NEW label, label \in 
           {"idle", "connect", "write", "reconnect", "response", "relock", "forget"},
         pc' = [pc EXCEPT ![t] = label],
         NEW m, m = (IF label \in {"idle", "forget"} THEN NoThread ELSE t),
         mutex' = [mutex EXCEPT ![process[t]] = m]
  PROVE  /\ Locked' /\ mutex' \in [Processes -> Threads \union {NoThread}]
         /\ pc' \in [Threads -> Places]
<1>1. m \in Threads \union {NoThread} /\ process[t] \in Processes /\ m # NoThread => m = t  OBVIOUS
<1>2. mutex' \in [Processes -> Threads \union {NoThread}]  BY <1>1 DEF Types
<1>3. pc'[t] = label /\ \A u \in Threads : u # t => pc'[u] = pc[u]  BY DEF Types
<1>4. mutex'[process[t]] = m /\ \A p \in Processes : p # process[t] => mutex'[p] = mutex[p]
  BY <1>1 DEF Types
<1>5. (label \notin {"idle", "forget"}) <=> m = t  OBVIOUS
<1>6. Holds(t)' <=> mutex'[process[t]] = t  BY <1>3, <1>4, <1>5 DEF Holds
<1>7. ASSUME NEW u \in Threads, u # t PROVE Holds(u)' <=> mutex'[process[u]] = u
  <2>1. Holds(u)' <=> Holds(u)  BY <1>3, <1>7 DEF Holds
  <2>2. Holds(u) <=> mutex[process[u]] = u  BY DEF Locked
  <2>3. process[u] \in Processes  OBVIOUS
  <2>4. CASE process[u] = process[t]
    <3>1. mutex[process[u]] # u /\ mutex'[process[u]] # u  BY <1>1, <1>4, <1>5, <1>7, <2>4
    <3>. QED  BY <2>1, <2>2, <3>1
  <2>5. CASE process[u] # process[t]  BY <1>4, <2>1, <2>2, <2>3, <2>5
  <2>. QED  BY <2>4, <2>5
<1>8. Locked'  BY <1>6, <1>7 DEF Locked
<1>9. pc' \in [Threads -> Places]
  BY DEF Types
<1>. QED  BY <1>2, <1>8, <1>9

-----------------------------------------------------------------------------
(* Every action keeps the invariant.                                       *)

LEMMA CallInv ==
  ASSUME Inv, NEW t \in Threads, Call(t)
  PROVE  Inv'
<1>. USE DEF Inv
<1>1. /\ UNCHANGED <<mutex, sn_handle, owner, serverEnd, requests, answers, dpc, serving, pending>>
      /\ pc[t] = "idle" /\ pc' = [pc EXCEPT ![t] = "lock"]
      /\ called' = [called EXCEPT ![t] = @ + 1]
      /\ executed' = [executed EXCEPT ![t] = <<>>]
      /\ result' = [result EXCEPT ![t] = Failed]
  BY DEF Call
<1>2. \A k \in Conns :
        requests'[k] # <<>> \/ answers'[k] # <<>> \/ Answering(k)' =>
          \A u \in Threads : Waits(u, k) =>
            Waits(u, k)' /\ called'[u] = called[u] /\ executed'[u] = executed[u]
  BY <1>1 DEF Types, Waits
<1>3. Asked' /\ Told' /\ LastParts'  BY OnWire, <1>1, <1>2 DEF LessOn
<1>4. Types'  BY <1>1 DEF Types
<1>5. Locked'  BY <1>1 DEF Types, Locked, Holds
<1>6. Handles'  BY <1>1 DEF Types, Handles
<1>7. Ends'  BY <1>1 DEF Types, Ends
<1>8. Waiting'  BY <1>1 DEF Types, Waiting, InCall
<1>. QED  BY <1>3, <1>4, <1>5, <1>6, <1>7, <1>8

LEMMA LoadInv ==
  ASSUME Inv, NEW t \in Threads, Load(t)
  PROVE  Inv'
<1>. USE DEF Inv
<1>1. /\ UNCHANGED <<mutex, sn_handle, pc, result, called, owner, serverEnd, requests, answers,
                     serving, pending, executed>>
      /\ dpc = "down" /\ dpc' = "accept"
  BY DEF Load
<1>2. \A k \in Conns :
        requests'[k] # <<>> \/ answers'[k] # <<>> \/ Answering(k)' =>
          \A u \in Threads : Waits(u, k) =>
            Waits(u, k)' /\ called'[u] = called[u] /\ executed'[u] = executed[u]
  BY <1>1 DEF Types, Waits
<1>3. Asked' /\ Told' /\ LastParts'  BY OnWire, <1>1, <1>2 DEF LessOn
<1>4. Types'  BY <1>1 DEF Types
<1>5. Locked'  BY <1>1 DEF Types, Locked, Holds
<1>6. Handles'  BY <1>1 DEF Types, Handles
<1>7. Ends'  BY <1>1 DEF Types, Ends
<1>8. Waiting'  BY <1>1 DEF Types, Waiting, InCall
<1>. QED  BY <1>3, <1>4, <1>5, <1>6, <1>7, <1>8

LEMMA LockInv ==
  ASSUME Inv, NEW t \in Threads, Lock(t)
  PROVE  Inv'
<1>. USE DEF Inv
<1>1. /\ UNCHANGED <<sn_handle, result, called, owner, serverEnd, requests, answers, dpc, serving,
                     pending, executed>>
      /\ pc[t] = "lock" /\ mutex[process[t]] = NoThread
      /\ \E label \in {"idle", "connect", "write", "relock"} :
           /\ pc' = [pc EXCEPT ![t] = label]
           /\ mutex' = [mutex EXCEPT ![process[t]] =
                            IF label \in {"idle", "forget"} THEN NoThread ELSE t]
  BY DEF Lock, Fail
<1>2. mutex[process[t]] \in {t, NoThread}  BY <1>1 DEF Locked, Holds
<1>3. /\ Locked' /\ mutex' \in [Processes -> Threads \union {NoThread}]
      /\ pc' \in [Threads -> Places]
  BY <1>1, <1>2, MutexPassed
<1>4. \A k \in Conns :
        requests'[k] # <<>> \/ answers'[k] # <<>> \/ Answering(k)' =>
          \A u \in Threads : Waits(u, k) =>
            Waits(u, k)' /\ called'[u] = called[u] /\ executed'[u] = executed[u]
  BY <1>1 DEF Types, Waits
<1>5. Asked' /\ Told' /\ LastParts'  BY OnWire, <1>1, <1>4 DEF LessOn
<1>6. Types'  BY <1>1, <1>3 DEF Types
<1>7. Locked'  BY <1>3
<1>8. Handles'  BY <1>1 DEF Types, Handles
<1>9. Ends'  BY <1>1 DEF Types, Ends
<1>10. Waiting'  BY <1>1 DEF Types, Waiting, InCall
<1>. QED  BY <1>5, <1>6, <1>7, <1>8, <1>9, <1>10

LEMMA ConnectInv ==
  ASSUME Inv, NEW t \in Threads, Connect(t)
  PROVE  Inv'
<1>. USE DEF Inv
<1>1. /\ UNCHANGED <<mutex, result, called, requests, dpc, serving, pending, executed>>
      /\ pc[t] \in {"connect", "reconnect"} /\ pc'[t] \in {"write", "rewrite"}
      /\ pc' = [pc EXCEPT ![t] = pc'[t]]
  BY DEF Connect, Types
<1>2. PICK new \in Conns :
        /\ ~owner[new] /\ serverEnd[new] = "none"
        /\ sn_handle' = [sn_handle EXCEPT ![process[t]] = new]
        /\ owner' =
             [l \in Conns |-> IF l = new THEN TRUE ELSE IF l = conn(t) THEN FALSE ELSE owner[l]]
        /\ serverEnd' =
             [l \in Conns |-> IF l = new THEN "backlog"
                              ELSE IF l = conn(t) /\ serverEnd[l] = "closed" THEN "none"
                              ELSE serverEnd[l]]
        /\ answers' = [l \in Conns |-> IF l = conn(t) THEN <<>> ELSE answers[l]]
  BY DEF Connect, Free, Unowned, HalfClosed, Unread
<1>3. ASSUME NEW u \in Threads, u # t, pc[u] = "response" PROVE process[u] # process[t]
  BY <1>1, <1>3 DEF Locked, Holds
<1>4. conn(t) \in Conns =>
        requests[conn(t)] = <<>> /\ answers[conn(t)] = <<>> /\ ~Answering(conn(t))
  <2>1. conn(t) \in Conns => \A u \in Threads : ~Waits(u, conn(t))
    BY <1>1, <1>3, Alone DEF Holds, Waits
  <2>. QED  BY <2>1, NothingOnIt
<1>5. \A k \in Conns :
        requests'[k] # <<>> \/ answers'[k] # <<>> \/ Answering(k)' =>
          \A u \in Threads : Waits(u, k) =>
            Waits(u, k)' /\ called'[u] = called[u] /\ executed'[u] = executed[u]
  BY <1>1, <1>2, <1>3 DEF Types, Waits
<1>6. Asked' /\ Told' /\ LastParts'  BY OnWire, <1>1, <1>5, <1>2 DEF LessOn
<1>7. Types'
  <2>1. <<>> \in Seq(PartSet)  OBVIOUS
  <2>. QED  BY <1>1, <1>2, <2>1 DEF Types
<1>8. Locked'  BY <1>1 DEF Types, Locked, Holds
<1>9. Handles'
  <2>1. ASSUME NEW p \in Processes, p # process[t], sn_handle[p] \in Conns
        PROVE  owner'[sn_handle[p]] /\ sn_handle[p] # new
    <3>1. owner[sn_handle[p]] /\ sn_handle[p] # conn(t)  BY <2>1 DEF Handles
    <3>. QED  BY <1>2, <2>1, <3>1
  <2>2. sn_handle'[process[t]] = new /\ owner'[new]  BY <1>2 DEF Types
  <2>3. \A p \in Processes : p # process[t] => sn_handle'[p] = sn_handle[p]  BY <1>2 DEF Types
  <2>. QED  BY <2>1, <2>2, <2>3 DEF Handles
<1>10. Ends'  BY <1>1, <1>2, <1>4 DEF Types, Ends, Handles
<1>11. Waiting'  BY <1>1, <1>2, <1>3 DEF Types, Waiting, InCall
<1>. QED  BY <1>6, <1>7, <1>8, <1>9, <1>10, <1>11

LEMMA ConnectFailsInv ==
  ASSUME Inv, NEW t \in Threads, ConnectFails(t)
  PROVE  Inv'
<1>. USE DEF Inv
<1>1. /\ UNCHANGED <<result, called, requests, dpc, serving, pending, executed>>
      /\ pc[t] \in {"connect", "reconnect"}
      /\ sn_handle' = [sn_handle EXCEPT ![process[t]] = Broken]
      /\ owner' = [l \in Conns |-> IF l = conn(t) THEN FALSE ELSE owner[l]]
      /\ serverEnd' = [l \in Conns |-> IF l = conn(t) /\ serverEnd[l] = "closed" THEN "none"
                                       ELSE serverEnd[l]]
      /\ answers' = [l \in Conns |-> IF l = conn(t) THEN <<>> ELSE answers[l]]
      /\ \E label \in {"idle", "relock"} :
           /\ pc' = [pc EXCEPT ![t] = label]
           /\ mutex' = [mutex EXCEPT ![process[t]] =
                            IF label \in {"idle", "forget"} THEN NoThread ELSE t]
  BY DEF ConnectFails, Fail, Unowned, HalfClosed, Unread
<1>2. mutex[process[t]] \in {t, NoThread}  BY <1>1 DEF Locked, Holds
<1>3. /\ Locked' /\ mutex' \in [Processes -> Threads \union {NoThread}]
      /\ pc' \in [Threads -> Places]
  BY <1>1, <1>2, MutexPassed
<1>4. ASSUME NEW u \in Threads, u # t, pc[u] = "response" PROVE process[u] # process[t]
  BY <1>1, <1>4 DEF Locked, Holds
<1>5. conn(t) \in Conns =>
        requests[conn(t)] = <<>> /\ answers[conn(t)] = <<>> /\ ~Answering(conn(t))
  <2>1. conn(t) \in Conns => \A u \in Threads : ~Waits(u, conn(t))
    BY <1>1, <1>4, Alone DEF Holds, Waits
  <2>. QED  BY <2>1, NothingOnIt
<1>6. \A k \in Conns :
        requests'[k] # <<>> \/ answers'[k] # <<>> \/ Answering(k)' =>
          \A u \in Threads : Waits(u, k) =>
            Waits(u, k)' /\ called'[u] = called[u] /\ executed'[u] = executed[u]
  BY <1>1, <1>4 DEF Types, Waits
<1>7. Asked' /\ Told' /\ LastParts'  BY OnWire, <1>1, <1>6 DEF LessOn
<1>8. Types'
  <2>1. <<>> \in Seq(PartSet)  OBVIOUS
  <2>. QED  BY <1>1, <1>3, <2>1 DEF Types
<1>9. Locked'  BY <1>3
<1>10. Handles'
  <2>1. ASSUME NEW p \in Processes, p # process[t], sn_handle[p] \in Conns
        PROVE  owner'[sn_handle[p]]
    <3>1. owner[sn_handle[p]] /\ sn_handle[p] # conn(t)  BY <2>1 DEF Handles
    <3>. QED  BY <1>1, <2>1, <3>1
  <2>2. sn_handle'[process[t]] \notin Conns  BY <1>1 DEF Types
  <2>3. \A p \in Processes : p # process[t] => sn_handle'[p] = sn_handle[p]  BY <1>1 DEF Types
  <2>. QED  BY <2>1, <2>2, <2>3 DEF Handles
<1>11. Ends'  BY <1>1, <1>5 DEF Types, Ends, Handles
<1>12. Waiting'  BY <1>1, <1>4 DEF Types, Waiting, InCall
<1>. QED  BY <1>7, <1>8, <1>9, <1>10, <1>11, <1>12

LEMMA ResponseFailsInv ==
  ASSUME Inv, NEW t \in Threads, ResponseFails(t)
  PROVE  Inv'
<1>. USE DEF Inv
<1>1. /\ UNCHANGED <<sn_handle, result, called, owner, serverEnd, requests, answers, dpc, serving,
                     pending, executed>>
      /\ pc[t] = "response" /\ answers[conn(t)] = <<>> /\ serverEnd[conn(t)] = "closed"
      /\ \E label \in {"idle", "relock"} :
           /\ pc' = [pc EXCEPT ![t] = label]
           /\ mutex' = [mutex EXCEPT ![process[t]] =
                            IF label \in {"idle", "forget"} THEN NoThread ELSE t]
  BY DEF ResponseFails, Fail
<1>2. mutex[process[t]] \in {t, NoThread}  BY <1>1 DEF Locked, Holds
<1>3. /\ Locked' /\ mutex' \in [Processes -> Threads \union {NoThread}]
      /\ pc' \in [Threads -> Places]
  BY <1>1, <1>2, MutexPassed
<1>4. conn(t) \in Conns /\ requests[conn(t)] = <<>> /\ ~Answering(conn(t))
  BY <1>1 DEF Waiting, Ends
<1>5. \A k \in Conns :
        requests'[k] # <<>> \/ answers'[k] # <<>> \/ Answering(k)' =>
          \A u \in Threads : Waits(u, k) =>
            Waits(u, k)' /\ called'[u] = called[u] /\ executed'[u] = executed[u]
  BY <1>1, <1>4 DEF Types, Waits
<1>6. Asked' /\ Told' /\ LastParts'  BY OnWire, <1>1, <1>5 DEF LessOn
<1>7. Types'  BY <1>1, <1>3 DEF Types
<1>8. Locked'  BY <1>3
<1>9. Handles'  BY <1>1 DEF Types, Handles
<1>10. Ends'  BY <1>1 DEF Types, Ends
<1>11. Waiting'  BY <1>1 DEF Types, Waiting, InCall
<1>. QED  BY <1>6, <1>7, <1>8, <1>9, <1>10, <1>11

LEMMA ForgetInv ==
  ASSUME Inv, NEW t \in Threads, Forget(t)
  PROVE  Inv'
<1>. USE DEF Inv
<1>1. /\ UNCHANGED <<mutex, sn_handle, result, called, owner, serverEnd, requests, answers, dpc,
                     serving, pending, executed>>
      /\ pc[t] = "forget" /\ pc' = [pc EXCEPT ![t] = "idle"]
  BY DEF Forget
<1>2. \A k \in Conns :
        requests'[k] # <<>> \/ answers'[k] # <<>> \/ Answering(k)' =>
          \A u \in Threads : Waits(u, k) =>
            Waits(u, k)' /\ called'[u] = called[u] /\ executed'[u] = executed[u]
  BY <1>1 DEF Types, Waits
<1>3. Asked' /\ Told' /\ LastParts'  BY OnWire, <1>1, <1>2 DEF LessOn
<1>4. Types'  BY <1>1 DEF Types
<1>5. Locked'  BY <1>1 DEF Types, Locked, Holds
<1>6. Handles'  BY <1>1 DEF Types, Handles
<1>7. Ends'  BY <1>1 DEF Types, Ends
<1>8. Waiting'  BY <1>1 DEF Types, Waiting, InCall
<1>. QED  BY <1>3, <1>4, <1>5, <1>6, <1>7, <1>8

LEMMA mcs_acceptInv ==
  ASSUME Inv, NEW new \in Conns, mcs_accept(new)
  PROVE  Inv'
<1>. USE DEF Inv
<1>1. /\ UNCHANGED <<mutex, sn_handle, pc, result, called, owner, requests, answers, pending,
                     executed>>
      /\ dpc = "accept" /\ serverEnd[new] = "backlog" /\ serving = NoConn
      /\ serverEnd' = [serverEnd EXCEPT ![new] = "open"] /\ serving' = new /\ dpc' = "poll"
  BY DEF mcs_accept, Ends
<1>2. \A k \in Conns :
        requests'[k] # <<>> \/ answers'[k] # <<>> \/ Answering(k)' =>
          \A u \in Threads : Waits(u, k) =>
            Waits(u, k)' /\ called'[u] = called[u] /\ executed'[u] = executed[u]
  BY <1>1 DEF Types, Waits
<1>3. Asked' /\ Told' /\ LastParts'  BY OnWire, <1>1, <1>2 DEF LessOn
<1>4. Types'  BY <1>1 DEF Types
<1>5. Locked'  BY <1>1 DEF Types, Locked, Holds
<1>6. Handles'  BY <1>1 DEF Types, Handles
<1>7. Ends'  BY <1>1 DEF Types, Ends
<1>8. Waiting'  BY <1>1 DEF Types, Waiting, InCall
<1>. QED  BY <1>3, <1>4, <1>5, <1>6, <1>7, <1>8

LEMMA HangUpInv ==
  ASSUME Inv, HangUp
  PROVE  Inv'
<1>. USE DEF Inv
<1>1. /\ UNCHANGED <<mutex, sn_handle, pc, result, called, owner, answers, pending, executed>>
      /\ serving' = NoConn /\ dpc' = "accept"
      /\ dpc = "poll" /\ serving \in Conns
      /\ serverEnd' = [serverEnd EXCEPT ![serving] = IF owner[serving] THEN "closed" ELSE "none"]
      /\ requests' = [requests EXCEPT ![serving] = <<>>]
  BY DEF HangUp, Close, ServerClosed, Types, Ends
<1>2. \A k \in Conns :
        requests'[k] # <<>> \/ answers'[k] # <<>> \/ Answering(k)' =>
          \A u \in Threads : Waits(u, k) =>
            Waits(u, k)' /\ called'[u] = called[u] /\ executed'[u] = executed[u]
  BY <1>1 DEF Types, Waits
<1>3. Asked' /\ Told' /\ LastParts'  BY OnWire, <1>1, <1>2 DEF Types, LessOn
<1>4. Types'  BY <1>1 DEF Types
<1>5. Locked'  BY <1>1 DEF Types, Locked, Holds
<1>6. Handles'  BY <1>1 DEF Types, Handles
<1>7. Ends'  BY <1>1 DEF Types, Ends
<1>8. Waiting'  BY <1>1 DEF Types, Waiting, InCall
<1>. QED  BY <1>3, <1>4, <1>5, <1>6, <1>7, <1>8

LEMMA RefuseInv ==
  ASSUME Inv, Refuse
  PROVE  Inv'
<1>. USE DEF Inv
<1>1. /\ UNCHANGED <<mutex, sn_handle, pc, result, called, owner, answers, pending, executed>>
      /\ serving' = NoConn /\ dpc' = "accept"
      /\ dpc = "poll" /\ serving \in Conns
      /\ serverEnd' = [serverEnd EXCEPT ![serving] = IF owner[serving] THEN "closed" ELSE "none"]
      /\ requests' = [requests EXCEPT ![serving] = <<>>]
  BY DEF Refuse, Received, Close, ServerClosed, Types, Ends
<1>2. \A k \in Conns :
        requests'[k] # <<>> \/ answers'[k] # <<>> \/ Answering(k)' =>
          \A u \in Threads : Waits(u, k) =>
            Waits(u, k)' /\ called'[u] = called[u] /\ executed'[u] = executed[u]
  BY <1>1 DEF Types, Waits
<1>3. Asked' /\ Told' /\ LastParts'  BY OnWire, <1>1, <1>2 DEF Types, LessOn
<1>4. Types'  BY <1>1 DEF Types
<1>5. Locked'  BY <1>1 DEF Types, Locked, Holds
<1>6. Handles'  BY <1>1 DEF Types, Handles
<1>7. Ends'  BY <1>1 DEF Types, Ends
<1>8. Waiting'  BY <1>1 DEF Types, Waiting, InCall
<1>. QED  BY <1>3, <1>4, <1>5, <1>6, <1>7, <1>8

LEMMA DropInv ==
  ASSUME Inv, Drop
  PROVE  Inv'
<1>. USE DEF Inv
<1>1. /\ UNCHANGED <<mutex, sn_handle, pc, result, called, owner, serverEnd, answers, dpc, serving,
                     pending, executed>>
      /\ dpc = "poll" /\ serving \in Conns /\ requests[serving] # <<>>
      /\ requests' = [requests EXCEPT ![serving] = Tail(@)]
  BY DEF Drop, Received, Types, Ends
<1>2. Tail(requests[serving]) = <<>>  BY <1>1, OneRequest DEF Asked, AskedOn
<1>3. \A k \in Conns :
        requests'[k] # <<>> \/ answers'[k] # <<>> \/ Answering(k)' =>
          \A u \in Threads : Waits(u, k) =>
            Waits(u, k)' /\ called'[u] = called[u] /\ executed'[u] = executed[u]
  BY <1>1 DEF Types, Waits
<1>4. Asked' /\ Told' /\ LastParts'  BY OnWire, <1>1, <1>3, <1>2 DEF LessOn
<1>5. Types'  BY <1>1 DEF Types
<1>6. Locked'  BY <1>1 DEF Types, Locked, Holds
<1>7. Handles'  BY <1>1 DEF Types, Handles
<1>8. Ends'  BY <1>1, <1>2 DEF Types, Ends
<1>9. Waiting'  BY <1>1 DEF Types, Waiting, InCall
<1>. QED  BY <1>4, <1>5, <1>6, <1>7, <1>8, <1>9

LEMMA WriteFailsInv ==
  ASSUME Inv, NEW t \in Threads, Write(t),
         ~(Connected(conn(t)) /\ serverEnd[conn(t)] # "closed")
  PROVE  Inv'
<1>. USE DEF Inv
<1>1. /\ UNCHANGED <<sn_handle, result, called, owner, serverEnd, requests, answers, dpc, serving,
                     pending, executed>>
      /\ pc[t] \in {"write", "rewrite"}
      /\ \E label \in {"idle", "reconnect", "relock"} :
           /\ pc' = [pc EXCEPT ![t] = label]
           /\ mutex' = [mutex EXCEPT ![process[t]] =
                            IF label \in {"idle", "forget"} THEN NoThread ELSE t]
  <2>1. mutex[process[t]] = t /\ mutex = [mutex EXCEPT ![process[t]] = t]
    BY DEF Types, Locked, Holds, Write
  <2>. QED  BY <2>1 DEF Write, Fail
<1>2. mutex[process[t]] \in {t, NoThread}  BY <1>1 DEF Locked, Holds
<1>3. /\ Locked' /\ mutex' \in [Processes -> Threads \union {NoThread}]
      /\ pc' \in [Threads -> Places]
  BY <1>1, <1>2, MutexPassed
<1>4. \A k \in Conns :
        requests'[k] # <<>> \/ answers'[k] # <<>> \/ Answering(k)' =>
          \A u \in Threads : Waits(u, k) =>
            Waits(u, k)' /\ called'[u] = called[u] /\ executed'[u] = executed[u]
  BY <1>1 DEF Types, Waits
<1>5. Asked' /\ Told' /\ LastParts'  BY OnWire, <1>1, <1>4 DEF LessOn
<1>6. Types'  BY <1>1, <1>3 DEF Types
<1>7. Locked'  BY <1>3
<1>8. Handles'  BY <1>1 DEF Types, Handles
<1>9. Ends'  BY <1>1 DEF Types, Ends
<1>10. Waiting'  BY <1>1 DEF Types, Waiting, InCall
<1>. QED  BY <1>5, <1>6, <1>7, <1>8, <1>9, <1>10

LEMMA WriteSendsInv ==
  ASSUME Inv, NEW t \in Threads, Write(t),
         Connected(conn(t)), serverEnd[conn(t)] # "closed"
  PROVE  Inv'
<1>. USE DEF Inv
<1>1. /\ UNCHANGED <<mutex, sn_handle, result, called, owner, serverEnd, answers, dpc, serving,
                     pending, executed>>
      /\ pc[t] \in {"write", "rewrite"} /\ pc' = [pc EXCEPT ![t] = "response"]
      /\ conn(t) \in Conns /\ serverEnd[conn(t)] \notin {"none", "closed"}
      /\ requests' = [requests EXCEPT ![conn(t)] = Append(@, Message(t))]
  BY DEF Write, Connected, Handles, Ends, Types
<1>2. ASSUME NEW u \in Threads, u # t, pc[u] = "response" PROVE process[u] # process[t]
  BY <1>1, <1>2 DEF Locked, Holds
<1>3. conn(t) \in Conns =>
        requests[conn(t)] = <<>> /\ answers[conn(t)] = <<>> /\ ~Answering(conn(t))
  <2>1. conn(t) \in Conns => \A u \in Threads : ~Waits(u, conn(t))
    BY <1>1, <1>2, Alone DEF Holds, Waits
  <2>. QED  BY <2>1, NothingOnIt
<1>4. ASSUME NEW k \in Conns, k # conn(t) PROVE LessOn(k)
  BY <1>1, <1>4 DEF Types, Waits, LessOn
<1>5. AskedOn(conn(t))' /\ ToldOn(conn(t))' /\ LastOn(conn(t))'
  <2>. DEFINE k == conn(t)
  <2>1. requests'[k] = <<Message(t)>>  BY <1>1, <1>3, OneRequest DEF Types
  <2>2. executed[t] = <<>>  BY <1>1 DEF Waiting
  <2>3. /\ Message(t).thread = t /\ Message(t).number = called[t] /\ Message(t).quits \in BOOLEAN
    BY DEF Message
  <2>4. Waits(t, k)'  BY <1>1 DEF Types, Waits
  <2>. QED  BY <1>1, <1>3, <2>1, <2>2, <2>3, <2>4, OneRequest DEF AskedOn, ToldOn, LastOn
<1>6. Asked' /\ Told' /\ LastParts'
  BY <1>1, <1>4, <1>5, OnWireLess DEF Asked, Told, LastParts
<1>7. Types'  BY <1>1 DEF Types
<1>8. Locked'  BY <1>1 DEF Types, Locked, Holds
<1>9. Handles'  BY <1>1 DEF Types, Handles
<1>10. Ends'  BY <1>1 DEF Types, Ends
<1>11. Waiting'  BY <1>1 DEF Types, Waiting, InCall
<1>. QED  BY <1>6, <1>7, <1>8, <1>9, <1>10, <1>11

LEMMA mcs_termInv ==
  ASSUME Inv, mcs_term
  PROVE  Inv'
<1>. USE DEF Inv
<1>1. /\ UNCHANGED <<mutex, sn_handle, pc, result, called, owner, answers, executed>>
      /\ serving' = NoConn /\ pending' = <<>> /\ dpc' = "down"
      /\ serverEnd' = [k \in Conns |-> IF owner[k] THEN "closed" ELSE "none"]
      /\ requests' = [k \in Conns |-> <<>>]
  BY DEF mcs_term, Down, ServerClosed
<1>2. \A k \in Conns :
        requests'[k] # <<>> \/ answers'[k] # <<>> \/ Answering(k)' =>
          \A u \in Threads : Waits(u, k) =>
            Waits(u, k)' /\ called'[u] = called[u] /\ executed'[u] = executed[u]
  BY <1>1 DEF Types, Waits
<1>3. Asked' /\ Told' /\ LastParts'  BY OnWire, <1>1, <1>2 DEF LessOn
<1>4. Types'  BY <1>1 DEF Types
<1>5. Locked'  BY <1>1 DEF Types, Locked, Holds
<1>6. Handles'  BY <1>1 DEF Types, Handles
<1>7. Ends'  BY <1>1 DEF Types, Ends
<1>8. Waiting'  BY <1>1 DEF Types, Waiting, InCall
<1>. QED  BY <1>3, <1>4, <1>5, <1>6, <1>7, <1>8

LEMMA CrashInv ==
  ASSUME Inv, Crash
  PROVE  Inv'
<1>. USE DEF Inv
<1>1. /\ UNCHANGED <<mutex, sn_handle, pc, result, called, owner, answers, executed>>
      /\ serving' = NoConn /\ pending' = <<>> /\ dpc' = "down"
      /\ serverEnd' = [k \in Conns |-> IF owner[k] THEN "closed" ELSE "none"]
      /\ requests' = [k \in Conns |-> <<>>]
  BY DEF Crash, Down, ServerClosed
<1>2. \A k \in Conns :
        requests'[k] # <<>> \/ answers'[k] # <<>> \/ Answering(k)' =>
          \A u \in Threads : Waits(u, k) =>
            Waits(u, k)' /\ called'[u] = called[u] /\ executed'[u] = executed[u]
  BY <1>1 DEF Types, Waits
<1>3. Asked' /\ Told' /\ LastParts'  BY OnWire, <1>1, <1>2 DEF LessOn
<1>4. Types'  BY <1>1 DEF Types
<1>5. Locked'  BY <1>1 DEF Types, Locked, Holds
<1>6. Handles'  BY <1>1 DEF Types, Handles
<1>7. Ends'  BY <1>1 DEF Types, Ends
<1>8. Waiting'  BY <1>1 DEF Types, Waiting, InCall
<1>. QED  BY <1>3, <1>4, <1>5, <1>6, <1>7, <1>8

LEMMA ExecuteInv ==
  ASSUME Inv, Execute
  PROVE  Inv'
<1>. USE DEF Inv
<1>1. /\ UNCHANGED <<mutex, sn_handle, pc, result, called, owner, serverEnd, answers, serving>>
      /\ dpc = "poll" /\ serving \in Conns /\ requests[serving] # <<>>
      /\ requests' = [requests EXCEPT ![serving] = Tail(@)] /\ dpc' = "answer"
  BY DEF Execute, Received, Types, Ends
<1>2. PICK m : m = Head(requests[serving])  OBVIOUS
<1>3. PICK n : pending' = Parts(m, n)  BY <1>2 DEF Execute, Received
<1>4. PICK u \in Threads :
        /\ m.thread = u /\ requests[serving] = <<m>> /\ Waits(u, serving)
        /\ m.number = called[u] /\ m.quits \in BOOLEAN
        /\ executed[u] = <<>> /\ answers[serving] = <<>>
  BY <1>1, <1>2 DEF Asked, AskedOn
<1>5. executed' = [executed EXCEPT ![u] = <<called[u]>>]
  <2>1. executed' = [executed EXCEPT ![m.thread] = Append(@, m.number)]
    BY <1>2 DEF Execute, Received
  <2>2. Append(executed[u], called[u]) = <<called[u]>>  BY <1>4, OneRequest
  <2>3. executed' = [executed EXCEPT ![u] = Append(@, called[u])]  BY <1>4, <2>1
  <2>. QED  BY <2>2, <2>3 DEF Types
<1>6. /\ pending' \in Seq(PartSet) /\ pending' # <<>> /\ Of(pending', called[u])
      /\ \A i \in 1..Len(pending') : pending'[i].more <=> i < Len(pending')
  <2>1. called[u] \in Nat  BY DEF Types
  <2>. QED  BY <1>3, <1>4, <2>1, PartsMade
<1>7. ASSUME NEW k \in Conns, k # serving PROVE LessOn(k)
  BY <1>1, <1>4, <1>5, <1>7 DEF Types, Waits, LessOn
<1>8. AskedOn(serving)' /\ ToldOn(serving)' /\ LastOn(serving)'
  <2>1. requests'[serving] = <<>> /\ answers'[serving] = <<>>
    BY <1>1, <1>4, OneRequest DEF Types
  <2>2. executed'[u] = <<called'[u]>> /\ Waits(u, serving)'  BY <1>1, <1>4, <1>5 DEF Types, Waits
  <2>3. Of(answers'[serving], called'[u])  BY <2>1 DEF Of
  <2>4. Of(pending', called'[u])  BY <1>1, <1>6
  <2>. QED  BY <1>1, <2>1, <2>2, <2>3, <2>4 DEF AskedOn, ToldOn, LastOn
<1>9. Asked' /\ Told' /\ LastParts'
  BY <1>1, <1>6, <1>7, <1>8, OnWireLess DEF Asked, Told, LastParts
<1>10. Types'
  <2>1. called[u] \in Nat /\ <<called[u]>> \in Seq(Nat)  BY DEF Types
  <2>. QED  BY <1>1, <1>5, <1>6, <2>1 DEF Types
<1>11. Locked'  BY <1>1 DEF Types, Locked, Holds
<1>12. Handles'  BY <1>1 DEF Types, Handles
<1>13. Ends'
  <2>1. requests'[serving] = <<>>  BY <1>1, <1>4, OneRequest DEF Types
  <2>. QED  BY <1>1, <1>6, <2>1 DEF Types, Ends
<1>14. Waiting'  BY <1>1, <1>4, <1>5 DEF Types, Waits, Waiting, InCall
<1>. QED  BY <1>9, <1>10, <1>11, <1>12, <1>13, <1>14

LEMMA AnswerInv ==
  ASSUME Inv, Answer
  PROVE  Inv'
<1>. USE DEF Inv
<1>1. /\ UNCHANGED <<mutex, sn_handle, pc, result, called, owner, serverEnd, requests, serving,
                     executed>>
      /\ dpc = "answer" /\ serving \in Conns /\ pending # <<>> /\ pending' = Tail(pending)
      /\ answers' =
           [answers EXCEPT ![serving] = IF owner[serving] THEN Append(@, Head(pending)) ELSE @]
      /\ IF Tail(pending) = <<>> THEN dpc' \in {"poll", "term"} ELSE dpc' = dpc
  BY DEF Answer, Types, Ends
<1>2. PICK u \in Threads :
        /\ Waits(u, serving) /\ executed[u] = <<called[u]>>
        /\ Of(answers[serving], called[u]) /\ Of(pending, called[u])
  BY <1>1 DEF Told, ToldOn
<1>3. requests[serving] = <<>>  BY <1>1 DEF Asked, AskedOn
<1>4. answers'[serving] = Append(answers[serving], Head(pending))
  BY <1>1, <1>2 DEF Types, Waits, Handles
<1>5. ASSUME NEW k \in Conns, k # serving PROVE LessOn(k)
  BY <1>1, <1>5 DEF Types, Waits, LessOn
<1>6. answers[serving] \in Seq(PartSet) /\ pending \in Seq(PartSet)  BY <1>1 DEF Types
<1>7. AskedOn(serving)' /\ ToldOn(serving)' /\ LastOn(serving)'
  <2>. DEFINE s == answers[serving]
              n == Len(s)
              x == Head(pending)
  <2>1. /\ x \in PartSet /\ x = pending[1] /\ Len(pending) \in Nat \ {0}
        /\ Len(pending') = Len(pending) - 1
        /\ \A i \in 1..Len(pending') : pending'[i] = pending[i + 1]
    BY <1>1, <1>6, PartsRead
  <2>2. /\ n \in Nat /\ Len(Append(s, x)) = n + 1
        /\ \A i \in 1..n : Append(s, x)[i] = s[i]
        /\ Append(s, x)[n + 1] = x
    BY <1>6, <2>1, PartsSent
  <2>. HIDE DEF s, n, x
  <2>3. x.number = called[u] /\ Of(pending', called[u])  BY <1>2, <2>1 DEF Of
  <2>4. \A i \in 1..n + 1 : i \in 1..n \/ i = n + 1  BY <2>2
  <2>5. Of(Append(s, x), called[u])  BY <1>2, <2>2, <2>3, <2>4 DEF Of, s, n
  <2>6. ToldOn(serving)'  BY <1>1, <1>2, <1>4, <2>3, <2>5 DEF ToldOn, Waits, s, x
  <2>7. \A i \in 1..n : s[i].more  BY <1>1, <1>6 DEF LastParts, LastOn, s, n, PartSet
  <2>8. ~x.more => Answering(serving)' = FALSE
    <3>1. ~x.more => Len(pending) = 1  BY <2>1 DEF LastParts
    <3>2. ~x.more => Tail(pending) = <<>>  BY <1>1, <1>6, <3>1, PartsRead
    <3>. QED  BY <1>1, <3>2
  <2>9. LastOn(serving)'
    <3>1. answers'[serving] = Append(s, x)  BY <1>4 DEF s, x
    <3>. QED  BY <1>1, <2>2, <2>4, <2>7, <2>8, <3>1 DEF LastOn
  <2>10. AskedOn(serving)'  BY <1>1, <1>3 DEF AskedOn
  <2>. QED  BY <2>6, <2>9, <2>10
<1>8. \A i \in 1..Len(pending') : pending'[i].more <=> i < Len(pending')
  <2>1. /\ Len(pending) \in Nat /\ Len(pending') = Len(pending) - 1
        /\ \A i \in 1..Len(pending') : pending'[i] = pending[i + 1] /\ i + 1 \in 1..Len(pending)
    BY <1>1, <1>6, PartsRead
  <2>. QED  BY <2>1 DEF LastParts
<1>9. Asked' /\ Told' /\ LastParts'
  BY <1>1, <1>5, <1>7, <1>8, OnWireLess DEF Asked, Told, LastParts
<1>10. Types'
  <2>1. pending' \in Seq(PartSet)  BY <1>1, <1>6, PartsRead
  <2>2. answers'[serving] \in Seq(PartSet)  BY <1>1, <1>4, <1>6, PartsRead, PartsSent
  <2>3. answers' \in [Conns -> Seq(PartSet)]  BY <1>1, <2>2 DEF Types
  <2>. QED  BY <1>1, <2>1, <2>3 DEF Types
<1>11. Locked'  BY <1>1 DEF Types, Locked, Holds
<1>12. Handles'  BY <1>1 DEF Types, Handles
<1>13. Ends'  BY <1>1 DEF Types, Ends
<1>14. Waiting'  BY <1>1 DEF Types, Waiting, InCall
<1>. QED  BY <1>9, <1>10, <1>11, <1>12, <1>13, <1>14

LEMMA ResponseMoreInv ==
  ASSUME Inv, NEW t \in Threads, Response(t),
         Head(answers[conn(t)]).more
  PROVE  Inv'
<1>. USE DEF Inv
<1>1. /\ UNCHANGED <<mutex, sn_handle, pc, result, called, owner, serverEnd, requests, dpc, serving,
                     pending, executed>>
      /\ pc[t] = "response" /\ conn(t) \in Conns /\ answers[conn(t)] # <<>>
      /\ answers' = [answers EXCEPT ![conn(t)] = Tail(@)]
  BY DEF Response, Waiting
<1>2. PICK u \in Threads :
        /\ Waits(u, conn(t)) /\ executed[u] = <<called[u]>>
        /\ Of(answers[conn(t)], called[u])
        /\ Answering(conn(t)) => Of(pending, called[u])
  BY <1>1 DEF Told, ToldOn
<1>3. requests[conn(t)] = <<>>  BY <1>1 DEF Asked, AskedOn
<1>4. answers[conn(t)] \in Seq(PartSet) /\ answers'[conn(t)] = Tail(answers[conn(t)])
  BY <1>1 DEF Types
<1>5. ASSUME NEW k \in Conns, k # conn(t) PROVE LessOn(k)
  BY <1>1, <1>5 DEF Types, Waits, LessOn
<1>6. AskedOn(conn(t))' /\ ToldOn(conn(t))' /\ LastOn(conn(t))'
  <2>. DEFINE s == answers[conn(t)]
  <2>1. /\ Len(s) \in Nat /\ Len(Tail(s)) = Len(s) - 1
        /\ \A i \in 1..Len(Tail(s)) : Tail(s)[i] = s[i + 1] /\ i + 1 \in 1..Len(s)
    BY <1>1, <1>4, PartsRead
  <2>2. Of(Tail(s), called[u])  BY <1>2, <2>1 DEF Of
  <2>3. ToldOn(conn(t))'  BY <1>1, <1>2, <1>4, <2>2 DEF ToldOn, Waits
  <2>4. LastOn(conn(t))'
    <3>1. LastOn(conn(t))  BY <1>1 DEF LastParts
    <3>. QED  BY <1>1, <1>4, <2>1, <3>1 DEF LastOn
  <2>5. AskedOn(conn(t))'  BY <1>1, <1>3 DEF AskedOn
  <2>. QED  BY <2>3, <2>4, <2>5
<1>7. Asked' /\ Told' /\ LastParts'
  BY <1>1, <1>5, <1>6, OnWireLess DEF Asked, Told, LastParts
<1>8. Types'
  <2>1. answers'[conn(t)] \in Seq(PartSet)  BY <1>1, <1>4, PartsRead
  <2>2. answers' \in [Conns -> Seq(PartSet)]  BY <1>1, <2>1 DEF Types
  <2>. QED  BY <1>1, <2>2 DEF Types
<1>9. Locked'  BY <1>1 DEF Types, Locked, Holds
<1>10. Handles'  BY <1>1 DEF Types, Handles
<1>11. Ends'  BY <1>1 DEF Types, Ends
<1>12. Waiting'  BY <1>1 DEF Types, Waiting, InCall
<1>. QED  BY <1>7, <1>8, <1>9, <1>10, <1>11, <1>12

LEMMA ResponseLastInv ==
  ASSUME Inv, NEW t \in Threads, Response(t),
         ~Head(answers[conn(t)]).more
  PROVE  Inv'
<1>. USE DEF Inv
<1>1. /\ UNCHANGED <<called, requests, dpc, serving, pending, executed>>
      /\ pc[t] = "response" /\ conn(t) \in Conns /\ answers[conn(t)] # <<>>
      /\ answers' = [answers EXCEPT ![conn(t)] = Tail(@)]
      /\ result' = [result EXCEPT ![t] = Head(answers[conn(t)]).number]
      /\ \E label \in {"idle", "forget"} :
           /\ pc' = [pc EXCEPT ![t] = label]
           /\ mutex' = [mutex EXCEPT ![process[t]] =
                            IF label \in {"idle", "forget"} THEN NoThread ELSE t]
      /\ \/ UNCHANGED <<sn_handle, owner, serverEnd>>
         \/ /\ sn_handle' = [sn_handle EXCEPT ![process[t]] = NoConn]
            /\ owner' = [l \in Conns |-> IF l = conn(t) THEN FALSE ELSE owner[l]]
            /\ serverEnd' = [l \in Conns |-> IF l = conn(t) /\ serverEnd[l] = "closed" THEN "none"
                                             ELSE serverEnd[l]]
  BY DEF Response, Waiting, Answered, Returned, Unowned, HalfClosed
<1>2. mutex[process[t]] \in {t, NoThread}  BY <1>1 DEF Locked, Holds
<1>3. /\ Locked' /\ mutex' \in [Processes -> Threads \union {NoThread}]
      /\ pc' \in [Threads -> Places]
  BY <1>1, <1>2, MutexPassed
<1>4. ASSUME NEW u \in Threads, u # t, pc[u] = "response" PROVE process[u] # process[t]
  BY <1>1, <1>4 DEF Locked, Holds
<1>5. /\ requests[conn(t)] = <<>> /\ ~Answering(conn(t)) /\ answers'[conn(t)] = <<>>
      /\ Head(answers[conn(t)]) \in PartSet
  <2>1. answers[conn(t)] \in Seq(PartSet) /\ answers'[conn(t)] = Tail(answers[conn(t)])
    BY <1>1 DEF Types
  <2>2. /\ Len(answers[conn(t)]) \in Nat \ {0} /\ Head(answers[conn(t)]) = answers[conn(t)][1]
        /\ Head(answers[conn(t)]) \in PartSet
    BY <1>1, <2>1, PartsRead
  <2>3. Len(answers[conn(t)]) = 1 /\ ~Answering(conn(t))
    <3>1. LastOn(conn(t)) /\ 1 \in 1..Len(answers[conn(t)])  BY <1>1, <2>2 DEF LastParts
    <3>2. ~answers[conn(t)][1].more  BY <2>2
    <3>. QED  BY <3>1, <3>2 DEF LastOn
  <2>4. Tail(answers[conn(t)]) = <<>>  BY <1>1, <2>1, <2>3, PartsRead
  <2>5. requests[conn(t)] = <<>>  BY <1>1 DEF Asked, AskedOn
  <2>. QED  BY <2>1, <2>2, <2>3, <2>4, <2>5
<1>6. PICK k \in Conns : k = conn(t)  BY <1>1
<1>7. /\ \A p \in Processes : p # process[t] => sn_handle'[p] = sn_handle[p]
      /\ sn_handle'[process[t]] \in {k, NoConn}
      /\ sn_handle' \in [Processes -> Conns \union {NoConn, Broken}]
  <2>1. process[t] \in Processes /\ sn_handle[process[t]] = k  BY <1>6
  <2>2. CASE UNCHANGED sn_handle  BY <2>1, <2>2 DEF Types
  <2>3. CASE sn_handle' = [sn_handle EXCEPT ![process[t]] = NoConn]  BY <2>1, <2>3 DEF Types
  <2>. QED  BY <1>1, <2>2, <2>3
<1>8. /\ \A l \in Conns : l # k => owner'[l] = owner[l] /\ serverEnd'[l] = serverEnd[l]
      /\ (sn_handle'[process[t]] = k => owner'[k] /\ serverEnd'[k] # "none")
      /\ \/ serverEnd'[k] = serverEnd[k]
         \/ serverEnd[k] = "closed" /\ serverEnd'[k] = "none"
      /\ (owner'[k] => sn_handle'[process[t]] = k)
      /\ owner' \in [Conns -> BOOLEAN]
      /\ serverEnd' \in [Conns -> {"none", "backlog", "open", "closed"}]
  <2>1. process[t] \in Processes /\ sn_handle[process[t]] = k /\ owner[k] /\ serverEnd[k] # "none"
    BY <1>6 DEF Handles, Ends
  <2>2. CASE UNCHANGED <<sn_handle, owner, serverEnd>>  BY <2>1, <2>2 DEF Types
  <2>3. CASE /\ sn_handle' = [sn_handle EXCEPT ![process[t]] = NoConn]
             /\ owner' = [l \in Conns |-> IF l = k THEN FALSE ELSE owner[l]]
             /\ serverEnd' = [l \in Conns |-> IF l = k /\ serverEnd[l] = "closed" THEN "none"
                                              ELSE serverEnd[l]]
    <3>1. sn_handle'[process[t]] # k  BY <2>1, <2>3 DEF Types
    <3>2. /\ owner' \in [Conns -> BOOLEAN] /\ ~owner'[k]
          /\ \A l \in Conns : l # k => owner'[l] = owner[l]
      BY <2>3 DEF Types
    <3>3. /\ \A l \in Conns : serverEnd'[l] = IF l = k /\ serverEnd[l] = "closed" THEN "none"
                                              ELSE serverEnd[l]
          /\ serverEnd' \in [Conns -> {"none", "backlog", "open", "closed"}]
      BY <2>3 DEF Types
    <3>. QED  BY <3>1, <3>2, <3>3
  <2>. QED  BY <1>1, <1>6, <2>2, <2>3
<1>9. \A l \in Conns : LessOn(l)
  <2>1. ASSUME NEW l \in Conns, l # k PROVE LessOn(l)
    <3>1. ASSUME NEW u \in Threads, Waits(u, l) PROVE Waits(u, l)'
      <4>1. u # t /\ process[u] \in Processes /\ pc[u] = "response"  BY <1>6, <2>1, <3>1 DEF Waits
      <4>2. process[u] # process[t]  BY <1>4, <4>1
      <4>. QED  BY <1>1, <1>7, <3>1, <4>1, <4>2 DEF Types, Waits
    <3>2. answers'[l] = answers[l]  BY <1>1, <1>6, <2>1 DEF Types
    <3>. QED  BY <1>1, <3>1, <3>2 DEF LessOn
  <2>2. answers'[k] = <<>> /\ requests'[k] = <<>> /\ ~Answering(k)'  BY <1>1, <1>5, <1>6
  <2>3. LessOn(k)  BY <1>1, <2>2 DEF LessOn
  <2>. QED  BY <2>1, <2>3
<1>10. Asked' /\ Told' /\ LastParts'  BY OnWire, <1>1, <1>9 DEF LessOn
<1>11. Types'
  <2>1. <<>> \in Seq(PartSet)  OBVIOUS
  <2>2. answers' \in [Conns -> Seq(PartSet)]  BY <1>1, <1>5, <2>1 DEF Types
  <2>3. result' \in [Threads -> Nat]  BY <1>1, <1>5 DEF Types, PartSet
  <2>. QED  BY <1>1, <1>3, <1>7, <1>8, <2>2, <2>3 DEF Types
<1>12. Locked'  BY <1>3
<1>13. Handles'
  <2>1. ASSUME NEW p \in Processes, p # process[t], sn_handle[p] \in Conns
        PROVE  owner'[sn_handle[p]]
    <3>1. owner[sn_handle[p]] /\ sn_handle[p] # k  BY <1>6, <2>1 DEF Handles
    <3>. QED  BY <1>8, <2>1, <3>1
  <2>2. \A p \in Processes : p # process[t] => sn_handle'[p] = sn_handle[p]  BY <1>7
  <2>3. process[t] \in Processes /\ sn_handle[process[t]] = k  BY <1>6
  <2>4. /\ sn_handle'[process[t]] \in Conns => sn_handle'[process[t]] = sn_handle[process[t]]
        /\ sn_handle'[process[t]] \in Conns => owner'[sn_handle'[process[t]]]
    BY <1>7, <1>8, <2>3
  <2>. QED  BY <2>1, <2>2, <2>3, <2>4 DEF Handles
<1>14. Ends'  BY <1>1, <1>5, <1>6, <1>8 DEF Types, Ends
<1>15. Waiting'
  <2>1. pc'[t] \in {"idle", "forget"} /\ \A u \in Threads : u # t => pc'[u] = pc[u]
    BY <1>1 DEF Types
  <2>2. ASSUME NEW u \in Threads, u # t PROVE /\ pc'[u] = "response" => conn(u)' \in Conns
                                           /\ result'[u] = result[u]
    <3>1. process[u] \in Processes  OBVIOUS
    <3>. QED  BY <1>1, <1>4, <1>7, <2>1, <2>2, <3>1 DEF Types, Waiting
  <2>. QED  BY <1>1, <2>1, <2>2 DEF Waiting, InCall
<1>. QED  BY <1>10, <1>11, <1>12, <1>13, <1>14, <1>15

-----------------------------------------------------------------------------
LEMMA StutterInv == Inv /\ UNCHANGED vars => Inv'
<1>. SUFFICES ASSUME Inv, UNCHANGED vars PROVE Inv'  OBVIOUS
<1>1. UNCHANGED <<mutex, sn_handle, pc, result, called, owner, serverEnd, requests, answers, dpc,
                  serving, pending, executed>>
  BY DEF vars
<1>2. Types' /\ Locked' /\ Handles' /\ Ends' /\ Waiting'
  BY <1>1 DEF Inv, Types, Locked, Holds, Handles, Ends, Waiting, InCall
<1>3. Asked' /\ Told' /\ LastParts'  BY <1>1, OnWire DEF LessOn, Waits
<1>. QED  BY <1>2, <1>3 DEF Inv

LEMMA WriteInv == ASSUME Inv, NEW t \in Threads, Write(t) PROVE Inv'
BY WriteSendsInv, WriteFailsInv

LEMMA ResponseInv == ASSUME Inv, NEW t \in Threads, Response(t) PROVE Inv'
BY ResponseMoreInv, ResponseLastInv

LEMMA StepInv == Inv /\ [Next]_vars => Inv'
<1>. SUFFICES ASSUME Inv, [Next]_vars PROVE Inv'  OBVIOUS
<1>1. ASSUME NEW t \in Threads, Call(t) \/ Load(t) \/ ThreadStep(t) PROVE Inv'
  BY <1>1, CallInv, LoadInv, LockInv, ConnectInv, ConnectFailsInv, WriteInv, ResponseInv,
     ResponseFailsInv, ForgetInv
  DEF ThreadStep
<1>2. ASSUME Daemon \/ Crash PROVE Inv'
  BY <1>2, mcs_acceptInv, HangUpInv, RefuseInv, DropInv, ExecuteInv, AnswerInv, mcs_termInv,
     CrashInv
  DEF Daemon
<1>. QED  BY <1>1, <1>2, StutterInv DEF Next

LEMMA InitInv == Init => Inv
<1>. SUFFICES ASSUME Init PROVE Inv  OBVIOUS
<1>. USE DEF Init, ClientInit, DaemonInit
<1>1. Types  BY DEF Types
<1>2. Locked /\ Handles /\ Ends /\ Waiting  BY DEF Locked, Holds, Handles, Ends, Waiting, InCall
<1>3. Asked /\ Told /\ LastParts  BY DEF Asked, AskedOn, Told, ToldOn, LastParts, LastOn
<1>. QED  BY <1>1, <1>2, <1>3 DEF Inv

(* What clients and daemon know of each other, in every state (Inv).       *)
THEOREM CommandsInvariant == Spec => []Inv
BY InitInv, StepInv, PTL DEF Spec

(* A thread that waits in mcc_response finds nothing but parts of the      *)
(* answer to its own request, which was executed: connections are closed   *)
(* in silence, made again and shared by the threads of a process, and      *)
(* daemons end in the middle of an answer.                                 *)
AnswersAreOwn ==
  \A t \in Threads : pc[t] = "response" =>
    /\ \A i \in 1..Len(answers[conn(t)]) : answers[conn(t)][i].number = called[t]
    /\ answers[conn(t)] # <<>> => executed[t] = <<called[t]>>

LEMMA OwnAnswers == Inv => AnswersAreOwn
<1>. SUFFICES ASSUME Inv, NEW t \in Threads, pc[t] = "response"
              PROVE  /\ \A i \in 1..Len(answers[conn(t)]) : answers[conn(t)][i].number = called[t]
                     /\ answers[conn(t)] # <<>> => executed[t] = <<called[t]>>
  BY DEF AnswersAreOwn
<1>. USE DEF Inv
<1>1. conn(t) \in Conns /\ answers[conn(t)] \in Seq(PartSet)  BY DEF Waiting, Types
<1>2. CASE answers[conn(t)] = <<>>  BY <1>2
<1>3. CASE answers[conn(t)] # <<>>
  <2>1. PICK u \in Threads :
          Waits(u, conn(t)) /\ executed[u] = <<called[u]>> /\ Of(answers[conn(t)], called[u])
    BY <1>1, <1>3 DEF Told, ToldOn
  <2>2. u = t  BY <1>1, <2>1, Alone DEF Waits, Holds
  <2>. QED  BY <2>1, <2>2 DEF Of
<1>. QED  BY <1>2, <1>3

THEOREM OnlyOwnAnswers == Spec => []AnswersAreOwn
BY CommandsInvariant, OwnAnswers, PTL

-----------------------------------------------------------------------------
(* The refinement.                                                         *)

OnceVars == <<called, InCall, executed, result>>

LEMMA OnceStutter ==
  ASSUME UNCHANGED <<called, executed, result>>,
         \A t \in Threads : pc'[t] \in {"idle", "forget"} <=> pc[t] \in {"idle", "forget"}
  PROVE  UNCHANGED OnceVars
BY DEF OnceVars, InCall

LEMMA OnceReturn ==
  ASSUME Types, NEW t \in Threads, pc[t] \notin {"idle", "forget"},
         NEW label, label \in {"idle", "forget"}, pc' = [pc EXCEPT ![t] = label],
         UNCHANGED <<called, executed>>,
         NEW r, r = Failed \/ (r = called[t] /\ executed[t] # <<>>),
         result' = [result EXCEPT ![t] = r]
  PROVE  Once!Return(t)
<1>1. t \in InCall /\ InCall' = InCall \ {t}  BY DEF InCall, Types
<1>. QED  BY <1>1 DEF Once!Return, Once!IsExecuted, Once!Failed

(* A call that fails returns, or goes on to lock the mutex once more.      *)
LEMMA OnceFails ==
  ASSUME Inv, NEW t \in Threads, pc[t] \notin {"idle", "forget"}, NEW c, Fail(t, c),
         UNCHANGED <<called, executed, result>>
  PROVE  Once!Return(t) \/ UNCHANGED OnceVars
<1>1. CASE pc' = [pc EXCEPT ![t] = "idle"]
  <2>1. result' = [result EXCEPT ![t] = Failed]  BY DEF Inv, Types, Waiting, InCall
  <2>. QED  BY <1>1, <2>1, OnceReturn DEF Inv
<1>2. CASE pc' = [pc EXCEPT ![t] = "relock"]
  BY <1>2, OnceStutter DEF Inv, Types
<1>. QED  BY <1>1, <1>2 DEF Fail

LEMMA OnceNextThread ==
  ASSUME Inv, NEW t \in Threads, Call(t) \/ Load(t) \/ ThreadStep(t)
  PROVE  Once!Next \/ UNCHANGED OnceVars
<1>. USE DEF Inv
<1>1. CASE Call(t)
  <2>1. /\ t \notin InCall /\ called' = [called EXCEPT ![t] = @ + 1]
        /\ executed' = [executed EXCEPT ![t] = <<>>]
        /\ result' = [result EXCEPT ![t] = Failed] /\ pc' = [pc EXCEPT ![t] = "lock"]
    BY <1>1 DEF Call, InCall
  <2>2. InCall' = InCall \union {t}  BY <2>1 DEF Types, InCall
  <2>3. Once!Call(t)  BY <2>1, <2>2 DEF Once!Call, Once!Failed
  <2>. QED  BY <2>3 DEF Once!Next
<1>2. CASE Load(t)  BY <1>2, OnceStutter DEF Load
<1>3. CASE Lock(t)
  <2>1. pc[t] = "lock" /\ UNCHANGED <<called, executed, result>>  BY <1>3 DEF Lock
  <2>2. CASE \E c \in Commands[library] \cap Uses(t) : Fail(t, c)
    BY <2>1, <2>2, OnceFails DEF Once!Next
  <2>3. CASE pc' = [pc EXCEPT ![t] = IF conn(t) = NoConn THEN "connect" ELSE "write"]
    BY <2>1, <2>3, OnceStutter DEF Types
  <2>. QED  BY <1>3, <2>2, <2>3 DEF Lock
<1>4. CASE Connect(t)
  BY <1>4, OnceStutter DEF Connect, Types
<1>5. CASE ConnectFails(t)
  <2>1. /\ pc[t] \notin {"idle", "forget"} /\ UNCHANGED <<called, executed, result>>
        /\ Fail(t, command[t])
    BY <1>5 DEF ConnectFails
  <2>. QED  BY <2>1, OnceFails DEF Once!Next
<1>6. CASE Write(t)
  <2>1. pc[t] \in {"write", "rewrite"} /\ UNCHANGED <<called, executed, result>>  BY <1>6 DEF Write
  <2>2. CASE Fail(t, command[t])  BY <2>1, <2>2, OnceFails DEF Once!Next
  <2>3. CASE \E label \in {"response", "reconnect"} : pc' = [pc EXCEPT ![t] = label]
    BY <2>1, <2>3, OnceStutter DEF Types
  <2>. QED  BY <1>6, <2>2, <2>3 DEF Write
<1>7. CASE Response(t)
  <2>. DEFINE part == Head(answers[conn(t)])
  <2>1. /\ pc[t] = "response" /\ answers[conn(t)] # <<>> /\ UNCHANGED <<called, executed>>
    BY <1>7 DEF Response
  <2>2. CASE part.more  BY <1>7, <2>1, <2>2, OnceStutter DEF Response
  <2>3. CASE ~part.more
    <3>1. /\ \E label \in {"idle", "forget"} : pc' = [pc EXCEPT ![t] = label]
          /\ result' = [result EXCEPT ![t] = part.number]
      BY <1>7, <2>3 DEF Response, Answered, Returned
    <3>2. part.number = called[t] /\ executed[t] # <<>>
      <4>1. answers[conn(t)] \in Seq(PartSet)  BY <2>1 DEF Waiting, Types
      <4>2. part = answers[conn(t)][1] /\ 1 \in 1..Len(answers[conn(t)])  BY <2>1, <4>1, PartsRead
      <4>3. /\ answers[conn(t)][1].number = called[t]
            /\ executed[t] = <<called[t]>>
        BY <2>1, <4>2, OwnAnswers DEF AnswersAreOwn
      <4>. QED  BY <4>2, <4>3, OneRequest
    <3>. QED  BY <2>1, <3>1, <3>2, OnceReturn DEF Once!Next
  <2>. QED  BY <2>2, <2>3
<1>8. CASE ResponseFails(t)
  <2>1. /\ pc[t] \notin {"idle", "forget"} /\ UNCHANGED <<called, executed, result>>
        /\ Fail(t, command[t])
    BY <1>8 DEF ResponseFails
  <2>. QED  BY <2>1, OnceFails DEF Once!Next
<1>9. CASE Forget(t)  BY <1>9, OnceStutter DEF Forget, Types
<1>. QED  BY <1>1, <1>2, <1>3, <1>4, <1>5, <1>6, <1>7, <1>8, <1>9 DEF ThreadStep

LEMMA OnceNextDaemon ==
  ASSUME Inv, Daemon \/ Crash
  PROVE  Once!Next \/ UNCHANGED OnceVars
<1>1. CASE ~Execute
  <2>1. UNCHANGED <<pc, called, executed, result>>
    BY <1>1 DEF Daemon, mcs_accept, HangUp, Refuse, Drop, Answer, mcs_term, Crash
  <2>. QED  BY <2>1, OnceStutter
<1>2. CASE Execute
  <2>1. /\ serving \in Conns /\ requests[serving] # <<>> /\ UNCHANGED <<pc, called, result>>
        /\ executed' = [executed EXCEPT ![Head(requests[serving]).thread] =
                          Append(@, Head(requests[serving]).number)]
    BY <1>2 DEF Execute, Received, Inv, Types, Ends
  <2>2. PICK u \in Threads :
          /\ Head(requests[serving]).thread = u /\ Waits(u, serving)
          /\ Head(requests[serving]).number = called[u] /\ executed[u] = <<>>
    BY <2>1 DEF Inv, Asked, AskedOn
  <2>3. executed' = [executed EXCEPT ![u] = <<called[u]>>]
    <3>1. Append(executed[u], called[u]) = <<called[u]>>  BY <2>2, OneRequest
    <3>2. executed' = [executed EXCEPT ![u] = Append(@, called[u])]  BY <2>1, <2>2
    <3>. QED  BY <3>1, <3>2 DEF Inv, Types
  <2>4. u \in InCall /\ UNCHANGED InCall  BY <2>1, <2>2 DEF InCall, Waits
  <2>5. Once!Execute(u)  BY <2>1, <2>2, <2>3, <2>4 DEF Once!Execute, Once!IsExecuted
  <2>. QED  BY <2>5 DEF Once!Next
<1>. QED  BY <1>1, <1>2

(* Every command of rgather.c and rrepos.c is executed at most once, while *)
(* its call waits, and a call returns its own outcome or an error: each    *)
(* step of clients, connections and daemon is a step of AtMostOnce, or     *)
(* none.                                                                   *)
THEOREM CommandsAreAtMostOnce == Spec => IsAtMostOnce
<1>1. Init => Once!Init
  <2>. SUFFICES ASSUME Init PROVE Once!Init  OBVIOUS
  <2>1. InCall = {}  BY DEF Init, ClientInit, InCall
  <2>. QED  BY <2>1 DEF Init, ClientInit, DaemonInit, Once!Init, Once!Failed
<1>2. Inv /\ [Next]_vars => [Once!Next]_OnceVars
  <2>. SUFFICES ASSUME Inv, [Next]_vars PROVE Once!Next \/ UNCHANGED OnceVars  OBVIOUS
  <2>1. CASE UNCHANGED vars  BY <2>1, OnceStutter DEF vars
  <2>. QED  BY <2>1, OnceNextThread, OnceNextDaemon DEF Next
<1>. QED  BY <1>1, <1>2, CommandsInvariant, PTL DEF Spec, IsAtMostOnce, Once!Spec, OnceVars
=============================================================================
