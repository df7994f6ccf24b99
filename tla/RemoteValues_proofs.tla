------------------------- MODULE RemoteValues_proofs ------------------------
(***************************************************************************)
(* Proofs about the path of values from gatherd to reposd (rrepos_put,     *)
(* comms/rcclt_ip.c, comms/rcserv_ip.c, reposd.c), for any clients, any    *)
(* number of connections, values and failures, and any limit.              *)
(***************************************************************************)
EXTENDS RemoteValues, FiniteSetTheorems, SequenceTheorems, NaturalsInduction, WellFoundedInduction,
        TLAPS

USE RemoteValuesAssumption
DEF GotoC, GotoA, GotoT, clientvars, connvars, acceptvars, threadvars, NoConn, Header

-----------------------------------------------------------------------------
(* The inductive invariant.                                                *)

Types ==
  /\ cpc \in [Clients -> {"idle", "connect", "length", "contents", "gone"}]
  /\ srvhdl \in [Clients -> Conns \union {NoConn}]
  /\ wrote \in [Clients -> SUBSET {"length", "contents"}]
  /\ value \in [Clients -> Nat]
  /\ owner \in [Conns -> Clients \union {NoClient}]
  /\ wire \in [Conns -> Seq(Nat)]
  /\ serverEnd \in [Conns -> {"none", "backlog", "open", "closed"}]
  /\ reset \subseteq Conns
  /\ mutex \in Conns \union {NoConn}
  /\ connects \in Int
  /\ apc \in {"accept", "count", "limit", "waiting", "woken", "ended"}
  /\ ahdl \in Conns \union {NoConn}
  /\ tpc \in [Conns -> {"none", "lock", "poll", "body", "put", "close", "ended"}]
  /\ is64 \subseteq Conns
  /\ inHand \in [Conns -> Nat]
  /\ stored \in [Clients -> Seq(Nat)]

(* The two ends of a connection.                                           *)
Ends ==
  \A k \in Conns :
    /\ serverEnd[k] # "none" => owner[k] \in Clients
    /\ ~Live(k) => wire[k] = <<>>
    /\ serverEnd[k] \in {"none", "backlog"} => tpc[k] = "none"
    /\ serverEnd[k] = "open" => tpc[k] = "none" \/ Alive(k)
    /\ serverEnd[k] = "closed" => tpc[k] = "ended"
    /\ k \in reset => serverEnd[k] = "closed"

(* The accept loop holds a connection that has no thread yet.              *)
Accepted ==
  /\ apc \in {"accept", "waiting", "woken"} => ahdl = NoConn
  /\ apc = "count" => ahdl # NoConn
  /\ apc \in {"count", "ended"} /\ ahdl # NoConn => serverEnd[ahdl] = "open" /\ tpc[ahdl] = "none"

(* A client makes a connection when the server has closed the last one: it *)
(* has one that the server has not closed, at most, and knows it.          *)
OneConnection ==
  /\ \A c \in Clients :
       /\ srvhdl[c] # NoConn => owner[srvhdl[c]] = c /\ serverEnd[srvhdl[c]] # "none"
       /\ cpc[c] \in {"length", "contents"} => srvhdl[c] # NoConn
  /\ \A k \in Conns :
       Live(k) /\ cpc[owner[k]] # "gone" => srvhdl[owner[k]] = k /\ cpc[owner[k]] # "connect"
  /\ \A k, l \in Conns : Live(k) /\ Live(l) /\ owner[k] = owner[l] => k = l

(* Lengths and contents alternate on the wire, which begins with one or    *)
(* the other: what a thread takes for a length is one (rcserv_ip.c reads a *)
(* length, then as much).                                                  *)
FromLength(w)   == \A i \in 1..Len(w) : w[i] = Header <=> i % 2 = 1
FromContents(w) == \A i \in 1..Len(w) : w[i] = Header <=> i % 2 = 0
IsOdd(w)        == Len(w) % 2 = 1

Framed == \A k \in Conns : IF tpc[k] = "body" THEN FromContents(wire[k]) ELSE FromLength(wire[k])

(* What the server does not close ends with a length exactly when the      *)
(* client is going to write the contents.                                  *)
EndsWithLength(k) == IF tpc[k] = "body" THEN ~IsOdd(wire[k]) ELSE IsOdd(wire[k])
Continued ==
  \A k \in Conns :
    Live(k) /\ cpc[owner[k]] # "gone" => (EndsWithLength(k) <=> cpc[owner[k]] = "contents")

HandsFull == \A k \in Conns : inHand[k] # NoConn <=> tpc[k] = "put"

(* A thread has seen the mark of 64-bit values only from clients that make *)
(* them.                                                                   *)
MarksAreTrue == \A k \in is64 : owner[k] \in Wide /\ Alive(k)

(* The numbers of the values that are on their way or stored are those of  *)
(* values that were sent.                                                  *)
UpTo(w, n) == \A i \in 1..Len(w) : w[i] <= n
Busy(c)    == cpc[c] \in {"connect", "length", "contents"}
Newest(c)  == IF Busy(c) THEN value[c] - 1 ELSE value[c]
OnlySent ==
  /\ \A c \in Clients : (Busy(c) => value[c] > 0) /\ UpTo(stored[c], Newest(c))
  /\ \A k \in Conns : Live(k) => UpTo(wire[k], Newest(owner[k])) /\ inHand[k] <= Newest(owner[k])

Consistent ==
  /\ Types /\ Ends /\ Accepted /\ OneConnection
  /\ Framed /\ Continued /\ HandsFull /\ MarksAreTrue /\ OnlySent

Inv == Consistent /\ ConnectsCounted

-----------------------------------------------------------------------------
(* What is on the wire, when it is written and read.                       *)

LEMMA NothingWritten ==
  FromLength(<<>>) /\ FromContents(<<>>) /\ ~IsOdd(<<>>) /\ \A n \in Nat : UpTo(<<>>, n)
BY DEF FromLength, FromContents, IsOdd, UpTo

LEMMA WireWritten ==
  ASSUME NEW w \in Seq(Nat), NEW x \in Nat
  PROVE  /\ Append(w, x) \in Seq(Nat)
         /\ IsOdd(Append(w, x)) <=> ~IsOdd(w)
         /\ FromLength(w) /\ (x = Header <=> ~IsOdd(w)) => FromLength(Append(w, x))
         /\ FromContents(w) /\ (x = Header <=> IsOdd(w)) => FromContents(Append(w, x))
         /\ \A n \in Nat : UpTo(w, n) /\ x <= n => UpTo(Append(w, x), n)
<1>1. /\ Append(w, x) \in Seq(Nat) /\ Len(w) \in Nat /\ Len(Append(w, x)) = Len(w) + 1
      /\ \A i \in 1..Len(w) : Append(w, x)[i] = w[i]
      /\ Append(w, x)[Len(w) + 1] = x
  OBVIOUS
<1>2. \A i \in 1..Len(w) + 1 : i \in 1..Len(w) \/ i = Len(w) + 1
  BY <1>1
<1>3. IsOdd(Append(w, x)) <=> ~IsOdd(w)  BY <1>1 DEF IsOdd
<1>4. Len(w) + 1 \in 1..Len(w) + 1  BY <1>1
<1>5. FromLength(w) /\ (x = Header <=> ~IsOdd(w)) => FromLength(Append(w, x))
  BY <1>1, <1>2, <1>4 DEF FromLength, IsOdd
<1>6. FromContents(w) /\ (x = Header <=> IsOdd(w)) => FromContents(Append(w, x))
  BY <1>1, <1>2, <1>4 DEF FromContents, IsOdd
<1>7. \A n \in Nat : UpTo(w, n) /\ x <= n => UpTo(Append(w, x), n)  BY <1>1, <1>2 DEF UpTo
<1>. QED  BY <1>1, <1>3, <1>5, <1>6, <1>7

LEMMA WireRead ==
  ASSUME NEW w \in Seq(Nat), w # <<>>
  PROVE  /\ Head(w) \in Nat /\ Tail(w) \in Seq(Nat)
         /\ IsOdd(Tail(w)) <=> ~IsOdd(w)
         /\ FromLength(w) => FromContents(Tail(w)) /\ Head(w) = Header
         /\ FromContents(w) => FromLength(Tail(w)) /\ Head(w) # Header
         /\ \A n \in Nat : UpTo(w, n) => UpTo(Tail(w), n) /\ Head(w) <= n
<1>1. /\ Len(w) \in Nat /\ Len(w) >= 1 /\ Head(w) = w[1] /\ Head(w) \in Nat
      /\ Tail(w) \in Seq(Nat) /\ Len(Tail(w)) = Len(w) - 1
      /\ \A i \in 1..Len(w) - 1 : Tail(w)[i] = w[i + 1]
  OBVIOUS
<1>2. \A i \in 1..Len(w) - 1 : i + 1 \in 1..Len(w) /\ (i % 2 = 1 <=> (i + 1) % 2 = 0)
  BY <1>1
<1>3. 1 \in 1..Len(w) /\ 1 % 2 = 1  BY <1>1
<1>4. FromLength(w) => FromContents(Tail(w))  BY <1>1, <1>2 DEF FromLength, FromContents
<1>5. FromContents(w) => FromLength(Tail(w))  BY <1>1, <1>2 DEF FromLength, FromContents
<1>6. (FromLength(w) => Head(w) = Header) /\ (FromContents(w) => Head(w) # Header)
  BY <1>1, <1>3 DEF FromLength, FromContents
<1>7. IsOdd(Tail(w)) <=> ~IsOdd(w)  BY <1>1 DEF IsOdd
<1>8. \A n \in Nat : UpTo(w, n) => UpTo(Tail(w), n) /\ Head(w) <= n  BY <1>1, <1>2, <1>3 DEF UpTo
<1>. QED  BY <1>1, <1>4, <1>5, <1>6, <1>7, <1>8

LEMMA UpToMore ==
  ASSUME NEW w \in Seq(Nat), NEW m \in Int, NEW n \in Int, m <= n, UpTo(w, m)
  PROVE  UpTo(w, n)
<1>1. \A i \in 1..Len(w) : w[i] \in Nat  OBVIOUS
<1>. QED  BY <1>1 DEF UpTo

LEMMA ConnsAreNumbers == Conns \subseteq Nat /\ NoConn \notin Conns /\ IsFiniteSet(Conns)
<1>1. MaxConns \in Nat  OBVIOUS
<1>. QED  BY <1>1, FS_Interval DEF Conns

(* More values are sent, nothing else changes: what is on its way is still *)
(* among them.                                                             *)
LEMMA Raised ==
  ASSUME Consistent, stored' = stored, wire' = wire, inHand' = inHand, owner' = owner, serverEnd' = serverEnd,
         \A d \in Clients : Newest(d) \in Int /\ Newest(d)' \in Int /\ Newest(d) <= Newest(d)',
         \A d \in Clients : Busy(d)' => value'[d] > 0
  PROVE  OnlySent'
<1>1. ASSUME NEW d \in Clients PROVE UpTo(stored'[d], Newest(d)')
  <2>1. stored[d] \in Seq(Nat) /\ UpTo(stored[d], Newest(d))  BY DEF Consistent, Types, OnlySent
  <2>. QED  BY <2>1, UpToMore
<1>2. ASSUME NEW l \in Conns, Live(l)
      PROVE  UpTo(wire'[l], Newest(owner[l])') /\ inHand'[l] <= Newest(owner[l])'
  <2>1. owner[l] \in Clients /\ wire[l] \in Seq(Nat) /\ inHand[l] \in Nat
    BY <1>2 DEF Consistent, Types, Ends, Live
  <2>2. UpTo(wire[l], Newest(owner[l])) /\ inHand[l] <= Newest(owner[l])
    BY <1>2 DEF Consistent, OnlySent
  <2>3. UpTo(wire[l], Newest(owner[l])')  BY <2>1, <2>2, UpToMore
  <2>. QED  BY <2>1, <2>2, <2>3
<1>. QED  BY <1>1, <1>2 DEF OnlySent, Live

(* A client writes to the only connection it has that is not closed.       *)
LEMMA Writing ==
  ASSUME Consistent, NEW c \in Clients, cpc[c] \in {"length", "contents"}, NEW x \in Nat,
         wire' = Written(srvhdl[c], x)
  PROVE  /\ srvhdl[c] \in Conns /\ owner[srvhdl[c]] = c
         /\ wire' \in [Conns -> Seq(Nat)]
         /\ \A l \in Conns :
              wire'[l] = IF l = srvhdl[c] /\ Live(l) THEN Append(wire[l], x) ELSE wire[l]
         /\ \A l \in Conns : Live(l) /\ owner[l] = c => l = srvhdl[c]
<1>1. srvhdl[c] \in Conns /\ owner[srvhdl[c]] = c /\ serverEnd[srvhdl[c]] # "none"
  BY DEF Consistent, Types, OneConnection
<1>2. srvhdl[c] \in reset \/ serverEnd[srvhdl[c]] = "closed" <=> ~Live(srvhdl[c])
  BY <1>1 DEF Consistent, Types, Ends, Live
<1>3. wire \in [Conns -> Seq(Nat)] /\ Append(wire[srvhdl[c]], x) \in Seq(Nat)
  BY <1>1 DEF Consistent, Types
<1>4. wire' \in [Conns -> Seq(Nat)]  BY <1>1, <1>3 DEF Written
<1>5. \A l \in Conns : Live(l) /\ owner[l] = c => l = srvhdl[c]  BY DEF Consistent, OneConnection
<1>. QED  BY <1>1, <1>2, <1>3, <1>4, <1>5 DEF Written

LEMMA LeastNumber ==
  ASSUME NEW S, S \subseteq Nat, S # {}
  PROVE  \E n \in S : \A m \in S : n <= m
<1>1. PICK n \in S : \A m \in S : ~ <<m, n>> \in OpToRel(<, Nat)
  BY WFMin, NatLessThanWellFounded, Zenon
<1>2. ASSUME NEW m \in S PROVE n <= m
  <2>1. ~ m < n /\ m \in Nat /\ n \in Nat  BY <1>1, Zenon DEF OpToRel
  <2>. QED  BY <2>1
<1>. QED  BY <1>2

LEMMA rrepos_putInv ==
  ASSUME Consistent, NEW c \in Clients, rrepos_put(c)
  PROVE  Consistent'
<1>1. Types'
  <2>1. \A n \in Nat : n + 1 \in Nat  OBVIOUS
  <2>2. value' \in [Clients -> Nat]  BY <2>1 DEF Consistent, Types, rrepos_put
  <2>. QED  BY <2>2 DEF Consistent, Types, rrepos_put
<1>2. Ends'
  BY ConnsAreNumbers DEF Consistent, Types, Ends, Accepted, OneConnection, rrepos_put, Live, Alive
<1>3. Accepted'  BY ConnsAreNumbers DEF Consistent, Types, Accepted, Ends, rrepos_put
<1>4. OneConnection'
  BY ConnsAreNumbers DEF Consistent, Types, OneConnection, Ends, rrepos_put, Live
<1>5. Framed'
  BY ConnsAreNumbers DEF Consistent, Types, Framed, Ends, OneConnection, Continued, rrepos_put, Live
<1>6. Continued'
  BY ConnsAreNumbers
  DEF Consistent, Types, Continued, Ends, OneConnection, rrepos_put, Live, EndsWithLength
<1>7. HandsFull'  BY ConnsAreNumbers DEF Consistent, Types, HandsFull, Framed, Ends, rrepos_put
<1>8. MarksAreTrue'  BY ConnsAreNumbers DEF Consistent, Types, MarksAreTrue, Ends, rrepos_put, Alive
<1>9. OnlySent'
  <2>1. \A d \in Clients : Newest(d)' = Newest(d) /\ (Busy(d)' => value'[d] > 0)
    BY DEF Consistent, Types, OnlySent, rrepos_put, Newest, Busy
  <2>2. \A l \in Conns : Live(l) => owner[l] \in Clients  BY DEF Consistent, Ends, Live
  <2>. QED  BY <2>1, <2>2 DEF Consistent, OnlySent, rrepos_put, Live
<1>. QED  BY <1>1, <1>2, <1>3, <1>4, <1>5, <1>6, <1>7, <1>8, <1>9 DEF Consistent

LEMMA ConnectInv ==
  ASSUME Consistent, NEW c \in Clients, Connect(c)
  PROVE  Consistent'
<1>1. PICK k \in Conns :
        /\ serverEnd[k] = "none"
        /\ srvhdl' = [srvhdl EXCEPT ![c] = k]
        /\ owner' = [owner EXCEPT ![k] = c]
        /\ reset' = reset \ {srvhdl[c]}
        /\ serverEnd' = [serverEnd EXCEPT ![k] = "backlog"]
  <2>1. \E k \in Unused : \A l \in Unused : k <= l
    BY ConnsAreNumbers, LeastNumber DEF Connect, Unused
  <2>. QED  BY <2>1 DEF Connect, Unused
<1>2. /\ cpc[c] = "connect" /\ cpc' = [cpc EXCEPT ![c] = "length"]
      /\ UNCHANGED <<retried, wrote, value, refused, wire, mutex, connects, apc, ahdl, tpc, is64, inHand, stored>>
  BY DEF Connect
<1>3. wire[k] = <<>> /\ tpc[k] = "none" /\ k \notin is64 /\ k # NoConn /\ inHand[k] = 0
  BY <1>1, ConnsAreNumbers DEF Consistent, Types, Ends, Live, MarksAreTrue, Alive, HandsFull
<1>4. \A l \in Conns : Live(l) => owner[l] # c  BY <1>1, <1>2 DEF Consistent, OneConnection
<1>5. \A l \in Conns : Live(l)' <=> Live(l) \/ l = k  BY <1>1 DEF Consistent, Types, Live
<1>6. Types'          BY <1>1, <1>2 DEF Consistent, Types
<1>7. Ends'
  <2>1. /\ owner'[k] = c /\ serverEnd'[k] = "backlog" /\ k \notin reset'
        /\ \A l \in Conns : l # k => owner'[l] = owner[l] /\ serverEnd'[l] = serverEnd[l]
    BY <1>1 DEF Consistent, Types, Ends
  <2>. QED  BY <1>1, <1>2, <1>3, <1>5, <2>1 DEF Consistent, Ends, Alive
<1>8. Accepted'       BY <1>1, <1>2, ConnsAreNumbers DEF Consistent, Types, Accepted
<1>9. OneConnection'  BY <1>1, <1>2, <1>3, <1>4, <1>5 DEF Consistent, Types, OneConnection
<1>10. Framed'        BY <1>1, <1>2 DEF Consistent, Types, Framed
<1>11. Continued'
  BY <1>1, <1>2, <1>3, <1>4, <1>5, NothingWritten DEF Consistent, Types, Continued, EndsWithLength
<1>12. HandsFull'     BY <1>2 DEF Consistent, HandsFull
<1>13. MarksAreTrue'  BY <1>1, <1>2, <1>3 DEF Consistent, Types, MarksAreTrue, Alive
<1>14. OnlySent'
  <2>1. \A d \in Clients : Newest(d)' = Newest(d) /\ (Busy(d)' => value'[d] > 0)
    BY <1>2 DEF Consistent, Types, OnlySent, Newest, Busy
  <2>2. Newest(c) \in Nat  BY <1>2 DEF Consistent, Types, OnlySent, Newest, Busy
  <2>3. UpTo(wire[k], Newest(c)) /\ inHand[k] <= Newest(c)  BY <1>3, <2>2, NothingWritten
  <2>4. \A l \in Conns : Live(l) => owner[l] \in Clients  BY DEF Consistent, Ends, Live
  <2>5. \A l \in Conns : l # k => owner'[l] = owner[l]  BY <1>1 DEF Consistent, Types
  <2>6. owner'[k] = c  BY <1>1 DEF Consistent, Types
  <2>. QED  BY <1>2, <1>5, <2>1, <2>3, <2>4, <2>5, <2>6 DEF Consistent, OnlySent
<1>. QED  BY <1>6, <1>7, <1>8, <1>9, <1>10, <1>11, <1>12, <1>13, <1>14 DEF Consistent

LEMMA ConnectFailsInv ==
  ASSUME Consistent, NEW c \in Clients, ConnectFails(c)
  PROVE  Consistent'
<1>1. Types'  BY ConnsAreNumbers DEF Consistent, Types, OneConnection, ConnectFails, Return
<1>2. Ends'
  BY ConnsAreNumbers
  DEF Consistent, Types, Ends, Accepted, OneConnection, ConnectFails, Return, Live, Alive
<1>3. Accepted'  BY ConnsAreNumbers DEF Consistent, Types, Accepted, Ends, ConnectFails, Return
<1>4. OneConnection'
  BY ConnsAreNumbers DEF Consistent, Types, OneConnection, Ends, ConnectFails, Return, Live
<1>5. Framed'
  BY ConnsAreNumbers
  DEF Consistent, Types, Framed, Ends, OneConnection, Continued, ConnectFails, Return, Live
<1>6. Continued'
  BY ConnsAreNumbers
  DEF Consistent, Types, Continued, Ends, OneConnection, ConnectFails, Return, Live, EndsWithLength
<1>7. HandsFull'
  BY ConnsAreNumbers DEF Consistent, Types, HandsFull, Framed, Ends, ConnectFails, Return
<1>8. MarksAreTrue'
  BY ConnsAreNumbers DEF Consistent, Types, MarksAreTrue, Ends, ConnectFails, Return, Alive
<1>9. OnlySent'
  <2>1. \A d \in Clients : Newest(d) \in Int /\ Newest(d)' \in Int /\ Newest(d) <= Newest(d)'
    BY DEF Consistent, Types, ConnectFails, Return, Newest, Busy
  <2>2. \A d \in Clients : Busy(d)' => value'[d] > 0
    BY DEF Consistent, Types, OnlySent, ConnectFails, Return, Busy
  <2>. QED  BY <2>1, <2>2, Raised DEF ConnectFails, connvars, threadvars
<1>. QED  BY <1>1, <1>2, <1>3, <1>4, <1>5, <1>6, <1>7, <1>8, <1>9 DEF Consistent

LEMMA WriteLengthInv ==
  ASSUME Consistent, NEW c \in Clients, WriteLength(c)
  PROVE  Consistent'
<1>. PICK k \in Conns : k = srvhdl[c]
  <2>1. cpc[c] = "length"  BY DEF WriteLength
  <2>. QED  BY <2>1 DEF Consistent, Types, OneConnection
<1>1. /\ cpc[c] = "length" /\ cpc' = [cpc EXCEPT ![c] = "contents"]
      /\ wrote' \in [Clients -> SUBSET {"length", "contents"}]
      /\ wire' = Written(k, Header)
      /\ UNCHANGED <<srvhdl, value, owner, serverEnd, reset, mutex, connects, apc, ahdl, tpc, is64, inHand, stored>>
  BY DEF Consistent, Types, WriteLength, Accepts
<1>2. /\ k \in Conns /\ owner[k] = c
      /\ wire' \in [Conns -> Seq(Nat)]
      /\ \A l \in Conns : wire'[l] = IF l = k /\ Live(l) THEN Append(wire[l], Header) ELSE wire[l]
      /\ \A l \in Conns : Live(l) /\ owner[l] = c => l = k
  BY <1>1, Writing, Header \in Nat
<1>3. ASSUME Live(k)
      PROVE  /\ EndsWithLength(k)'
             /\ IF tpc[k] = "body" THEN FromContents(wire'[k]) ELSE FromLength(wire'[k])
             /\ UpTo(wire'[k], Newest(c))
  <2>1. wire'[k] = Append(wire[k], Header) /\ wire[k] \in Seq(Nat)
    BY <1>2, <1>3 DEF Consistent, Types
  <2>2. ~EndsWithLength(k)  BY <1>1, <1>2, <1>3 DEF Consistent, Continued
  <2>3. IF tpc[k] = "body" THEN FromContents(wire[k]) ELSE FromLength(wire[k])
    BY <1>2 DEF Consistent, Framed
  <2>4. UpTo(wire[k], Newest(c)) /\ Newest(c) \in Nat
    BY <1>1, <1>2, <1>3 DEF Consistent, Types, OnlySent, Newest, Busy
  <2>5. IsOdd(wire'[k]) <=> ~IsOdd(wire[k])  BY <2>1, WireWritten
  <2>6. EndsWithLength(k)'  BY <1>1, <2>2, <2>5 DEF EndsWithLength
  <2>7. UpTo(wire'[k], Newest(c))  BY <2>1, <2>4, WireWritten
  <2>8. CASE tpc[k] = "body"
    <3>1. IsOdd(wire[k])  BY <2>2, <2>8 DEF EndsWithLength
    <3>2. FromContents(wire'[k])  BY <2>1, <2>3, <2>8, <3>1, WireWritten
    <3>. QED  BY <2>6, <2>7, <2>8, <3>2
  <2>9. CASE tpc[k] # "body"
    <3>1. ~IsOdd(wire[k])  BY <2>2, <2>9 DEF EndsWithLength
    <3>2. FromLength(wire'[k])  BY <2>1, <2>3, <2>9, <3>1, WireWritten
    <3>. QED  BY <2>6, <2>7, <2>9, <3>2
  <2>. QED  BY <2>8, <2>9
<1>4. Types'          BY <1>1, <1>2 DEF Consistent, Types
<1>5. Ends'           BY <1>1, <1>2 DEF Consistent, Ends, Live, Alive
<1>6. Accepted'       BY <1>1 DEF Consistent, Accepted
<1>7. OneConnection'
  <2>1. \A d \in Clients : cpc'[d] = IF d = c THEN "contents" ELSE cpc[d]
    BY <1>1 DEF Consistent, Types
  <2>2. \A l \in Conns : Live(l) => owner[l] \in Clients  BY DEF Consistent, Ends, Live
  <2>3. \A l \in Conns : Live(l)' <=> Live(l)  BY <1>1 DEF Live
  <2>4. \A d \in Clients : cpc'[d] \in {"length", "contents"} => srvhdl'[d] # NoConn
    BY <1>1, <2>1 DEF Consistent, OneConnection
  <2>5. \A l \in Conns :
          Live(l) /\ cpc'[owner[l]] # "gone" => srvhdl[owner[l]] = l /\ cpc'[owner[l]] # "connect"
    BY <1>1, <2>1, <2>2 DEF Consistent, OneConnection
  <2>. QED  BY <1>1, <2>3, <2>4, <2>5 DEF Consistent, OneConnection
<1>8. Framed'         BY <1>1, <1>2, <1>3 DEF Consistent, Framed
<1>9. Continued'
  <2>. SUFFICES ASSUME NEW l \in Conns, Live(l), cpc'[owner[l]] # "gone"
                PROVE  EndsWithLength(l)' <=> cpc'[owner[l]] = "contents"
    BY <1>1 DEF Continued, Live
  <2>1. CASE l = k  BY <1>1, <1>2, <1>3, <2>1 DEF Consistent, Types
  <2>2. CASE l # k
    <3>1. owner[l] # c /\ owner[l] \in Clients /\ wire'[l] = wire[l]
      BY <1>2, <2>2 DEF Consistent, Ends, Live
    <3>. QED  BY <1>1, <3>1 DEF Consistent, Types, Continued, EndsWithLength
  <2>. QED  BY <2>1, <2>2
<1>10. HandsFull'     BY <1>1 DEF Consistent, HandsFull
<1>11. MarksAreTrue'  BY <1>1 DEF Consistent, MarksAreTrue, Alive
<1>12. OnlySent'
  <2>1. \A d \in Clients : Newest(d)' = Newest(d) /\ (Busy(d)' => value'[d] > 0)
    BY <1>1 DEF Consistent, Types, OnlySent, Newest, Busy
  <2>2. \A l \in Conns : Live(l) => owner[l] \in Clients  BY DEF Consistent, Ends, Live
  <2>. QED  BY <1>1, <1>2, <1>3, <2>1, <2>2 DEF Consistent, OnlySent, Live
<1>. QED  BY <1>4, <1>5, <1>6, <1>7, <1>8, <1>9, <1>10, <1>11, <1>12 DEF Consistent

LEMMA WriteContentsInv ==
  ASSUME Consistent, NEW c \in Clients, WriteContents(c)
  PROVE  Consistent'
<1>. PICK k \in Conns : k = srvhdl[c]
  <2>1. cpc[c] = "contents"  BY DEF WriteContents
  <2>. QED  BY <2>1 DEF Consistent, Types, OneConnection
<1>1. /\ cpc[c] = "contents"
      /\ \/ cpc' = [cpc EXCEPT ![c] = "connect"] /\ k \in reset
         \/ cpc' = [cpc EXCEPT ![c] = "idle"]
      /\ wrote' \in [Clients -> SUBSET {"length", "contents"}]
      /\ wire' = Written(k, value[c])
      /\ UNCHANGED <<srvhdl, value, owner, serverEnd, reset, mutex, connects, apc, ahdl, tpc, is64, inHand, stored>>
  BY DEF Consistent, Types, WriteContents, Accepts, Return, NothingSent
<1>0. value[c] \in Nat /\ value[c] # Header /\ Newest(c) = value[c] - 1 /\ Newest(c) \in Nat
  BY <1>1 DEF Consistent, Types, OnlySent, Newest, Busy
<1>2. /\ k \in Conns /\ owner[k] = c
      /\ wire' \in [Conns -> Seq(Nat)]
      /\ \A l \in Conns : wire'[l] = IF l = k /\ Live(l) THEN Append(wire[l], value[c]) ELSE wire[l]
      /\ \A l \in Conns : Live(l) /\ owner[l] = c => l = k
  BY <1>0, <1>1, Writing
<1>3. Live(k) => cpc' = [cpc EXCEPT ![c] = "idle"]
  BY <1>1, <1>2 DEF Consistent, Ends, Live
<1>4. ASSUME Live(k)
      PROVE  /\ ~EndsWithLength(k)'
             /\ IF tpc[k] = "body" THEN FromContents(wire'[k]) ELSE FromLength(wire'[k])
             /\ UpTo(wire'[k], value[c])
  <2>1. wire'[k] = Append(wire[k], value[c]) /\ wire[k] \in Seq(Nat)
    BY <1>2, <1>4 DEF Consistent, Types
  <2>2. EndsWithLength(k)  BY <1>1, <1>2, <1>4 DEF Consistent, Continued
  <2>3. IF tpc[k] = "body" THEN FromContents(wire[k]) ELSE FromLength(wire[k])
    BY <1>2 DEF Consistent, Framed
  <2>4. UpTo(wire[k], Newest(c))  BY <1>1, <1>2, <1>4 DEF Consistent, OnlySent
  <2>5. IsOdd(wire'[k]) <=> ~IsOdd(wire[k])  BY <1>0, <2>1, WireWritten
  <2>6. ~EndsWithLength(k)'  BY <1>1, <2>2, <2>5 DEF EndsWithLength
  <2>7. UpTo(wire'[k], value[c])
    <3>1. UpTo(wire[k], value[c])  BY <1>0, <2>1, <2>4, UpToMore
    <3>. QED  BY <1>0, <2>1, <3>1, WireWritten
  <2>8. CASE tpc[k] = "body"
    <3>1. ~IsOdd(wire[k])  BY <2>2, <2>8 DEF EndsWithLength
    <3>2. FromContents(wire'[k])  BY <1>0, <2>1, <2>3, <2>8, <3>1, WireWritten
    <3>. QED  BY <2>6, <2>7, <2>8, <3>2
  <2>9. CASE tpc[k] # "body"
    <3>1. IsOdd(wire[k])  BY <2>2, <2>9 DEF EndsWithLength
    <3>2. FromLength(wire'[k])  BY <1>0, <2>1, <2>3, <2>9, <3>1, WireWritten
    <3>. QED  BY <2>6, <2>7, <2>9, <3>2
  <2>. QED  BY <2>8, <2>9
<1>5. Types'
  <2>1. cpc' \in [Clients -> {"idle", "connect", "length", "contents", "gone"}]
    BY <1>1 DEF Consistent, Types
  <2>. QED  BY <1>1, <1>2, <2>1 DEF Consistent, Types
<1>6. Ends'           BY <1>1, <1>2 DEF Consistent, Ends, Live, Alive
<1>7. Accepted'       BY <1>1 DEF Consistent, Accepted
<1>8. OneConnection'
  <2>1. \A d \in Clients : d # c => cpc'[d] = cpc[d]  BY <1>1 DEF Consistent, Types
  <2>2. cpc'[c] \in {"connect", "idle"} /\ (Live(k) => cpc'[c] = "idle")
    BY <1>1, <1>3 DEF Consistent, Types
  <2>3. \A l \in Conns : Live(l) => owner[l] \in Clients  BY DEF Consistent, Ends, Live
  <2>4. \A l \in Conns : Live(l)' <=> Live(l)  BY <1>1 DEF Live
  <2>5. \A d \in Clients : cpc'[d] \in {"length", "contents"} => srvhdl'[d] # NoConn
    BY <1>1, <2>1, <2>2 DEF Consistent, OneConnection
  <2>6. \A l \in Conns :
          Live(l) /\ cpc'[owner[l]] # "gone" => srvhdl[owner[l]] = l /\ cpc'[owner[l]] # "connect"
    <3>. SUFFICES ASSUME NEW l \in Conns, Live(l), cpc'[owner[l]] # "gone"
                  PROVE  srvhdl[owner[l]] = l /\ cpc'[owner[l]] # "connect"
      OBVIOUS
    <3>1. CASE owner[l] = c  BY <1>1, <1>2, <2>2, <3>1
    <3>2. CASE owner[l] # c  BY <2>1, <2>3, <3>2 DEF Consistent, OneConnection
    <3>. QED  BY <3>1, <3>2
  <2>. QED  BY <1>1, <2>4, <2>5, <2>6 DEF Consistent, OneConnection
<1>9. Framed'         BY <1>1, <1>2, <1>4 DEF Consistent, Framed
<1>10. Continued'
  <2>. SUFFICES ASSUME NEW l \in Conns, Live(l), cpc'[owner[l]] # "gone"
                PROVE  EndsWithLength(l)' <=> cpc'[owner[l]] = "contents"
    BY <1>1 DEF Continued, Live
  <2>1. CASE l = k  BY <1>1, <1>2, <1>4, <2>1 DEF Consistent, Types
  <2>2. CASE l # k
    <3>1. owner[l] # c /\ owner[l] \in Clients /\ wire'[l] = wire[l]
      BY <1>2, <2>2 DEF Consistent, Ends, Live
    <3>. QED  BY <1>1, <3>1 DEF Consistent, Types, Continued, EndsWithLength
  <2>. QED  BY <2>1, <2>2
<1>11. HandsFull'     BY <1>1 DEF Consistent, HandsFull
<1>12. MarksAreTrue'  BY <1>1 DEF Consistent, MarksAreTrue, Alive
<1>13. OnlySent'
  <2>1. \A d \in Clients : d # c => Newest(d)' = Newest(d) /\ (Busy(d)' => value'[d] > 0)
    BY <1>1 DEF Consistent, Types, OnlySent, Newest, Busy
  <2>2. /\ Busy(c)' => value'[c] > 0
        /\ Newest(c)' \in Nat /\ Newest(c) <= Newest(c)'
        /\ Live(k) => Newest(c)' = value[c]
    BY <1>0, <1>1, <1>3 DEF Consistent, Types, Newest, Busy
  <2>3. UpTo(stored'[c], Newest(c)')
    <3>1. stored[c] \in Seq(Nat) /\ UpTo(stored[c], Newest(c))  BY DEF Consistent, Types, OnlySent
    <3>2. UpTo(stored[c], Newest(c)')  BY <1>0, <2>2, <3>1, UpToMore
    <3>. QED  BY <1>1, <3>2
  <2>4. ASSUME NEW l \in Conns, Live(l)
        PROVE  UpTo(wire'[l], Newest(owner[l])') /\ inHand'[l] <= Newest(owner[l])'
    <3>1. CASE l = k
      <4>1. inHand[l] \in Nat /\ inHand[l] <= Newest(c)
        BY <1>2, <2>4, <3>1 DEF Consistent, Types, OnlySent
      <4>2. UpTo(wire'[l], Newest(c)') /\ inHand[l] <= Newest(c)'
        BY <1>0, <1>4, <2>2, <2>4, <3>1, <4>1
      <4>. QED  BY <1>1, <1>2, <3>1, <4>2
    <3>2. CASE l # k
      <4>1. owner[l] # c /\ owner[l] \in Clients /\ wire'[l] = wire[l]
        BY <1>2, <2>4, <3>2 DEF Consistent, Ends, Live
      <4>. QED  BY <1>1, <2>1, <2>4, <4>1 DEF Consistent, OnlySent
    <3>. QED  BY <3>1, <3>2
  <2>. QED  BY <1>1, <2>1, <2>2, <2>3, <2>4 DEF Consistent, OnlySent, Live
<1>. QED  BY <1>5, <1>6, <1>7, <1>8, <1>9, <1>10, <1>11, <1>12, <1>13 DEF Consistent

LEMMA ExitInv ==
  ASSUME Consistent, NEW c \in Clients, Exit(c)
  PROVE  Consistent'
<1>1. Types'  BY ConnsAreNumbers DEF Consistent, Types, OneConnection, Exit
<1>2. Ends'
  BY ConnsAreNumbers DEF Consistent, Types, Ends, Accepted, OneConnection, Exit, Live, Alive
<1>3. Accepted'  BY ConnsAreNumbers DEF Consistent, Types, Accepted, Ends, Exit
<1>4. OneConnection'  BY ConnsAreNumbers DEF Consistent, Types, OneConnection, Ends, Exit, Live
<1>5. Framed'
  BY ConnsAreNumbers DEF Consistent, Types, Framed, Ends, OneConnection, Continued, Exit, Live
<1>6. Continued'
  BY ConnsAreNumbers
  DEF Consistent, Types, Continued, Ends, OneConnection, Exit, Live, EndsWithLength
<1>7. HandsFull'  BY ConnsAreNumbers DEF Consistent, Types, HandsFull, Framed, Ends, Exit
<1>8. MarksAreTrue'  BY ConnsAreNumbers DEF Consistent, Types, MarksAreTrue, Ends, Exit, Alive
<1>9. OnlySent'
  <2>1. \A d \in Clients : Newest(d) \in Int /\ Newest(d)' \in Int /\ Newest(d) <= Newest(d)'
    BY DEF Consistent, Types, Exit, Newest, Busy
  <2>2. \A d \in Clients : Busy(d)' => value'[d] > 0
    BY DEF Consistent, Types, OnlySent, Exit, Busy
  <2>. QED  BY <2>1, <2>2, Raised DEF Exit
<1>. QED  BY <1>1, <1>2, <1>3, <1>4, <1>5, <1>6, <1>7, <1>8, <1>9 DEF Consistent

LEMMA ResetArrivesInv ==
  ASSUME Consistent, NEW k \in Conns, ResetArrives(k)
  PROVE  Consistent'
<1>1. Types'  BY ConnsAreNumbers DEF Consistent, Types, OneConnection, ResetArrives
<1>2. Ends'
  BY ConnsAreNumbers DEF Consistent, Types, Ends, Accepted, OneConnection, ResetArrives, Live, Alive
<1>3. Accepted'  BY ConnsAreNumbers DEF Consistent, Types, Accepted, Ends, ResetArrives
<1>4. OneConnection'
  BY ConnsAreNumbers DEF Consistent, Types, OneConnection, Ends, ResetArrives, Live
<1>5. Framed'
  BY ConnsAreNumbers
  DEF Consistent, Types, Framed, Ends, OneConnection, Continued, ResetArrives, Live
<1>6. Continued'
  BY ConnsAreNumbers
  DEF Consistent, Types, Continued, Ends, OneConnection, ResetArrives, Live, EndsWithLength
<1>7. HandsFull'  BY ConnsAreNumbers DEF Consistent, Types, HandsFull, Framed, Ends, ResetArrives
<1>8. MarksAreTrue'
  BY ConnsAreNumbers DEF Consistent, Types, MarksAreTrue, Ends, ResetArrives, Alive
<1>9. OnlySent'
  BY ConnsAreNumbers, UpToMore
  DEF Consistent, Types, OnlySent, Ends, OneConnection, MarksAreTrue, ResetArrives, Live, Busy, Newest
<1>. QED  BY <1>1, <1>2, <1>3, <1>4, <1>5, <1>6, <1>7, <1>8, <1>9 DEF Consistent

LEMMA rcs_acceptInv ==
  ASSUME Consistent, NEW k \in Conns, rcs_accept(k)
  PROVE  Consistent'
<1>1. Types'  BY ConnsAreNumbers DEF Consistent, Types, OneConnection, rcs_accept
<1>2. Ends'
  BY ConnsAreNumbers DEF Consistent, Types, Ends, Accepted, OneConnection, rcs_accept, Live, Alive
<1>3. Accepted'  BY ConnsAreNumbers DEF Consistent, Types, Accepted, Ends, rcs_accept
<1>4. OneConnection'
  BY ConnsAreNumbers DEF Consistent, Types, OneConnection, Ends, rcs_accept, Live
<1>5. Framed'
  BY ConnsAreNumbers DEF Consistent, Types, Framed, Ends, OneConnection, Continued, rcs_accept, Live
<1>6. Continued'
  BY ConnsAreNumbers
  DEF Consistent, Types, Continued, Ends, OneConnection, rcs_accept, Live, EndsWithLength
<1>7. HandsFull'  BY ConnsAreNumbers DEF Consistent, Types, HandsFull, Framed, Ends, rcs_accept
<1>8. MarksAreTrue'  BY ConnsAreNumbers DEF Consistent, Types, MarksAreTrue, Ends, rcs_accept, Alive
<1>9. OnlySent'
  BY ConnsAreNumbers, UpToMore
  DEF Consistent, Types, OnlySent, Ends, OneConnection, MarksAreTrue, rcs_accept, Live, Busy, Newest
<1>. QED  BY <1>1, <1>2, <1>3, <1>4, <1>5, <1>6, <1>7, <1>8, <1>9 DEF Consistent

LEMMA AcceptFailsInv ==
  ASSUME Consistent, AcceptFails
  PROVE  Consistent'
<1>1. Types'  BY ConnsAreNumbers DEF Consistent, Types, OneConnection, AcceptFails
<1>2. Ends'
  BY ConnsAreNumbers DEF Consistent, Types, Ends, Accepted, OneConnection, AcceptFails, Live, Alive
<1>3. Accepted'  BY ConnsAreNumbers DEF Consistent, Types, Accepted, Ends, AcceptFails
<1>4. OneConnection'
  BY ConnsAreNumbers DEF Consistent, Types, OneConnection, Ends, AcceptFails, Live
<1>5. Framed'
  BY ConnsAreNumbers
  DEF Consistent, Types, Framed, Ends, OneConnection, Continued, AcceptFails, Live
<1>6. Continued'
  BY ConnsAreNumbers
  DEF Consistent, Types, Continued, Ends, OneConnection, AcceptFails, Live, EndsWithLength
<1>7. HandsFull'  BY ConnsAreNumbers DEF Consistent, Types, HandsFull, Framed, Ends, AcceptFails
<1>8. MarksAreTrue'
  BY ConnsAreNumbers DEF Consistent, Types, MarksAreTrue, Ends, AcceptFails, Alive
<1>9. OnlySent'
  BY ConnsAreNumbers, UpToMore
  DEF Consistent, Types, OnlySent, Ends, OneConnection, MarksAreTrue, AcceptFails, Live, Busy, Newest
<1>. QED  BY <1>1, <1>2, <1>3, <1>4, <1>5, <1>6, <1>7, <1>8, <1>9 DEF Consistent

LEMMA CreateThreadInv ==
  ASSUME Consistent, CreateThread
  PROVE  Consistent'
<1>1. Types'  BY ConnsAreNumbers DEF Consistent, Types, OneConnection, Accepted, CreateThread
<1>2. Ends'
  BY ConnsAreNumbers DEF Consistent, Types, Ends, Accepted, OneConnection, CreateThread, Live, Alive
<1>3. Accepted'  BY ConnsAreNumbers DEF Consistent, Types, Accepted, Ends, CreateThread
<1>4. OneConnection'
  BY ConnsAreNumbers DEF Consistent, Types, OneConnection, Ends, Accepted, CreateThread, Live
<1>5. Framed'
  BY ConnsAreNumbers
  DEF Consistent, Types, Framed, Ends, OneConnection, Continued, Accepted, CreateThread, Live
<1>6. Continued'
  BY ConnsAreNumbers
  DEF Consistent, Types, Continued, Ends, OneConnection, Accepted, CreateThread, Live, EndsWithLength
<1>7. HandsFull'
  BY ConnsAreNumbers DEF Consistent, Types, HandsFull, Framed, Ends, Accepted, CreateThread
<1>8. MarksAreTrue'
  BY ConnsAreNumbers DEF Consistent, Types, MarksAreTrue, Ends, Accepted, CreateThread, Alive
<1>9. OnlySent'
  BY ConnsAreNumbers, UpToMore
  DEF Consistent, Types, OnlySent, Ends, OneConnection, MarksAreTrue, Accepted, CreateThread, Live, Busy, Newest
<1>. QED  BY <1>1, <1>2, <1>3, <1>4, <1>5, <1>6, <1>7, <1>8, <1>9 DEF Consistent

LEMMA CreateFailsInv ==
  ASSUME Consistent, CreateFails
  PROVE  Consistent'
<1>1. Types'  BY ConnsAreNumbers DEF Consistent, Types, OneConnection, Accepted, CreateFails
<1>2. Ends'
  BY ConnsAreNumbers DEF Consistent, Types, Ends, Accepted, OneConnection, CreateFails, Live, Alive
<1>3. Accepted'  BY ConnsAreNumbers DEF Consistent, Types, Accepted, Ends, CreateFails
<1>4. OneConnection'
  BY ConnsAreNumbers DEF Consistent, Types, OneConnection, Ends, Accepted, CreateFails, Live
<1>5. Framed'
  BY ConnsAreNumbers
  DEF Consistent, Types, Framed, Ends, OneConnection, Continued, Accepted, CreateFails, Live
<1>6. Continued'
  BY ConnsAreNumbers
  DEF Consistent, Types, Continued, Ends, OneConnection, Accepted, CreateFails, Live, EndsWithLength
<1>7. HandsFull'
  BY ConnsAreNumbers DEF Consistent, Types, HandsFull, Framed, Ends, Accepted, CreateFails
<1>8. MarksAreTrue'
  BY ConnsAreNumbers DEF Consistent, Types, MarksAreTrue, Ends, Accepted, CreateFails, Alive
<1>9. OnlySent'
  BY ConnsAreNumbers, UpToMore
  DEF Consistent, Types, OnlySent, Ends, OneConnection, MarksAreTrue, Accepted, CreateFails, Live, Busy, Newest
<1>. QED  BY <1>1, <1>2, <1>3, <1>4, <1>5, <1>6, <1>7, <1>8, <1>9 DEF Consistent

LEMMA CheckLimitInv ==
  ASSUME Consistent, CheckLimit
  PROVE  Consistent'
<1>1. Types'  BY ConnsAreNumbers DEF Consistent, Types, OneConnection, CheckLimit, AtLimit
<1>2. Ends'
  BY ConnsAreNumbers
  DEF Consistent, Types, Ends, Accepted, OneConnection, CheckLimit, AtLimit, Live, Alive
<1>3. Accepted'  BY ConnsAreNumbers DEF Consistent, Types, Accepted, Ends, CheckLimit, AtLimit
<1>4. OneConnection'
  BY ConnsAreNumbers DEF Consistent, Types, OneConnection, Ends, CheckLimit, AtLimit, Live
<1>5. Framed'
  BY ConnsAreNumbers
  DEF Consistent, Types, Framed, Ends, OneConnection, Continued, CheckLimit, AtLimit, Live
<1>6. Continued'
  BY ConnsAreNumbers
  DEF Consistent, Types, Continued, Ends, OneConnection, CheckLimit, AtLimit, Live, EndsWithLength
<1>7. HandsFull'
  BY ConnsAreNumbers DEF Consistent, Types, HandsFull, Framed, Ends, CheckLimit, AtLimit
<1>8. MarksAreTrue'
  BY ConnsAreNumbers DEF Consistent, Types, MarksAreTrue, Ends, CheckLimit, AtLimit, Alive
<1>9. OnlySent'
  BY ConnsAreNumbers, UpToMore
  DEF Consistent, Types, OnlySent, Ends, OneConnection, MarksAreTrue, CheckLimit, AtLimit, Live, Busy, Newest
<1>. QED  BY <1>1, <1>2, <1>3, <1>4, <1>5, <1>6, <1>7, <1>8, <1>9 DEF Consistent

LEMMA SpuriousWakeupInv ==
  ASSUME Consistent, SpuriousWakeup
  PROVE  Consistent'
<1>1. Types'  BY ConnsAreNumbers DEF Consistent, Types, OneConnection, SpuriousWakeup
<1>2. Ends'
  BY ConnsAreNumbers
  DEF Consistent, Types, Ends, Accepted, OneConnection, SpuriousWakeup, Live, Alive
<1>3. Accepted'  BY ConnsAreNumbers DEF Consistent, Types, Accepted, Ends, SpuriousWakeup
<1>4. OneConnection'
  BY ConnsAreNumbers DEF Consistent, Types, OneConnection, Ends, SpuriousWakeup, Live
<1>5. Framed'
  BY ConnsAreNumbers
  DEF Consistent, Types, Framed, Ends, OneConnection, Continued, SpuriousWakeup, Live
<1>6. Continued'
  BY ConnsAreNumbers
  DEF Consistent, Types, Continued, Ends, OneConnection, SpuriousWakeup, Live, EndsWithLength
<1>7. HandsFull'  BY ConnsAreNumbers DEF Consistent, Types, HandsFull, Framed, Ends, SpuriousWakeup
<1>8. MarksAreTrue'
  BY ConnsAreNumbers DEF Consistent, Types, MarksAreTrue, Ends, SpuriousWakeup, Alive
<1>9. OnlySent'
  BY ConnsAreNumbers, UpToMore
  DEF Consistent, Types, OnlySent, Ends, OneConnection, MarksAreTrue, SpuriousWakeup, Live, Busy, Newest
<1>. QED  BY <1>1, <1>2, <1>3, <1>4, <1>5, <1>6, <1>7, <1>8, <1>9 DEF Consistent

LEMMA WokenUpInv ==
  ASSUME Consistent, WokenUp
  PROVE  Consistent'
<1>1. Types'  BY ConnsAreNumbers DEF Consistent, Types, OneConnection, WokenUp
<1>2. Ends'
  BY ConnsAreNumbers DEF Consistent, Types, Ends, Accepted, OneConnection, WokenUp, Live, Alive
<1>3. Accepted'  BY ConnsAreNumbers DEF Consistent, Types, Accepted, Ends, WokenUp
<1>4. OneConnection'  BY ConnsAreNumbers DEF Consistent, Types, OneConnection, Ends, WokenUp, Live
<1>5. Framed'
  BY ConnsAreNumbers DEF Consistent, Types, Framed, Ends, OneConnection, Continued, WokenUp, Live
<1>6. Continued'
  BY ConnsAreNumbers
  DEF Consistent, Types, Continued, Ends, OneConnection, WokenUp, Live, EndsWithLength
<1>7. HandsFull'  BY ConnsAreNumbers DEF Consistent, Types, HandsFull, Framed, Ends, WokenUp
<1>8. MarksAreTrue'  BY ConnsAreNumbers DEF Consistent, Types, MarksAreTrue, Ends, WokenUp, Alive
<1>9. OnlySent'
  BY ConnsAreNumbers, UpToMore
  DEF Consistent, Types, OnlySent, Ends, OneConnection, MarksAreTrue, WokenUp, Live, Busy, Newest
<1>. QED  BY <1>1, <1>2, <1>3, <1>4, <1>5, <1>6, <1>7, <1>8, <1>9 DEF Consistent

LEMMA LockInv ==
  ASSUME Consistent, NEW k \in Conns, Lock(k)
  PROVE  Consistent'
<1>1. Types'  BY ConnsAreNumbers DEF Consistent, Types, OneConnection, Lock
<1>2. Ends'
  BY ConnsAreNumbers DEF Consistent, Types, Ends, Accepted, OneConnection, Lock, Live, Alive
<1>3. Accepted'  BY ConnsAreNumbers DEF Consistent, Types, Accepted, Ends, Lock
<1>4. OneConnection'  BY ConnsAreNumbers DEF Consistent, Types, OneConnection, Ends, Lock, Live
<1>5. Framed'
  BY ConnsAreNumbers DEF Consistent, Types, Framed, Ends, OneConnection, Continued, Lock, Live
<1>6. Continued'
  BY ConnsAreNumbers
  DEF Consistent, Types, Continued, Ends, OneConnection, Lock, Live, EndsWithLength
<1>7. HandsFull'  BY ConnsAreNumbers DEF Consistent, Types, HandsFull, Framed, Ends, Lock
<1>8. MarksAreTrue'  BY ConnsAreNumbers DEF Consistent, Types, MarksAreTrue, Ends, Lock, Alive
<1>9. OnlySent'
  BY ConnsAreNumbers, UpToMore
  DEF Consistent, Types, OnlySent, Ends, OneConnection, MarksAreTrue, Lock, Live, Busy, Newest
<1>. QED  BY <1>1, <1>2, <1>3, <1>4, <1>5, <1>6, <1>7, <1>8, <1>9 DEF Consistent

LEMMA GiveUpInv ==
  ASSUME Consistent, NEW k \in Conns, GiveUp(k)
  PROVE  Consistent'
<1>1. Types'  BY ConnsAreNumbers DEF Consistent, Types, OneConnection, GiveUp, ClientIsGone
<1>2. Ends'
  BY ConnsAreNumbers
  DEF Consistent, Types, Ends, Accepted, OneConnection, GiveUp, ClientIsGone, Live, Alive
<1>3. Accepted'  BY ConnsAreNumbers DEF Consistent, Types, Accepted, Ends, GiveUp, ClientIsGone
<1>4. OneConnection'
  BY ConnsAreNumbers DEF Consistent, Types, OneConnection, Ends, GiveUp, ClientIsGone, Live
<1>5. Framed'
  <2>1. /\ wire' = wire /\ tpc' = [tpc EXCEPT ![k] = "close"]
        /\ tpc[k] = "body" => wire[k] = <<>>
    BY DEF GiveUp
  <2>. QED  BY <2>1, NothingWritten DEF Consistent, Types, Framed
<1>6. Continued'
  BY ConnsAreNumbers
  DEF Consistent, Types, Continued, Ends, OneConnection, GiveUp, ClientIsGone, Live, EndsWithLength
<1>7. HandsFull'
  BY ConnsAreNumbers DEF Consistent, Types, HandsFull, Framed, Ends, GiveUp, ClientIsGone
<1>8. MarksAreTrue'
  BY ConnsAreNumbers DEF Consistent, Types, MarksAreTrue, Ends, GiveUp, ClientIsGone, Alive
<1>9. OnlySent'
  BY ConnsAreNumbers, UpToMore
  DEF Consistent, Types, OnlySent, Ends, OneConnection, MarksAreTrue, GiveUp, ClientIsGone, Live, Busy, Newest
<1>. QED  BY <1>1, <1>2, <1>3, <1>4, <1>5, <1>6, <1>7, <1>8, <1>9 DEF Consistent

LEMMA ReadLengthInv ==
  ASSUME Consistent, NEW k \in Conns, ReadLength(k)
  PROVE  Consistent'
<1>1. Types'  BY ConnsAreNumbers, WireRead DEF Consistent, Types, OneConnection, ReadLength
<1>2. Ends'
  <2>1. /\ tpc[k] = "poll" /\ tpc' = [tpc EXCEPT ![k] = "body"]
        /\ wire[k] # <<>> /\ \A l \in Conns : l # k => wire'[l] = wire[l]
        /\ UNCHANGED <<owner, serverEnd, reset>>
    BY DEF Consistent, Types, ReadLength
  <2>. QED  BY <2>1 DEF Consistent, Types, Ends, Live, Alive
<1>3. Accepted'  BY ConnsAreNumbers, WireRead DEF Consistent, Types, Accepted, Ends, ReadLength
<1>4. OneConnection'
  BY ConnsAreNumbers, WireRead DEF Consistent, Types, OneConnection, Ends, ReadLength, Live
<1>5. Framed'
  BY ConnsAreNumbers, WireRead
  DEF Consistent, Types, Framed, Ends, OneConnection, Continued, ReadLength, Live
<1>6. Continued'
  BY ConnsAreNumbers, WireRead
  DEF Consistent, Types, Continued, Ends, OneConnection, ReadLength, Live, EndsWithLength
<1>7. HandsFull'
  BY ConnsAreNumbers, WireRead DEF Consistent, Types, HandsFull, Framed, Ends, ReadLength
<1>8. MarksAreTrue'
  BY ConnsAreNumbers, WireRead DEF Consistent, Types, MarksAreTrue, Ends, ReadLength, Alive
<1>9. OnlySent'
  BY ConnsAreNumbers, WireRead, UpToMore
  DEF Consistent, Types, OnlySent, Ends, OneConnection, MarksAreTrue, ReadLength, Live, Busy, Newest
<1>. QED  BY <1>1, <1>2, <1>3, <1>4, <1>5, <1>6, <1>7, <1>8, <1>9 DEF Consistent

LEMMA ReadContentsInv ==
  ASSUME Consistent, NEW k \in Conns, ReadContents(k)
  PROVE  Consistent'
<1>1. Types'  BY ConnsAreNumbers, WireRead DEF Consistent, Types, OneConnection, ReadContents
<1>2. Ends'
  <2>1. /\ tpc[k] = "body" /\ tpc' = [tpc EXCEPT ![k] = "put"]
        /\ wire[k] # <<>> /\ \A l \in Conns : l # k => wire'[l] = wire[l]
        /\ UNCHANGED <<owner, serverEnd, reset>>
    BY DEF Consistent, Types, ReadContents
  <2>. QED  BY <2>1 DEF Consistent, Types, Ends, Live, Alive
<1>3. Accepted'  BY ConnsAreNumbers, WireRead DEF Consistent, Types, Accepted, Ends, ReadContents
<1>4. OneConnection'
  BY ConnsAreNumbers, WireRead DEF Consistent, Types, OneConnection, Ends, ReadContents, Live
<1>5. Framed'
  BY ConnsAreNumbers, WireRead
  DEF Consistent, Types, Framed, Ends, OneConnection, Continued, ReadContents, Live
<1>6. Continued'
  <2>1. /\ tpc[k] = "body" /\ tpc' = [tpc EXCEPT ![k] = "put"]
        /\ wire[k] # <<>> /\ wire[k] \in Seq(Nat) /\ wire'[k] = Tail(wire[k])
        /\ \A l \in Conns : l # k => wire'[l] = wire[l]
        /\ UNCHANGED <<cpc, owner, serverEnd>>
    BY DEF Consistent, Types, ReadContents
  <2>2. IsOdd(wire'[k]) <=> ~IsOdd(wire[k])  BY <2>1, WireRead
  <2>. QED  BY <2>1, <2>2 DEF Consistent, Types, Continued, EndsWithLength, Live
<1>7. HandsFull'
  BY ConnsAreNumbers, WireRead DEF Consistent, Types, HandsFull, Framed, Ends, ReadContents
<1>8. MarksAreTrue'
  BY ConnsAreNumbers, WireRead DEF Consistent, Types, MarksAreTrue, Ends, ReadContents, Alive
<1>9. OnlySent'
  <2>1. /\ wire[k] # <<>> /\ wire[k] \in Seq(Nat) /\ wire'[k] = Tail(wire[k])
        /\ inHand'[k] = Head(wire[k])
        /\ \A l \in Conns : l # k => wire'[l] = wire[l] /\ inHand'[l] = inHand[l]
        /\ UNCHANGED <<cpc, value, owner, serverEnd, stored>>
    BY DEF Consistent, Types, ReadContents
  <2>2. \A l \in Conns : Live(l) => owner[l] \in Clients  BY DEF Consistent, Ends, Live
  <2>3. \A d \in Clients : Newest(d) \in Nat  BY DEF Consistent, Types, OnlySent, Newest, Busy
  <2>4. \A n \in Nat : UpTo(wire[k], n) => UpTo(wire'[k], n) /\ inHand'[k] <= n  BY <2>1, WireRead
  <2>. QED  BY <2>1, <2>2, <2>3, <2>4 DEF Consistent, OnlySent, Live, Newest, Busy
<1>. QED  BY <1>1, <1>2, <1>3, <1>4, <1>5, <1>6, <1>7, <1>8, <1>9 DEF Consistent

LEMMA reposvalue_putInv ==
  ASSUME Consistent, NEW k \in Conns, reposvalue_put(k)
  PROVE  Consistent'
<1>1. /\ tpc[k] = "put" /\ Live(k) /\ owner[k] \in Clients /\ inHand[k] \in Nat
      /\ stored[owner[k]] \in Seq(Nat)
  BY DEF Consistent, Types, Ends, Live, reposvalue_put
<1>2. Unpacked(k) = inHand[k] /\ is64' = Seen64(k)
  BY DEF Consistent, MarksAreTrue, Unpacked, Seen64, reposvalue_put
<1>3. /\ stored' = [stored EXCEPT ![owner[k]] = Append(@, inHand[k])]
      /\ inHand' = [inHand EXCEPT ![k] = NoConn]
      /\ tpc' = [tpc EXCEPT ![k] = "lock"]
      /\ UNCHANGED <<cpc, srvhdl, wrote, value, owner, wire, serverEnd, reset, mutex, connects, apc, ahdl>>
  BY <1>2 DEF reposvalue_put
<1>4. Append(stored[owner[k]], inHand[k]) \in Seq(Nat)  BY <1>1
<1>5. Types'          BY <1>1, <1>2, <1>3, <1>4 DEF Consistent, Types, Seen64
<1>6. Ends'           BY <1>1, <1>3 DEF Consistent, Types, Ends, Live, Alive
<1>7. Accepted'       BY <1>1, <1>3 DEF Consistent, Types, Accepted
<1>8. OneConnection'  BY <1>3 DEF Consistent, OneConnection, Live
<1>9. Framed'         BY <1>1, <1>3 DEF Consistent, Types, Framed
<1>10. Continued'     BY <1>1, <1>3 DEF Consistent, Types, Continued, EndsWithLength, Live
<1>11. HandsFull'     BY <1>1, <1>3 DEF Consistent, Types, HandsFull
<1>12. MarksAreTrue'  BY <1>1, <1>2, <1>3 DEF Consistent, Types, MarksAreTrue, Alive, Seen64
<1>13. OnlySent'
  <2>1. UpTo(stored[owner[k]], Newest(owner[k])) /\ inHand[k] <= Newest(owner[k])
    BY <1>1 DEF Consistent, OnlySent
  <2>2. \A d \in Clients : Newest(d)' = Newest(d) /\ Newest(d) \in Nat /\ (Busy(d)' <=> Busy(d))
    BY <1>3 DEF Consistent, Types, OnlySent, Newest, Busy
  <2>3. UpTo(stored'[owner[k]], Newest(owner[k]))
    <3>1. stored'[owner[k]] = Append(stored[owner[k]], inHand[k])
      BY <1>1, <1>3 DEF Consistent, Types
    <3>. QED  BY <1>1, <2>1, <2>2, <3>1, WireWritten
  <2>4. \A d \in Clients : d # owner[k] => stored'[d] = stored[d]  BY <1>3 DEF Consistent, Types
  <2>5. \A l \in Conns : inHand'[l] = inHand[l] \/ inHand'[l] = 0  BY <1>3 DEF Consistent, Types
  <2>6. \A l \in Conns : Live(l) => owner[l] \in Clients  BY DEF Consistent, Ends, Live
  <2>. QED  BY <1>3, <2>2, <2>3, <2>4, <2>5, <2>6 DEF Consistent, OnlySent, Live
<1>. QED  BY <1>5, <1>6, <1>7, <1>8, <1>9, <1>10, <1>11, <1>12, <1>13 DEF Consistent

LEMMA EndThreadInv ==
  ASSUME Consistent, NEW k \in Conns, EndThread(k)
  PROVE  Consistent'
<1>1. Types'
  BY ConnsAreNumbers, NothingWritten DEF Consistent, Types, OneConnection, EndThread, Signalled
<1>2. Ends'
  BY ConnsAreNumbers, NothingWritten
  DEF Consistent, Types, Ends, Accepted, OneConnection, EndThread, Signalled, Live, Alive
<1>3. Accepted'
  BY ConnsAreNumbers, NothingWritten DEF Consistent, Types, Accepted, Ends, EndThread, Signalled
<1>4. OneConnection'
  BY ConnsAreNumbers, NothingWritten
  DEF Consistent, Types, OneConnection, Ends, EndThread, Signalled, Live
<1>5. Framed'
  BY ConnsAreNumbers, NothingWritten
  DEF Consistent, Types, Framed, Ends, OneConnection, Continued, EndThread, Signalled, Live
<1>6. Continued'
  BY ConnsAreNumbers, NothingWritten
  DEF Consistent, Types, Continued, Ends, OneConnection, EndThread, Signalled, Live, EndsWithLength
<1>7. HandsFull'
  BY ConnsAreNumbers, NothingWritten
  DEF Consistent, Types, HandsFull, Framed, Ends, EndThread, Signalled
<1>8. MarksAreTrue'
  BY ConnsAreNumbers, NothingWritten
  DEF Consistent, Types, MarksAreTrue, Ends, EndThread, Signalled, Alive
<1>9. OnlySent'
  BY ConnsAreNumbers, NothingWritten, UpToMore
  DEF Consistent, Types, OnlySent, Ends, OneConnection, MarksAreTrue, EndThread, Signalled, Live, Busy, Newest
<1>. QED  BY <1>1, <1>2, <1>3, <1>4, <1>5, <1>6, <1>7, <1>8, <1>9 DEF Consistent

-----------------------------------------------------------------------------
(* Every action.                                                           *)

LEMMA StepConsistent ==
  ASSUME Consistent, [Next]_vars
  PROVE  Consistent'
<1>1. ASSUME NEW c \in Clients, rrepos_put(c) \/ ClientStep(c) \/ Exit(c) PROVE Consistent'
  BY <1>1, rrepos_putInv, ConnectInv, ConnectFailsInv, WriteLengthInv, WriteContentsInv,
     ExitInv DEF ClientStep
<1>2. ASSUME NEW k \in Conns, ResetArrives(k) \/ Thread(k) PROVE Consistent'
  BY <1>2, ResetArrivesInv, LockInv, GiveUpInv, ReadLengthInv, ReadContentsInv,
     reposvalue_putInv, EndThreadInv
  DEF Thread
<1>3. ASSUME AcceptLoop \/ AcceptFails \/ CreateFails \/ SpuriousWakeup PROVE Consistent'
  BY <1>3, rcs_acceptInv, CreateThreadInv, CheckLimitInv, WokenUpInv, AcceptFailsInv,
     CreateFailsInv,
     SpuriousWakeupInv
  DEF AcceptLoop
<1>4. ASSUME UNCHANGED vars PROVE Consistent'
  <2>1. UNCHANGED <<cpc, srvhdl, retried, wrote, value, refused>>  BY <1>4 DEF vars
  <2>2. UNCHANGED <<owner, wire, serverEnd, reset, mutex, connects, apc, ahdl>>  BY <1>4 DEF vars
  <2>3. UNCHANGED <<tpc, is64, inHand, stored>>  BY <1>4 DEF vars
  <2>4. (Types /\ Ends /\ Accepted /\ OneConnection)'
    BY <2>1, <2>2, <2>3 DEF Consistent, Types, Ends, Accepted, OneConnection, Live, Alive
  <2>5. (Framed /\ Continued /\ HandsFull /\ MarksAreTrue)'
    BY <2>1, <2>2, <2>3
    DEF Consistent, Framed, Continued, HandsFull, MarksAreTrue, Live, Alive, EndsWithLength
  <2>6. OnlySent'  BY <2>1, <2>2, <2>3 DEF Consistent, OnlySent, Live, Busy, Newest
  <2>. QED  BY <2>4, <2>5, <2>6 DEF Consistent
<1>. QED  BY <1>1, <1>2, <1>3, <1>4 DEF Next

-----------------------------------------------------------------------------
(* Counting.                                                               *)

(* What connects counts.                                                   *)
Counted == Threads \union {k \in {ahdl} : apc = "ended" /\ k # NoConn}

LEMMA CountedFinite ==
  ASSUME Types
  PROVE  Counted \subseteq Conns /\ IsFiniteSet(Counted) /\ Cardinality(Counted) \in Nat
<1>1. Counted \subseteq Conns  BY DEF Counted, Threads, Types
<1>. QED  BY <1>1, ConnsAreNumbers, FS_Subset, FS_CardinalityType

LEMMA CountOneMore ==
  ASSUME Types, NEW k \in Conns, k \notin Counted, connects = Cardinality(Counted),
         Counted' = Counted \union {k}, connects' = connects + 1
  PROVE  connects' = Cardinality(Counted')
<1>1. Cardinality(Counted \union {k}) = Cardinality(Counted) + 1
  BY CountedFinite, FS_AddElement
<1>. QED  BY <1>1

LEMMA CountOneLess ==
  ASSUME Types, NEW k \in Counted, connects = Cardinality(Counted),
         Counted' = Counted \ {k}, connects' = connects - 1
  PROVE  connects' = Cardinality(Counted')
<1>1. Cardinality(Counted \ {k}) = Cardinality(Counted) - 1
  BY CountedFinite, FS_RemoveElement
<1>. QED  BY <1>1

(* Who has the mutex is in rcs_getrequest, and nobody else.                *)
HoldersAlone == \A k \in Conns : Holding(k) <=> mutex = k

LEMMA StepCounted ==
  ASSUME Inv, [Next]_vars
  PROVE  ConnectsCounted'
<1>. USE DEF Inv
<1>0. ConnectsCounted <=> connects = Cardinality(Counted) /\ HoldersAlone
  BY DEF ConnectsCounted, Counted, HoldersAlone
<1>00. ConnectsCounted' <=> connects' = Cardinality(Counted') /\ HoldersAlone'
  BY DEF ConnectsCounted, Counted, HoldersAlone
<1>1. ASSUME UNCHANGED <<tpc, mutex, connects>>, Counted' = Counted PROVE ConnectsCounted'
  BY <1>0, <1>00, <1>1 DEF HoldersAlone, Holding
<1>2. ASSUME NEW c \in Clients, rrepos_put(c) \/ ClientStep(c) \/ Exit(c) PROVE ConnectsCounted'
  <2>1. UNCHANGED <<tpc, mutex, connects, apc, ahdl>>
    BY <1>2 DEF rrepos_put, ClientStep, Connect, ConnectFails, WriteLength, WriteContents, Exit
  <2>. QED  BY <1>1, <2>1 DEF Counted, Threads, Alive
<1>3. ASSUME NEW k \in Conns, ResetArrives(k) PROVE ConnectsCounted'
  <2>1. UNCHANGED <<tpc, mutex, connects, apc, ahdl>>  BY <1>3 DEF ResetArrives
  <2>. QED  BY <1>1, <2>1 DEF Counted, Threads, Alive
<1>4. ASSUME NEW k \in Conns, rcs_accept(k) PROVE ConnectsCounted'
  <2>1. UNCHANGED <<tpc, mutex, connects>> /\ apc = "accept" /\ apc' = "count"
    BY <1>4 DEF rcs_accept
  <2>. QED  BY <1>1, <2>1 DEF Counted, Threads, Alive
<1>5. ASSUME AcceptFails PROVE ConnectsCounted'
  <2>1. UNCHANGED <<tpc, mutex, connects, ahdl>> /\ apc = "accept" /\ ahdl = NoConn
    BY <1>5 DEF AcceptFails, Consistent, Accepted
  <2>. QED  BY <1>1, <2>1 DEF Counted, Threads, Alive
<1>6. ASSUME CreateThread PROVE ConnectsCounted'
  <2>1. /\ ahdl \in Conns /\ tpc[ahdl] = "none"
        /\ tpc' = [tpc EXCEPT ![ahdl] = "lock"]
        /\ apc = "count" /\ apc' = "limit" /\ connects' = connects + 1 /\ mutex' = mutex
    BY <1>6 DEF CreateThread, Consistent, Types, Accepted
  <2>2. ahdl \notin Counted /\ Counted' = Counted \union {ahdl}
    BY <2>1 DEF Consistent, Types, Counted, Threads, Alive
  <2>3. connects' = Cardinality(Counted')  BY <1>0, <2>1, <2>2, CountOneMore DEF Consistent
  <2>4. HoldersAlone'  BY <1>0, <2>1 DEF Consistent, Types, HoldersAlone, Holding
  <2>. QED  BY <1>00, <2>3, <2>4
<1>7. ASSUME CreateFails PROVE ConnectsCounted'
  <2>1. /\ ahdl \in Conns /\ tpc[ahdl] = "none" /\ tpc' = tpc /\ ahdl' = ahdl
        /\ apc = "count" /\ apc' = "ended" /\ connects' = connects + 1 /\ mutex' = mutex
    BY <1>7 DEF CreateFails, Consistent, Types, Accepted
  <2>2. ahdl \notin Counted /\ Counted' = Counted \union {ahdl}
    BY <2>1, ConnsAreNumbers DEF Counted, Threads, Alive
  <2>3. connects' = Cardinality(Counted')  BY <1>0, <2>1, <2>2, CountOneMore DEF Consistent
  <2>4. HoldersAlone'  BY <1>0, <2>1 DEF HoldersAlone, Holding
  <2>. QED  BY <1>00, <2>3, <2>4
<1>8. ASSUME CheckLimit \/ SpuriousWakeup \/ WokenUp PROVE ConnectsCounted'
  <2>1. UNCHANGED <<tpc, mutex, connects>> /\ apc # "ended" /\ apc' # "ended"
    BY <1>8 DEF CheckLimit, SpuriousWakeup, WokenUp
  <2>. QED  BY <1>1, <2>1 DEF Counted, Threads, Alive
<1>9. ASSUME NEW k \in Conns, Lock(k) \/ GiveUp(k) \/ ReadLength(k) \/ ReadContents(k) \/ reposvalue_put(k)
      PROVE  ConnectsCounted'
  <2>1. /\ UNCHANGED <<connects, apc, ahdl>>
        /\ Alive(k) /\ \E label \in {"lock", "poll", "body", "put", "close"} : tpc' = [tpc EXCEPT ![k] = label]
    BY <1>9 DEF Lock, GiveUp, ReadLength, ReadContents, reposvalue_put, Alive
  <2>2. Counted' = Counted  BY <2>1 DEF Consistent, Types, Counted, Threads, Alive
  <2>3. HoldersAlone'
    BY <1>0, <1>9, ConnsAreNumbers
    DEF Consistent, Types, HoldersAlone, Holding, Lock, GiveUp, ReadLength, ReadContents, reposvalue_put
  <2>. QED  BY <1>0, <1>00, <2>1, <2>2, <2>3
<1>10. ASSUME NEW k \in Conns, EndThread(k) PROVE ConnectsCounted'
  <2>1. /\ tpc[k] = "close" /\ tpc' = [tpc EXCEPT ![k] = "ended"]
        /\ connects' = connects - 1 /\ mutex' = NoConn /\ ahdl' = ahdl
        /\ apc' = "ended" <=> apc = "ended"
    BY <1>10 DEF EndThread, Signalled
  <2>2. apc = "ended" => ahdl # k  BY <2>1, ConnsAreNumbers DEF Consistent, Accepted
  <2>3. k \in Counted /\ Counted' = Counted \ {k}
    BY <2>1, <2>2 DEF Consistent, Types, Counted, Threads, Alive
  <2>4. connects' = Cardinality(Counted')  BY <1>0, <2>1, <2>3, CountOneLess DEF Consistent
  <2>5. HoldersAlone'
    BY <1>0, <2>1, ConnsAreNumbers DEF Consistent, Types, HoldersAlone, Holding
  <2>. QED  BY <1>00, <2>4, <2>5
<1>11. ASSUME UNCHANGED vars PROVE ConnectsCounted'
  <2>1. UNCHANGED <<tpc, mutex, connects, apc, ahdl>>  BY <1>11 DEF vars
  <2>. QED  BY <1>1, <2>1 DEF Counted, Threads, Alive
<1>. QED
  BY <1>2, <1>3, <1>4, <1>5, <1>6, <1>7, <1>8, <1>9, <1>10, <1>11 DEF Next, Thread, AcceptLoop

LEMMA InitInv == Init => Inv
<1>. SUFFICES ASSUME Init PROVE Inv  OBVIOUS
<1>. USE DEF Init, ClientInit, ConnInit, PoolInit
<1>1. Types /\ Ends /\ Accepted  BY DEF Types, Ends, Accepted, Live, Alive
<1>2. OneConnection  BY DEF OneConnection, Live
<1>3. Framed /\ Continued /\ HandsFull
  BY NothingWritten DEF Framed, Continued, HandsFull, Live
<1>4. MarksAreTrue /\ OnlySent  BY NothingWritten DEF MarksAreTrue, OnlySent, Live, Busy, Newest
<1>5. ConnectsCounted
  <2>1. Threads \union {k \in {ahdl} : apc = "ended" /\ k # NoConn} = {}  BY DEF Threads, Alive
  <2>. QED  BY <2>1, ConnsAreNumbers, FS_EmptySet DEF ConnectsCounted, Holding
<1>. QED  BY <1>1, <1>2, <1>3, <1>4, <1>5 DEF Inv, Consistent

-----------------------------------------------------------------------------
(* The theorems.                                                           *)

(* What the clients, the accept loop and the threads of reposd know of     *)
(* each other, in every state (Inv).                                       *)
THEOREM PathInvariant == Spec => []Inv
<1>1. Inv /\ [Next]_vars => Inv'  BY StepConsistent, StepCounted DEF Inv
<1>. QED  BY InitInv, <1>1, PTL DEF Spec

(* connects of reposd.c is the number of its threads, and of a connection  *)
(* that could not get one; the mutex is with the thread that polls and     *)
(* reads, in whatever order threads come, go and fail to be created.       *)
THEOREM ConnectsAreCounted == Spec => []ConnectsCounted
<1>1. Inv => ConnectsCounted  BY DEF Inv
<1>. QED  BY <1>1, PathInvariant, PTL

(* A thread of reposd never takes the contents of a value for its length   *)
(* (rcserv_ip.c), nor a length for contents, although writes are repeated, *)
(* cut short by a reset, and clients end between the two.                  *)
TakesLengthsForLengths ==
  \A k \in Conns : wire[k] # <<>> =>
    /\ tpc[k] = "poll" => Head(wire[k]) = Header
    /\ tpc[k] = "body" => Head(wire[k]) # Header
THEOREM StaysInStep == Spec => []TakesLengthsForLengths
<1>1. ASSUME Inv PROVE TakesLengthsForLengths
  <2>. SUFFICES ASSUME NEW k \in Conns, wire[k] # <<>>
                PROVE  /\ tpc[k] = "poll" => Head(wire[k]) = Header
                       /\ tpc[k] = "body" => Head(wire[k]) # Header
    BY DEF TakesLengthsForLengths
  <2>1. wire[k] \in Seq(Nat)  BY <1>1 DEF Inv, Consistent, Types
  <2>2. IF tpc[k] = "body" THEN FromContents(wire[k]) ELSE FromLength(wire[k])
    BY <1>1 DEF Inv, Consistent, Framed
  <2>. QED  BY <2>1, <2>2, WireRead
<1>. QED  BY <1>1, PathInvariant, PTL

-----------------------------------------------------------------------------
(* The refinement of the lossy channel.                                    *)

LEMMA Halves ==
  ASSUME NEW n \in Nat
  PROVE  /\ n \div 2 \in Nat /\ (n + 2) \div 2 = n \div 2 + 1
         /\ n % 2 = 0 => n = 2 * (n \div 2) /\ (n + 1) \div 2 = n \div 2
         /\ n % 2 = 1 => n = 2 * (n \div 2) + 1 /\ (n + 1) \div 2 = n \div 2 + 1
         /\ n % 2 = 0 \/ n % 2 = 1
OBVIOUS

(* Every other element of what is on the wire, when it is written and read. *)
LEMMA OddEvenType ==
  ASSUME NEW w \in Seq(Nat)
  PROVE  /\ Odd(w) \in Seq(Nat) /\ Even(w) \in Seq(Nat)
         /\ Len(Odd(w)) = (Len(w) + 1) \div 2 /\ Len(Even(w)) = Len(w) \div 2
         /\ \A i \in 1..(Len(w) + 1) \div 2 : 2 * i - 1 \in 1..Len(w) /\ Odd(w)[i] = w[2 * i - 1]
         /\ \A i \in 1..Len(w) \div 2 : 2 * i \in 1..Len(w) /\ Even(w)[i] = w[2 * i]
<1>1. Len(w) \in Nat /\ (Len(w) + 1) \div 2 \in Nat /\ Len(w) \div 2 \in Nat  OBVIOUS
<1>2. \A i \in 1..(Len(w) + 1) \div 2 : 2 * i - 1 \in 1..Len(w)  BY <1>1
<1>3. \A i \in 1..Len(w) \div 2 : 2 * i \in 1..Len(w)  BY <1>1
<1>4. \A i \in 1..Len(w) : w[i] \in Nat  OBVIOUS
<1>5. Odd(w) \in Seq(Nat) /\ Len(Odd(w)) = (Len(w) + 1) \div 2
  <2>1. \A i \in 1..(Len(w) + 1) \div 2 : w[2 * i - 1] \in Nat  BY <1>2, <1>4
  <2>. QED  BY <1>1, <2>1, IsASeq DEF Odd
<1>6. Even(w) \in Seq(Nat) /\ Len(Even(w)) = Len(w) \div 2
  <2>1. \A i \in 1..Len(w) \div 2 : w[2 * i] \in Nat  BY <1>3, <1>4
  <2>. QED  BY <1>1, <2>1, IsASeq DEF Even
<1>. QED  BY <1>2, <1>3, <1>5, <1>6 DEF Odd, Even

LEMMA OddEvenNothing == Odd(<<>>) = <<>> /\ Even(<<>>) = <<>>
<1>1. <<>> \in Seq(Nat) /\ Len(<<>>) = 0  OBVIOUS
<1>2. (0 + 1) \div 2 = 0 /\ 0 \div 2 = 0  OBVIOUS
<1>3. Len(Odd(<<>>)) = 0 /\ Len(Even(<<>>)) = 0  BY <1>1, <1>2, OddEvenType
<1>. QED  BY <1>1, <1>3, OddEvenType, EmptySeq

LEMMA OddEvenRead ==
  ASSUME NEW w \in Seq(Nat), w # <<>>
  PROVE  Even(w) = Odd(Tail(w)) /\ Odd(w) = <<Head(w)>> \o Even(Tail(w))
<1>. DEFINE v == Tail(w)
<1>1. /\ Len(w) \in Nat /\ Len(w) >= 1 /\ Head(w) = w[1] /\ Head(w) \in Nat
      /\ v \in Seq(Nat) /\ Len(v) = Len(w) - 1
      /\ \A i \in 1..Len(w) - 1 : v[i] = w[i + 1]
  OBVIOUS
<1>. HIDE DEF v
<1>2. Even(w) = Odd(v)
  <2>1. Len(Even(w)) = Len(w) \div 2 /\ Len(Odd(v)) = Len(w) \div 2
    <3>1. Len(v) + 1 = Len(w)  BY <1>1
    <3>. QED  BY <1>1, <3>1, OddEvenType
  <2>2. ASSUME NEW i \in 1..Len(w) \div 2 PROVE Even(w)[i] = Odd(v)[i]
    <3>1. Even(w)[i] = w[2 * i]  BY <1>1, OddEvenType
    <3>2. (Len(v) + 1) \div 2 = Len(w) \div 2  BY <1>1
    <3>3. Odd(v)[i] = v[2 * i - 1] /\ 2 * i - 1 \in 1..Len(v)  BY <1>1, <3>2, OddEvenType
    <3>4. v[2 * i - 1] = w[2 * i - 1 + 1]  BY <1>1, <3>3
    <3>. QED  BY <3>1, <3>3, <3>4
  <2>. QED  BY <1>1, <2>1, <2>2, OddEvenType, SeqEqual
<1>3. Odd(w) = <<Head(w)>> \o Even(v)
  <2>. DEFINE u == <<Head(w)>> \o Even(v)
  <2>1. /\ u \in Seq(Nat) /\ Len(u) = 1 + Len(v) \div 2
        /\ u[1] = Head(w) /\ \A i \in 2..1 + Len(v) \div 2 : u[i] = Even(v)[i - 1]
    <3>1. <<Head(w)>> \in Seq(Nat) /\ Len(<<Head(w)>>) = 1 /\ <<Head(w)>>[1] = Head(w)  BY <1>1
    <3>2. Even(v) \in Seq(Nat) /\ Len(Even(v)) = Len(v) \div 2  BY <1>1, OddEvenType
    <3>. QED  BY <3>1, <3>2, ConcatProperties
  <2>. HIDE DEF u
  <2>2. Len(Odd(w)) = Len(u)
    <3>1. (Len(w) + 1) \div 2 = 1 + Len(v) \div 2
      <4>1. Len(v) \in Nat /\ Len(w) + 1 = Len(v) + 2  BY <1>1
      <4>2. (Len(v) + 2) \div 2 = Len(v) \div 2 + 1 /\ Len(v) \div 2 \in Nat  BY <4>1, Halves
      <4>. QED  BY <4>1, <4>2
    <3>. QED  BY <1>1, <2>1, <3>1, OddEvenType
  <2>3. ASSUME NEW i \in 1..Len(u) PROVE Odd(w)[i] = u[i]
    <3>1. i \in 1..(Len(w) + 1) \div 2  BY <1>1, <2>1, <2>2, OddEvenType
    <3>2. Odd(w)[i] = w[2 * i - 1] /\ 2 * i - 1 \in 1..Len(w)  BY <1>1, <3>1, OddEvenType
    <3>3. CASE i = 1  BY <1>1, <2>1, <3>2, <3>3
    <3>4. CASE i # 1
      <4>1. i \in 2..1 + Len(v) \div 2 /\ i - 1 \in 1..Len(v) \div 2  BY <1>1, <2>1, <3>4
      <4>2. u[i] = Even(v)[i - 1]  BY <2>1, <4>1
      <4>3. Even(v)[i - 1] = v[2 * (i - 1)] /\ 2 * (i - 1) \in 1..Len(v)  BY <1>1, <4>1, OddEvenType
      <4>4. v[2 * (i - 1)] = w[2 * (i - 1) + 1]  BY <1>1, <4>3
      <4>5. 2 * (i - 1) + 1 = 2 * i - 1  OBVIOUS
      <4>. QED  BY <3>2, <4>2, <4>3, <4>4, <4>5
    <3>. QED  BY <3>3, <3>4
  <2>4. Odd(w) = u  BY <1>1, <2>1, <2>2, <2>3, OddEvenType, SeqEqual
  <2>. QED  BY <2>4 DEF u
<1>. QED  BY <1>2, <1>3 DEF v

LEMMA OddEvenWritten ==
  ASSUME NEW w \in Seq(Nat), NEW x \in Nat
  PROVE  /\ Even(Append(w, x)) = IF IsOdd(w) THEN Append(Even(w), x) ELSE Even(w)
         /\ Odd(Append(w, x)) = IF IsOdd(w) THEN Odd(w) ELSE Append(Odd(w), x)
<1>. DEFINE v == Append(w, x)
<1>1. /\ v \in Seq(Nat) /\ Len(w) \in Nat /\ Len(v) = Len(w) + 1
      /\ \A i \in 1..Len(w) : v[i] = w[i]
      /\ v[Len(w) + 1] = x
  OBVIOUS
<1>. HIDE DEF v
<1>2. ASSUME NEW s \in Seq(Nat)
      PROVE  /\ Append(s, x) \in Seq(Nat) /\ Len(Append(s, x)) = Len(s) + 1
             /\ \A i \in 1..Len(s) : Append(s, x)[i] = s[i]
             /\ Append(s, x)[Len(s) + 1] = x
  OBVIOUS
<1>3. CASE IsOdd(w)
  <2>1. /\ Len(w) = 2 * (Len(w) \div 2) + 1 /\ Len(w) \div 2 \in Nat
        /\ Len(v) \div 2 = Len(w) \div 2 + 1
        /\ (Len(v) + 1) \div 2 = (Len(w) + 1) \div 2
    <3>1. Len(v) = Len(w) + 1 /\ Len(v) + 1 = Len(w) + 2  BY <1>1
    <3>2. Len(w) % 2 = 1  BY <1>3 DEF IsOdd
    <3>3. (Len(w) + 2) \div 2 = Len(w) \div 2 + 1  BY <1>1, Halves
    <3>4. /\ Len(w) \div 2 \in Nat /\ Len(w) = 2 * (Len(w) \div 2) + 1
          /\ (Len(w) + 1) \div 2 = Len(w) \div 2 + 1
      BY <1>1, <3>2, Halves
    <3>. QED  BY <3>1, <3>3, <3>4
  <2>2. Even(v) = Append(Even(w), x)
    <3>1. Len(Even(v)) = Len(Append(Even(w), x))  BY <1>1, <1>2, <2>1, OddEvenType
    <3>2. ASSUME NEW i \in 1..Len(Even(v)) PROVE Even(v)[i] = Append(Even(w), x)[i]
      <4>1. i \in 1..Len(v) \div 2 /\ Even(v)[i] = v[2 * i]  BY <1>1, OddEvenType
      <4>2. CASE i = Len(w) \div 2 + 1
        <5>1. 2 * i = Len(w) + 1
          <6>1. PICK h \in Nat : h = Len(w) \div 2  BY <2>1
          <6>2. Len(w) = 2 * h + 1 /\ i = h + 1  BY <2>1, <4>2, <6>1
          <6>. QED  BY <6>2
        <5>2. Even(v)[i] = x  BY <1>1, <4>1, <5>1
        <5>3. i = Len(Even(w)) + 1 /\ Even(w) \in Seq(Nat)  BY <4>2, OddEvenType
        <5>. QED  BY <1>2, <5>2, <5>3
      <4>3. CASE i # Len(w) \div 2 + 1
        <5>1. i \in 1..Len(w) \div 2  BY <2>1, <4>1, <4>3
        <5>2. Even(w)[i] = w[2 * i] /\ 2 * i \in 1..Len(w)  BY <5>1, OddEvenType
        <5>3. Append(Even(w), x)[i] = Even(w)[i]  BY <1>2, <5>1, OddEvenType
        <5>. QED  BY <1>1, <4>1, <5>2, <5>3
      <4>. QED  BY <4>2, <4>3
    <3>. QED  BY <1>1, <1>2, <3>1, <3>2, OddEvenType, SeqEqual
  <2>3. Odd(v) = Odd(w)
    <3>1. Len(Odd(v)) = Len(Odd(w))  BY <1>1, <2>1, OddEvenType
    <3>2. ASSUME NEW i \in 1..Len(Odd(v)) PROVE Odd(v)[i] = Odd(w)[i]
      <4>1. i \in 1..(Len(v) + 1) \div 2 /\ Odd(v)[i] = v[2 * i - 1]  BY <1>1, OddEvenType
      <4>2. Odd(w)[i] = w[2 * i - 1] /\ 2 * i - 1 \in 1..Len(w)  BY <2>1, <4>1, OddEvenType
      <4>. QED  BY <1>1, <4>1, <4>2
    <3>. QED  BY <1>1, <3>1, <3>2, OddEvenType, SeqEqual
  <2>. QED  BY <1>3, <2>2, <2>3 DEF v
<1>4. CASE ~IsOdd(w)
  <2>1. /\ Len(w) = 2 * (Len(w) \div 2) /\ (Len(w) + 1) \div 2 \in Nat
        /\ (Len(w) + 1) \div 2 = Len(w) \div 2
        /\ (Len(v) + 1) \div 2 = (Len(w) + 1) \div 2 + 1
        /\ Len(v) \div 2 = Len(w) \div 2
    <3>1. Len(v) = Len(w) + 1 /\ Len(v) + 1 = Len(w) + 2  BY <1>1
    <3>2. Len(w) % 2 = 0  BY <1>1, <1>4, Halves DEF IsOdd
    <3>3. (Len(w) + 2) \div 2 = Len(w) \div 2 + 1  BY <1>1, Halves
    <3>4. /\ Len(w) \div 2 \in Nat /\ Len(w) = 2 * (Len(w) \div 2)
          /\ (Len(w) + 1) \div 2 = Len(w) \div 2
      BY <1>1, <3>2, Halves
    <3>. QED  BY <3>1, <3>3, <3>4
  <2>2. Odd(v) = Append(Odd(w), x)
    <3>1. Len(Odd(v)) = Len(Append(Odd(w), x))  BY <1>1, <1>2, <2>1, OddEvenType
    <3>2. ASSUME NEW i \in 1..Len(Odd(v)) PROVE Odd(v)[i] = Append(Odd(w), x)[i]
      <4>1. i \in 1..(Len(v) + 1) \div 2 /\ Odd(v)[i] = v[2 * i - 1]  BY <1>1, OddEvenType
      <4>2. CASE i = (Len(w) + 1) \div 2 + 1
        <5>1. 2 * i - 1 = Len(w) + 1
          <6>1. PICK h \in Nat : h = Len(w) \div 2  BY <2>1
          <6>2. Len(w) = 2 * h /\ i = h + 1  BY <2>1, <4>2, <6>1
          <6>. QED  BY <6>2
        <5>2. Odd(v)[i] = x  BY <1>1, <4>1, <5>1
        <5>3. i = Len(Odd(w)) + 1 /\ Odd(w) \in Seq(Nat)  BY <4>2, OddEvenType
        <5>. QED  BY <1>2, <5>2, <5>3
      <4>3. CASE i # (Len(w) + 1) \div 2 + 1
        <5>1. i \in 1..(Len(w) + 1) \div 2  BY <2>1, <4>1, <4>3
        <5>2. Odd(w)[i] = w[2 * i - 1] /\ 2 * i - 1 \in 1..Len(w)  BY <5>1, OddEvenType
        <5>3. Append(Odd(w), x)[i] = Odd(w)[i]  BY <1>2, <5>1, OddEvenType
        <5>. QED  BY <1>1, <4>1, <5>2, <5>3
      <4>. QED  BY <4>2, <4>3
    <3>. QED  BY <1>1, <1>2, <3>1, <3>2, OddEvenType, SeqEqual
  <2>3. Even(v) = Even(w)
    <3>1. Len(Even(v)) = Len(Even(w))  BY <1>1, <2>1, OddEvenType
    <3>2. ASSUME NEW i \in 1..Len(Even(v)) PROVE Even(v)[i] = Even(w)[i]
      <4>1. i \in 1..Len(v) \div 2 /\ Even(v)[i] = v[2 * i]  BY <1>1, OddEvenType
      <4>2. Even(w)[i] = w[2 * i] /\ 2 * i \in 1..Len(w)  BY <2>1, <4>1, OddEvenType
      <4>. QED  BY <1>1, <4>1, <4>2
    <3>. QED  BY <1>1, <3>1, <3>2, OddEvenType, SeqEqual
  <2>. QED  BY <1>4, <2>2, <2>3 DEF v
<1>. QED  BY <1>3, <1>4

-----------------------------------------------------------------------------
(* The way of a connection's values: the one in the thread's hands, then   *)
(* those on the wire.                                                      *)
Way(k) == Read(k) \o Unread(k)

LEMMA WayType ==
  ASSUME Types, NEW k \in Conns
  PROVE  /\ Unread(k) \in Seq(Nat) /\ Way(k) \in Seq(Nat)
         /\ inHand[k] = NoConn => Way(k) = Unread(k)
         /\ inHand[k] # NoConn =>
              Way(k) # <<>> /\ Head(Way(k)) = inHand[k] /\ Tail(Way(k)) = Unread(k)
<1>1. wire[k] \in Seq(Nat) /\ inHand[k] \in Nat  BY DEF Types
<1>2. Unread(k) \in Seq(Nat)  BY <1>1, OddEvenType DEF Unread
<1>3. \A s \in Seq(Nat), h \in Nat :
        /\ <<>> \o s = s
        /\ <<h>> \o s \in Seq(Nat) /\ <<h>> \o s # <<>>
        /\ Head(<<h>> \o s) = h /\ Tail(<<h>> \o s) = s
  <2>. TAKE s \in Seq(Nat), h \in Nat
  <2>. DEFINE u == <<h>> \o s
  <2>1. <<h>> \in Seq(Nat) /\ Len(<<h>>) = 1 /\ <<h>>[1] = h /\ Len(s) \in Nat  OBVIOUS
  <2>2. /\ u \in Seq(Nat) /\ Len(u) = 1 + Len(s) /\ u[1] = h
        /\ \A i \in 2..1 + Len(s) : u[i] = s[i - 1]
    BY <2>1, ConcatProperties
  <2>3. <<>> \o s = s  BY ConcatEmptySeq
  <2>. HIDE DEF u
  <2>4. u # <<>> /\ Head(u) = h /\ Tail(u) \in Seq(Nat) /\ Len(Tail(u)) = Len(s)
        /\ \A i \in 1..Len(s) : Tail(u)[i] = u[i + 1]
    BY <2>1, <2>2
  <2>5. \A i \in 1..Len(s) : Tail(u)[i] = s[i]
    <3>. TAKE i \in 1..Len(s)
    <3>1. i + 1 \in 2..1 + Len(s) /\ i + 1 - 1 = i  BY <2>1
    <3>2. u[i + 1] = s[i + 1 - 1]  BY <2>2, <3>1
    <3>. QED  BY <2>4, <3>1, <3>2
  <2>6. Tail(u) = s  BY <2>4, <2>5, SeqEqual
  <2>. QED  BY <2>2, <2>3, <2>4, <2>6 DEF u
<1>. QED  BY <1>1, <1>2, <1>3 DEF Way, Read

(* The values on a client's way have been sent.                            *)
LEMMA WaySent ==
  ASSUME Consistent, NEW k \in Conns, Live(k)
  PROVE  \A i \in 1..Len(Way(k)) : Way(k)[i] <= Newest(owner[k])
<1>. DEFINE n == Newest(owner[k])
<1>1. /\ wire[k] \in Seq(Nat) /\ inHand[k] \in Nat /\ inHand[k] <= n
      /\ \A i \in 1..Len(wire[k]) : wire[k][i] <= n
  BY DEF Consistent, Types, OnlySent, UpTo
<1>2. \A i \in 1..Len(Unread(k)) : Unread(k)[i] <= n
  BY <1>1, OddEvenType DEF Unread
<1>. HIDE DEF n
<1>3. Types  BY DEF Consistent
<1>4. CASE inHand[k] = NoConn  BY <1>2, <1>3, <1>4, WayType DEF n
<1>5. CASE inHand[k] # NoConn
  <2>. DEFINE u == Way(k)
  <2>1. u \in Seq(Nat) /\ u # <<>> /\ Head(u) = inHand[k] /\ Tail(u) = Unread(k)
    BY <1>3, <1>5, WayType
  <2>. HIDE DEF u
  <2>2. ASSUME NEW i \in 1..Len(u) PROVE u[i] <= n
    <3>1. CASE i = 1  BY <1>1, <2>1, <3>1
    <3>2. CASE i # 1
      <4>1. i - 1 \in 1..Len(Tail(u)) /\ Tail(u)[i - 1] = u[i]  BY <2>1, <3>2
      <4>. QED  BY <1>2, <2>1, <4>1
    <3>. QED  BY <3>1, <3>2
  <2>. QED  BY <2>2 DEF u, n
<1>. QED  BY <1>4, <1>5 DEF n

(* What is on a client's way is on that of its only live connection.       *)
WaysAreKnown ==
  \A c \in Clients :
    /\ \A k \in Conns : Live(k) /\ owner[k] = c => OnItsWay(c) = Way(k)
    /\ (\A k \in Conns : Live(k) => owner[k] # c) => OnItsWay(c) = <<>>

LEMMA WaysKnown == Consistent => WaysAreKnown
<1>. SUFFICES ASSUME Consistent, NEW c \in Clients
              PROVE  /\ \A k \in Conns : Live(k) /\ owner[k] = c => OnItsWay(c) = Way(k)
                     /\ (\A k \in Conns : Live(k) => owner[k] # c) => OnItsWay(c) = <<>>
  BY DEF WaysAreKnown
<1>. DEFINE live == {k \in Conns : owner[k] = c /\ Live(k)}
<1>1. ASSUME NEW k \in Conns, Live(k), owner[k] = c PROVE OnItsWay(c) = Way(k)
  <2>1. k \in live /\ \A l \in live : l = k  BY <1>1 DEF Consistent, OneConnection
  <2>2. (CHOOSE l \in live : TRUE) = k  BY <2>1
  <2>. QED  BY <2>1, <2>2 DEF OnItsWay, Way
<1>2. ASSUME \A k \in Conns : Live(k) => owner[k] # c PROVE OnItsWay(c) = <<>>
  <2>1. live = {}  BY <1>2
  <2>. QED  BY <2>1 DEF OnItsWay
<1>. QED  BY <1>1, <1>2

(* A client whose connection and what is on it stay has the same on its    *)
(* way.                                                                    *)
LEMMA SameWay ==
  ASSUME WaysAreKnown, WaysAreKnown', NEW c \in Clients,
         \A k \in Conns : Live(k)' /\ owner'[k] = c <=> Live(k) /\ owner[k] = c,
         \A k \in Conns : Live(k) /\ owner[k] = c => Way(k)' = Way(k)
  PROVE  OnItsWay(c)' = OnItsWay(c)
<1>1. CASE \E k \in Conns : Live(k) /\ owner[k] = c
  <2>1. PICK k \in Conns : Live(k) /\ owner[k] = c  BY <1>1
  <2>2. OnItsWay(c) = Way(k)  BY <2>1 DEF WaysAreKnown
  <2>3. OnItsWay(c)' = Way(k)'  BY <2>1 DEF WaysAreKnown
  <2>. QED  BY <2>1, <2>2, <2>3
<1>2. CASE \A k \in Conns : Live(k) => owner[k] # c
  <2>1. OnItsWay(c) = <<>>  BY <1>2 DEF WaysAreKnown
  <2>2. OnItsWay(c)' = <<>>  BY <1>2 DEF WaysAreKnown
  <2>. QED  BY <2>1, <2>2
<1>. QED  BY <1>1, <1>2

Kept == UNCHANGED value /\ UNCHANGED stored /\ \A c \in Clients : OnItsWay(c)' = OnItsWay(c)

LEMMA KeptIsStutter == Kept => UNCHANGED Channel!vars
BY DEF Kept, Channel!vars

(* An action that neither ends a connection nor touches what is on it.     *)
LEMMA Stutter ==
  ASSUME WaysAreKnown, WaysAreKnown', UNCHANGED <<value, stored, owner>>,
         \A k \in Conns : Live(k)' <=> Live(k),
         \A k \in Conns : Live(k) => Way(k)' = Way(k)
  PROVE  Kept
BY SameWay DEF Kept

LEMMA AbstractSend ==
  ASSUME NEW c \in Clients, UNCHANGED <<value, stored>>,
         \A d \in Clients : d # c => OnItsWay(d)' = OnItsWay(d),
         OnItsWay(c)' = Append(OnItsWay(c), value[c]),
         \A i \in DOMAIN OnItsWay(c) : OnItsWay(c)[i] # value[c],
         \A i \in DOMAIN stored[c] : stored[c][i] # value[c]
  PROVE  Channel!Send(c)
BY DEF Channel!Send

LEMMA AbstractLose ==
  ASSUME NEW c \in Clients, UNCHANGED <<value, stored>>,
         \A d \in Clients : d # c => OnItsWay(d)' = OnItsWay(d),
         OnItsWay(c)' = <<>>
  PROVE  Channel!Lose(c)
BY DEF Channel!Lose

LEMMA AbstractDeliver ==
  ASSUME NEW c \in Clients, UNCHANGED value,
         \A d \in Clients : d # c => OnItsWay(d)' = OnItsWay(d),
         OnItsWay(c) # <<>>, OnItsWay(c)' = Tail(OnItsWay(c)),
         stored' = [stored EXCEPT ![c] = Append(@, Head(OnItsWay(c)))]
  PROVE  Channel!Deliver(c)
BY DEF Channel!Deliver

LEMMA ConcatAppend ==
  ASSUME NEW s \in Seq(Nat), NEW u \in Seq(Nat), NEW x \in Nat
  PROVE  s \o Append(u, x) = Append(s \o u, x)
<1>. DEFINE one == <<x>>
            both == s \o u
<1>1. one \in Seq(Nat) /\ both \in Seq(Nat)  OBVIOUS
<1>2. Append(u, x) = u \o one /\ Append(both, x) = both \o one  BY <1>1, AppendIsConcat
<1>3. s \o (u \o one) = both \o one  BY <1>1, ConcatAssociative
<1>. QED  BY <1>2, <1>3

(* A client's step numbers a value, sends it, or changes nothing.          *)
LEMMA ClientRefines ==
  ASSUME Consistent, WaysAreKnown, WaysAreKnown', NEW c \in Clients,
         rrepos_put(c) \/ ClientStep(c) \/ Exit(c)
  PROVE  Channel!Number(c) \/ Channel!Send(c) \/ Kept
<1>0. Types /\ \A k \in Conns : wire[k] \in Seq(Nat)  BY DEF Consistent, Types
<1>1. CASE rrepos_put(c)
  <2>1. /\ value' = [value EXCEPT ![c] = @ + 1]
        /\ UNCHANGED <<owner, serverEnd, wire, tpc, inHand, stored>>
    BY <1>1 DEF rrepos_put
  <2>2. \A d \in Clients : OnItsWay(d)' = OnItsWay(d)
    BY <2>1, SameWay DEF Live, Way, Read, Unread
  <2>. QED  BY <2>1, <2>2 DEF Channel!Number
<1>2. CASE Connect(c)
  <2>1. PICK k \in Conns :
          /\ serverEnd[k] = "none" /\ serverEnd' = [serverEnd EXCEPT ![k] = "backlog"]
          /\ owner' = [owner EXCEPT ![k] = c]
          /\ cpc[c] = "connect" /\ UNCHANGED <<value, stored, wire, tpc, inHand>>
    <3>1. \E k \in Unused : \A l \in Unused : k <= l
      BY <1>2, ConnsAreNumbers, LeastNumber DEF Connect, Unused
    <3>. QED  BY <1>2, <3>1 DEF Connect, Unused
  <2>2. \A l \in Conns : Live(l) => owner[l] # c  BY <2>1 DEF Consistent, OneConnection
  <2>3. \A l \in Conns : l # k => (Live(l)' <=> Live(l)) /\ owner'[l] = owner[l]
    BY <2>1, <1>0 DEF Types, Live
  <2>4. \A l \in Conns : Way(l)' = Way(l)  BY <2>1 DEF Way, Read, Unread
  <2>5. ~Live(k) /\ Live(k)' /\ owner'[k] = c  BY <2>1, <1>0 DEF Types, Live
  <2>6. ASSUME NEW d \in Clients, d # c PROVE OnItsWay(d)' = OnItsWay(d)
    <3>1. \A l \in Conns : Live(l)' /\ owner'[l] = d <=> Live(l) /\ owner[l] = d
      BY <2>3, <2>5, <2>6
    <3>. QED  BY <2>4, <3>1, SameWay
  <2>7. OnItsWay(c)' = OnItsWay(c)
    <3>1. OnItsWay(c) = <<>>  BY <2>2 DEF WaysAreKnown
    <3>2. OnItsWay(c)' = Way(k)'  BY <2>5 DEF WaysAreKnown
    <3>3. wire[k] = <<>> /\ tpc[k] = "none" /\ inHand[k] = NoConn
      BY <2>1 DEF Consistent, Ends, Live, HandsFull
    <3>4. Unread(k) = <<>>  BY <3>3, OddEvenNothing DEF Unread
    <3>5. Way(k) = <<>>  BY <1>0, <3>3, <3>4, WayType
    <3>. QED  BY <2>4, <3>1, <3>2, <3>5
  <2>. QED  BY <2>1, <2>6, <2>7 DEF Kept
<1>3. CASE ConnectFails(c) \/ Exit(c)
  <2>1. UNCHANGED <<value, stored, owner, serverEnd, wire, tpc, inHand>>
    BY <1>3 DEF ConnectFails, Exit
  <2>. QED  BY <2>1, Stutter DEF Live, Way, Read, Unread
<1>4. CASE WriteLength(c)
  <2>1. /\ cpc[c] = "length" /\ wire' = Written(srvhdl[c], Header)
        /\ UNCHANGED <<value, stored, owner, serverEnd, tpc, inHand>>
    BY <1>4 DEF WriteLength
  <2>2. /\ srvhdl[c] \in Conns /\ owner[srvhdl[c]] = c
        /\ \A l \in Conns :
             wire'[l] = IF l = srvhdl[c] /\ Live(l) THEN Append(wire[l], Header) ELSE wire[l]
    BY <2>1, Writing, Header \in Nat
  <2>3. ASSUME NEW l \in Conns, Live(l) PROVE Unread(l)' = Unread(l)
    <3>1. CASE l = srvhdl[c]
      <4>1. ~EndsWithLength(l)  BY <2>1, <2>2, <2>3, <3>1 DEF Consistent, Continued
      <4>2. wire'[l] = Append(wire[l], Header)  BY <2>2, <2>3, <3>1
      <4>3. CASE tpc[l] = "body"
        <5>1. Odd(wire'[l]) = Odd(wire[l])
          BY <1>0, <4>1, <4>2, <4>3, OddEvenWritten DEF EndsWithLength
        <5>. QED  BY <2>1, <4>3, <5>1 DEF Unread
      <4>4. CASE tpc[l] # "body"
        <5>1. Even(wire'[l]) = Even(wire[l])
          BY <1>0, <4>1, <4>2, <4>4, OddEvenWritten DEF EndsWithLength
        <5>. QED  BY <2>1, <4>4, <5>1 DEF Unread
      <4>. QED  BY <4>3, <4>4
    <3>2. CASE l # srvhdl[c]  BY <2>1, <2>2, <3>2 DEF Unread
    <3>. QED  BY <3>1, <3>2
  <2>4. \A l \in Conns : Live(l) => Way(l)' = Way(l)  BY <2>1, <2>3 DEF Way, Read
  <2>. QED  BY <2>1, <2>4, Stutter DEF Live
<1>5. CASE WriteContents(c)
  <2>1. /\ cpc[c] = "contents" /\ wire' = Written(srvhdl[c], value[c])
        /\ UNCHANGED <<value, stored, owner, serverEnd, tpc, inHand>>
    BY <1>5 DEF WriteContents
  <2>2. value[c] \in Nat  BY <1>0 DEF Types
  <2>3. PICK k \in Conns :
          /\ owner[k] = c
          /\ \A l \in Conns : wire'[l] = IF l = k /\ Live(l) THEN Append(wire[l], value[c]) ELSE wire[l]
    BY <2>1, <2>2, Writing
  <2>4. \A l \in Conns : l # k => Way(l)' = Way(l)  BY <2>1, <2>3 DEF Way, Read, Unread
  <2>5. CASE ~Live(k)
    <3>1. \A l \in Conns : Live(l) => Way(l)' = Way(l)  BY <2>4, <2>5
    <3>. QED  BY <2>1, <3>1, Stutter DEF Live
  <2>6. CASE Live(k)
    <3>1. EndsWithLength(k) /\ wire'[k] = Append(wire[k], value[c])
      BY <2>1, <2>3, <2>6 DEF Consistent, Continued
    <3>2. Unread(k)' = Append(Unread(k), value[c])
      <4>1. CASE tpc[k] = "body"
        <5>1. Odd(wire'[k]) = Append(Odd(wire[k]), value[c])
          BY <1>0, <2>2, <3>1, <4>1, OddEvenWritten DEF EndsWithLength
        <5>. QED  BY <2>1, <4>1, <5>1 DEF Unread
      <4>2. CASE tpc[k] # "body"
        <5>1. Even(wire'[k]) = Append(Even(wire[k]), value[c])
          BY <1>0, <2>2, <3>1, <4>2, OddEvenWritten DEF EndsWithLength
        <5>. QED  BY <2>1, <4>2, <5>1 DEF Unread
      <4>. QED  BY <4>1, <4>2
    <3>3. Way(k)' = Append(Way(k), value[c])
      <4>1. Unread(k) \in Seq(Nat) /\ Read(k) \in Seq(Nat) /\ Read(k)' = Read(k)
        <5>1. inHand[k] \in Nat  BY <1>0 DEF Types
        <5>. QED  BY <1>0, <2>1, <5>1, WayType DEF Read
      <4>2. Read(k) \o Append(Unread(k), value[c]) = Append(Read(k) \o Unread(k), value[c])
        BY <2>2, <4>1, ConcatAppend
      <4>. QED  BY <3>2, <4>1, <4>2 DEF Way
    <3>4. OnItsWay(c) = Way(k) /\ OnItsWay(c)' = Way(k)'
      BY <2>1, <2>3, <2>6 DEF WaysAreKnown, Live
    <3>5. Newest(c) = value[c] - 1  BY <2>1 DEF Newest, Busy
    <3>6. \A i \in DOMAIN OnItsWay(c) : OnItsWay(c)[i] # value[c]
      <4>1. Way(k) \in Seq(Nat)  BY <1>0, WayType
      <4>2. \A i \in 1..Len(Way(k)) : Way(k)[i] <= value[c] - 1  BY <2>3, <2>6, <3>5, WaySent
      <4>. QED  BY <2>2, <3>4, <4>1, <4>2
    <3>7. \A i \in DOMAIN stored[c] : stored[c][i] # value[c]
      <4>1. stored[c] \in Seq(Nat)  BY <1>0 DEF Types
      <4>2. \A i \in 1..Len(stored[c]) : stored[c][i] <= value[c] - 1
        BY <3>5 DEF Consistent, OnlySent, UpTo
      <4>. QED  BY <2>2, <4>1, <4>2
    <3>8. ASSUME NEW d \in Clients, d # c PROVE OnItsWay(d)' = OnItsWay(d)
      <4>1. \A l \in Conns : Live(l)' /\ owner'[l] = d <=> Live(l) /\ owner[l] = d
        BY <2>1 DEF Live
      <4>. QED  BY <2>3, <2>4, <3>8, <4>1, SameWay
    <3>. QED  BY <2>1, <3>3, <3>4, <3>6, <3>7, <3>8, AbstractSend
  <2>. QED  BY <2>5, <2>6
<1>. QED  BY <1>1, <1>2, <1>3, <1>4, <1>5 DEF ClientStep

(* A step of the accept loop changes nothing on a value's way.             *)
LEMMA AcceptRefines ==
  ASSUME Consistent, WaysAreKnown, WaysAreKnown',
         AcceptLoop \/ AcceptFails \/ CreateFails \/ SpuriousWakeup
  PROVE  Kept
<1>1. UNCHANGED <<value, stored, owner, wire, inHand>>
  BY DEF AcceptLoop, rcs_accept, CreateThread, CheckLimit, WokenUp, AcceptFails, CreateFails,
     SpuriousWakeup
<1>2. \A k \in Conns : Live(k)' <=> Live(k)
  BY DEF AcceptLoop, rcs_accept, CreateThread, CheckLimit, WokenUp, AcceptFails, CreateFails,
     SpuriousWakeup,
         Live, Consistent, Types
<1>3. tpc' = tpc \/ (tpc' = [tpc EXCEPT ![ahdl] = "lock"] /\ tpc[ahdl] = "none" /\ ahdl \in Conns)
  BY DEF AcceptLoop, rcs_accept, CreateThread, CheckLimit, WokenUp, AcceptFails, CreateFails,
     SpuriousWakeup,
         Consistent, Accepted, Types
<1>4. \A k \in Conns : Way(k)' = Way(k)
  <2>1. \A k \in Conns : tpc'[k] = "body" <=> tpc[k] = "body"  BY <1>3 DEF Consistent, Types
  <2>. QED  BY <1>1, <2>1 DEF Way, Read, Unread
<1>. QED  BY <1>1, <1>2, <1>4, Stutter

(* A thread's step delivers a value, loses what is on the wire, or changes *)
(* nothing.                                                                *)
LEMMA ThreadRefines ==
  ASSUME Consistent, WaysAreKnown, WaysAreKnown', NEW k \in Conns, ResetArrives(k) \/ Thread(k)
  PROVE  Kept \/ \E c \in Clients : Channel!Deliver(c) \/ Channel!Lose(c)
<1>0. Types /\ wire[k] \in Seq(Nat) /\ inHand[k] \in Nat  BY DEF Consistent, Types
<1>1. CASE ResetArrives(k)
  <2>1. UNCHANGED <<value, stored, owner, serverEnd, wire, tpc, inHand>>
    BY <1>1 DEF ResetArrives
  <2>. QED  BY <2>1, Stutter DEF Live, Way, Read, Unread
<1>2. ASSUME UNCHANGED <<value, stored, owner, serverEnd>>,
             \A l \in Conns : l # k =>
               wire'[l] = wire[l] /\ inHand'[l] = inHand[l] /\ (tpc'[l] = "body" <=> tpc[l] = "body"),
             Way(k)' = Way(k)
      PROVE  Kept
  <2>1. \A l \in Conns : Way(l)' = Way(l)  BY <1>2 DEF Way, Read, Unread
  <2>. QED  BY <1>2, <2>1, Stutter DEF Live
<1>3. CASE Lock(k) \/ GiveUp(k)
  <2>1. /\ UNCHANGED <<value, stored, owner, serverEnd, wire, inHand>>
        /\ \A l \in Conns : l # k => tpc'[l] = tpc[l]
        /\ tpc'[k] # "body" /\ (tpc[k] = "body" => wire[k] = <<>>)
    BY <1>0, <1>3 DEF Types, Lock, GiveUp
  <2>2. Unread(k)' = Unread(k)  BY <2>1, OddEvenNothing DEF Unread
  <2>3. Way(k)' = Way(k)  BY <2>1, <2>2 DEF Way, Read
  <2>. QED  BY <1>2, <2>1, <2>3
<1>4. CASE ReadLength(k)
  <2>1. /\ UNCHANGED <<value, stored, owner, serverEnd, inHand>>
        /\ \A l \in Conns : l # k => tpc'[l] = tpc[l] /\ wire'[l] = wire[l]
        /\ tpc'[k] = "body" /\ tpc[k] = "poll" /\ wire[k] # <<>> /\ wire'[k] = Tail(wire[k])
    BY <1>0, <1>4 DEF Types, ReadLength
  <2>2. Even(wire[k]) = Odd(wire'[k])  BY <1>0, <2>1, OddEvenRead
  <2>3. Unread(k)' = Unread(k)  BY <2>1, <2>2 DEF Unread
  <2>4. Way(k)' = Way(k)  BY <2>1, <2>3 DEF Way, Read
  <2>. QED  BY <1>2, <2>1, <2>4
<1>5. CASE ReadContents(k)
  <2>1. /\ UNCHANGED <<value, stored, owner, serverEnd>>
        /\ \A l \in Conns : l # k => tpc'[l] = tpc[l] /\ wire'[l] = wire[l] /\ inHand'[l] = inHand[l]
        /\ tpc'[k] = "put" /\ tpc[k] = "body" /\ wire[k] # <<>> /\ wire'[k] = Tail(wire[k])
        /\ inHand'[k] = Head(wire[k])
    BY <1>0, <1>5 DEF Types, ReadContents
  <2>2. Odd(wire[k]) = <<Head(wire[k])>> \o Even(wire'[k])  BY <1>0, <2>1, OddEvenRead
  <2>3. inHand[k] = NoConn  BY <2>1 DEF Consistent, HandsFull
  <2>4. Head(wire[k]) # NoConn
    <3>1. FromContents(wire[k])  BY <2>1 DEF Consistent, Framed
    <3>. QED  BY <1>0, <2>1, <3>1, WireRead
  <2>5. Way(k)' = <<Head(wire[k])>> \o Even(wire'[k])  BY <2>1, <2>4 DEF Way, Read, Unread
  <2>6. Way(k) = Odd(wire[k])
    <3>1. Unread(k) = Odd(wire[k])  BY <2>1 DEF Unread
    <3>. QED  BY <1>0, <2>3, <3>1, WayType
  <2>. QED  BY <1>2, <2>1, <2>2, <2>5, <2>6
<1>6. ASSUME NEW c \in Clients, owner[k] = c, reposvalue_put(k)
      PROVE  Channel!Deliver(c)
  <2>1. tpc[k] = "put" /\ Live(k) /\ inHand[k] # NoConn
    BY <1>6 DEF Types, Consistent, Ends, HandsFull, Live, reposvalue_put
  <2>2. Unpacked(k) = inHand[k]
    BY DEF Consistent, MarksAreTrue, Unpacked, Seen64
  <2>3. /\ stored' = [stored EXCEPT ![c] = Append(@, inHand[k])]
        /\ UNCHANGED <<value, owner, serverEnd, wire>>
        /\ inHand'[k] = NoConn /\ tpc'[k] = "lock"
        /\ \A l \in Conns : l # k => tpc'[l] = tpc[l] /\ inHand'[l] = inHand[l]
    BY <1>0, <1>6, <2>2 DEF Types, reposvalue_put
  <2>4. \A l \in Conns : Live(l)' <=> Live(l)  BY <2>3 DEF Live
  <2>5. \A l \in Conns : l # k => Way(l)' = Way(l)  BY <2>3 DEF Way, Read, Unread
  <2>6. Way(k) # <<>> /\ Head(Way(k)) = inHand[k] /\ Tail(Way(k)) = Unread(k)
    BY <1>0, <2>1, WayType
  <2>7. Way(k)' = Unread(k)
    <3>1. Unread(k)' = Unread(k) /\ Read(k)' = <<>>  BY <2>1, <2>3 DEF Unread, Read
    <3>2. Unread(k) \in Seq(Nat)  BY <1>0, WayType
    <3>. QED  BY <3>1, <3>2, ConcatEmptySeq DEF Way
  <2>8. OnItsWay(c) = Way(k) /\ OnItsWay(c)' = Way(k)'
    BY <1>6, <2>1, <2>3, <2>4 DEF WaysAreKnown
  <2>9. ASSUME NEW d \in Clients, d # c PROVE OnItsWay(d)' = OnItsWay(d)
    <3>1. \A l \in Conns : Live(l)' /\ owner'[l] = d <=> Live(l) /\ owner[l] = d
      BY <2>3, <2>4
    <3>. QED  BY <1>6, <2>5, <2>9, <3>1, SameWay
  <2>. QED  BY <2>3, <2>6, <2>7, <2>8, <2>9, AbstractDeliver
<1>7. ASSUME NEW c \in Clients, owner[k] = c, EndThread(k)
      PROVE  Channel!Lose(c)
  <2>1. /\ tpc[k] = "close" /\ serverEnd' = [serverEnd EXCEPT ![k] = "closed"]
        /\ UNCHANGED <<value, stored, owner, inHand>>
        /\ \A l \in Conns : l # k => tpc'[l] = tpc[l] /\ wire'[l] = wire[l]
    BY <1>0, <1>7 DEF Types, EndThread
  <2>2. Live(k)  BY <2>1 DEF Consistent, Types, Ends, Live
  <2>3. ~Live(k)' /\ \A l \in Conns : l # k => (Live(l)' <=> Live(l))
    BY <1>0, <2>1 DEF Types, Live
  <2>4. \A l \in Conns : l # k => Way(l)' = Way(l)  BY <2>1 DEF Way, Read, Unread
  <2>5. OnItsWay(c)' = <<>>
    <3>1. \A l \in Conns : Live(l) /\ owner[l] = c => l = k
      BY <1>7, <2>2 DEF Consistent, OneConnection
    <3>2. \A l \in Conns : Live(l)' => owner'[l] # c  BY <2>1, <2>3, <3>1
    <3>. QED  BY <3>2 DEF WaysAreKnown
  <2>6. ASSUME NEW d \in Clients, d # c PROVE OnItsWay(d)' = OnItsWay(d)
    <3>1. \A l \in Conns : Live(l)' /\ owner'[l] = d <=> Live(l) /\ owner[l] = d
      BY <1>7, <2>1, <2>3, <2>6
    <3>. QED  BY <1>7, <2>4, <2>6, <3>1, SameWay
  <2>. QED  BY <2>1, <2>5, <2>6, AbstractLose
<1>8. tpc[k] \in {"put", "close"} => owner[k] \in Clients  BY DEF Consistent, Ends
<1>. QED  BY <1>1, <1>3, <1>4, <1>5, <1>6, <1>7, <1>8 DEF Thread, reposvalue_put, EndThread

(* Values of one client are stored in the order they were sent, each at    *)
(* most once and none that was not sent: the connections of comms/rc*_ip.c *)
(* with their resets, repeated writes, two widths of longs and threads are *)
(* a channel that loses values and does no worse.                          *)
THEOREM PathIsLossyChannel == Spec => IsLossyChannel
<1>1. Init => Channel!Init
  <2>. SUFFICES ASSUME Init PROVE Channel!Init  OBVIOUS
  <2>1. \A c \in Clients : OnItsWay(c) = <<>>
    BY DEF Init, ConnInit, OnItsWay, Live
  <2>. QED  BY <2>1 DEF Init, ClientInit, PoolInit, Channel!Init
<1>2. ASSUME Inv, WaysAreKnown, WaysAreKnown', [Next]_vars
      PROVE  [Channel!Next]_(Channel!vars)
  <2>. USE DEF Inv
  <2>1. ASSUME NEW c \in Clients, rrepos_put(c) \/ ClientStep(c) \/ Exit(c)
        PROVE  Channel!Next \/ UNCHANGED Channel!vars
    BY <1>2, <2>1, ClientRefines, KeptIsStutter DEF Channel!Next
  <2>2. ASSUME NEW k \in Conns, ResetArrives(k) \/ Thread(k)
        PROVE  Channel!Next \/ UNCHANGED Channel!vars
    BY <1>2, <2>2, ThreadRefines, KeptIsStutter DEF Channel!Next
  <2>3. ASSUME AcceptLoop \/ AcceptFails \/ CreateFails \/ SpuriousWakeup
        PROVE  UNCHANGED Channel!vars
    BY <1>2, <2>3, AcceptRefines, KeptIsStutter
  <2>4. ASSUME UNCHANGED vars PROVE UNCHANGED Channel!vars
    <3>1. UNCHANGED <<value, stored, owner, serverEnd, wire, tpc, inHand>>  BY <2>4 DEF vars
    <3>2. Kept  BY <1>2, <3>1, Stutter DEF Live, Way, Read, Unread
    <3>. QED  BY <3>2, KeptIsStutter
  <2>. QED  BY <1>2, <2>1, <2>2, <2>3, <2>4 DEF Next
<1>3. Inv => WaysAreKnown  BY WaysKnown DEF Inv
<1>. QED  BY <1>1, <1>2, <1>3, PathInvariant, PTL DEF Spec, IsLossyChannel, Channel!Spec
=============================================================================
