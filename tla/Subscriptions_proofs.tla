-------------------------- MODULE Subscriptions_proofs -------------------------
(***************************************************************************)
(* Proofs about the subscriptions of reposd (sforward.c, repos.c and the   *)
(* callbacks of mreposl.c), for any metrics, calls, reloads and widths.    *)
(* Where a property does not hold for every instance, the theorem says in  *)
(* its hypotheses for which it does.                                       *)
(***************************************************************************)
EXTENDS Subscriptions, FiniteSetTheorems, SequenceTheorems, WellFoundedInduction, TLAPS

USE SubscriptionsAssumption

-----------------------------------------------------------------------------
(* Numbers and sequences.                                                  *)

(* A set of numbers that is not empty has a least one.                     *)
LEMMA LeastNumber ==
  ASSUME NEW S, S \subseteq Nat, S # {}
  PROVE  \E n \in S : \A m \in S : n <= m
<1>1. PICK n \in S : \A m \in S : ~ <<m, n>> \in OpToRel(<, Nat)
  BY WFMin, NatLessThanWellFounded, Zenon
<1>2. ASSUME NEW m \in S PROVE n <= m
  <2>1. ~ m < n /\ m \in Nat /\ n \in Nat  BY <1>1, Zenon DEF OpToRel
  <2>. QED  BY <2>1
<1>. QED  BY <1>2

(* InsertAt of the community modules: the elements after i move up.        *)
LEMMA InsertAtElements ==
  ASSUME NEW S, NEW s \in Seq(S), NEW e \in S, NEW i \in 1 .. Len(s) + 1
  PROVE  /\ InsertAt(s, i, e) \in Seq(S)
         /\ Len(InsertAt(s, i, e)) = Len(s) + 1
         /\ \A j \in 1 .. Len(s) + 1 :
              InsertAt(s, i, e)[j] = IF j < i THEN s[j] ELSE IF j = i THEN e ELSE s[j - 1]
<1>. DEFINE front == SubSeq(s, 1, i - 1)
            back  == SubSeq(s, i, Len(s))
<1>1. /\ front \in Seq(S) /\ Len(front) = i - 1
      /\ \A j \in 1 .. i - 1 : front[j] = s[j]
  BY SubSeqProperties
<1>2. /\ back \in Seq(S) /\ Len(back) = Len(s) - i + 1
      /\ \A j \in 1 .. Len(s) - i + 1 : back[j] = s[i + j - 1]
  BY SubSeqProperties
<1>3. InsertAt(s, i, e) = (front \o <<e>>) \o back  BY DEF InsertAt
<1>. HIDE DEF front, back
<1>4. <<e>> \in Seq(S) /\ Len(<<e>>) = 1 /\ <<e>>[1] = e  OBVIOUS
<1>5. /\ front \o <<e>> \in Seq(S) /\ Len(front \o <<e>>) = i
      /\ \A j \in 1 .. i : (front \o <<e>>)[j] = IF j < i THEN s[j] ELSE e
  BY <1>1, <1>4, ConcatProperties
<1>6. /\ InsertAt(s, i, e) \in Seq(S)
      /\ Len(InsertAt(s, i, e)) = Len(s) + 1
  <2>1. Len(s) \in Nat  OBVIOUS
  <2>2. /\ (front \o <<e>>) \o back \in Seq(S)
        /\ Len((front \o <<e>>) \o back) = Len(front \o <<e>>) + Len(back)
    BY <1>2, <1>5, ConcatProperties
  <2>3. i + (Len(s) - i + 1) = Len(s) + 1  BY <2>1
  <2>4. Len(InsertAt(s, i, e)) = i + (Len(s) - i + 1)  BY <2>2, <1>2, <1>3, <1>5
  <2>. QED  BY <2>2, <2>3, <2>4, <1>3
<1>7. ASSUME NEW j \in 1 .. Len(s) + 1
      PROVE  InsertAt(s, i, e)[j] = IF j < i THEN s[j] ELSE IF j = i THEN e ELSE s[j - 1]
  <2>1. CASE j <= i
    BY <2>1, <1>2, <1>3, <1>5, ConcatProperties
  <2>2. CASE j > i
    <3>1. InsertAt(s, i, e)[j] = back[j - i]
      BY <2>2, <1>2, <1>3, <1>5, ConcatProperties
    <3>2. back[j - i] = s[i + (j - i) - 1]  BY <2>2, <1>2
    <3>. QED  BY <2>2, <3>1, <3>2
  <2>. QED  BY <2>1, <2>2
<1>. QED  BY <1>6, <1>7

(* RemoveAt: the elements after i move down.                               *)
LEMMA RemoveAtElements ==
  ASSUME NEW S, NEW s \in Seq(S), NEW i \in 1 .. Len(s)
  PROVE  /\ RemoveAt(s, i) \in Seq(S)
         /\ Len(RemoveAt(s, i)) = Len(s) - 1
         /\ \A j \in 1 .. Len(s) - 1 :
              RemoveAt(s, i)[j] = IF j < i THEN s[j] ELSE s[j + 1]
<1>. DEFINE front == SubSeq(s, 1, i - 1)
            back  == SubSeq(s, i + 1, Len(s))
<1>1. /\ front \in Seq(S) /\ Len(front) = i - 1
      /\ \A j \in 1 .. i - 1 : front[j] = s[j]
  BY SubSeqProperties
<1>2. /\ back \in Seq(S) /\ Len(back) = Len(s) - i
      /\ \A j \in 1 .. Len(s) - i : back[j] = s[(i + 1) + j - 1]
  BY SubSeqProperties
<1>3. RemoveAt(s, i) = front \o back  BY DEF RemoveAt
<1>. HIDE DEF front, back
<1>4. /\ front \o back \in Seq(S)
      /\ Len(front \o back) = Len(front) + Len(back)
      /\ \A j \in 1 .. Len(front) + Len(back) :
           (front \o back)[j] = IF j <= Len(front) THEN front[j] ELSE back[j - Len(front)]
  BY <1>1, <1>2, ConcatProperties
<1>5. Len(front) + Len(back) = Len(s) - 1  BY <1>1, <1>2
<1>6. ASSUME NEW j \in 1 .. Len(s) - 1
      PROVE  (front \o back)[j] = IF j < i THEN s[j] ELSE s[j + 1]
  <2>1. CASE j < i
    BY <2>1, <1>1, <1>4, <1>5
  <2>2. CASE j >= i
    <3>1. (front \o back)[j] = back[j - (i - 1)]  BY <2>2, <1>1, <1>4, <1>5
    <3>2. back[j - (i - 1)] = s[(i + 1) + (j - (i - 1)) - 1]  BY <2>2, <1>2
    <3>. QED  BY <2>2, <3>1, <3>2
  <2>3. j < i \/ j >= i  OBVIOUS
  <2>. QED  BY <2>1, <2>2, <2>3
<1>7. RemoveAt(s, i) \in Seq(S) /\ Len(RemoveAt(s, i)) = Len(s) - 1
  BY <1>3, <1>4, <1>5
<1>8. ASSUME NEW j \in 1 .. Len(s) - 1
      PROVE  RemoveAt(s, i)[j] = IF j < i THEN s[j] ELSE s[j + 1]
  BY <1>3, <1>6
<1>. QED  BY <1>7, <1>8

-----------------------------------------------------------------------------
(* The types of the tables, and of the request and the walk.               *)

Forwarding   == [mid : Metrics, corrid : Nat, orig : Correlators, listener : Listeners]
Subscription == {s \in [mid : Metrics, base : Nat, corrid : Nat] : s.base = BaseOf[s.mid]}
Entry        == [mid : Nat, registered : BOOLEAN, usecount : Int]
Request      == [mid : Metrics, corrid : Nat, listener : Listeners]
Walk         == [at : {"idle", "read", "forward", "ended"},
                 value : Nat, pos : Int, mid : Nat, corrid : Nat]

OnItsWay(w) == (w.at = "read" => w.pos >= 1) /\ (w.at = "forward" => w.pos >= 0)

Labels == {"idle", "subscribe", "unsubscribe", "register", "addregister", "unregister", "addunregister"}

Types ==
  /\ fwl \in Seq(Forwarding) /\ fwCorrelatorId \in Nat
  /\ subscriptions \in Seq(Subscription)
  /\ header \in Seq(Entry)
  /\ loaded \subseteq Metrics
  /\ pc \in Labels /\ (pc # "idle" => request \in Request)
  /\ walk \in Walk /\ OnItsWay(walk) /\ owed \subseteq Metrics
  /\ reloads \in Nat

(* The search for an entry of the repository's table finds the first one.  *)
LEMMA IndexFinds ==
  ASSUME NEW list \in Seq(Entry), NEW b
  PROVE  LET i == IndexOf(list, b)
         IN \/ i = 0 /\ \A j \in 1..Len(list) : list[j].mid # b
            \/ i \in 1..Len(list) /\ list[i].mid = b /\ \A j \in 1..i - 1 : list[j].mid # b
<1>. DEFINE I == {i \in 1..Len(list) : list[i].mid = b}
<1>0. Len(list) \in Nat  OBVIOUS
<1>1. IndexOf(list, b) = IF I # {} THEN Min(I) ELSE 0  BY Zenon DEF IndexOf, SelectInSeq
<1>2. CASE I = {}  BY <1>1, <1>2
<1>3. CASE I # {}
  <2>1. I \subseteq Nat  OBVIOUS
  <2>. HIDE DEF I
  <2>2. PICK n \in I : \A m \in I : n <= m  BY <1>3, <2>1, LeastNumber
  <2>3. Min(I) \in I /\ \A m \in I : Min(I) <= m  BY <2>2 DEF Min
  <2>. DEFINE i == IndexOf(list, b)
  <2>4. i \in I /\ \A m \in I : i <= m  BY <1>1, <1>3, <2>3
  <2>. HIDE DEF i
  <2>5. i \in 1..Len(list) /\ list[i].mid = b  BY <2>4 DEF I
  <2>6. ASSUME NEW j \in 1..i - 1 PROVE list[j].mid # b
    <3>1. j \in 1..Len(list) /\ ~(i <= j)  BY <2>5, <1>0
    <3>2. j \notin I  BY <2>4, <3>1
    <3>. QED  BY <3>1, <3>2 DEF I
  <2>. QED  BY <2>5, <2>6 DEF i
<1>. QED  BY <1>2, <1>3

(* What may happen to the table: an entry is written over where it is, or  *)
(* a new one comes at the end.                                             *)
OnlyOne(list, b) == \A i, j \in 1..Len(list) : list[i].mid = b /\ list[j].mid = b => i = j

Uses(list, b) ==
  IF IndexOf(list, b) = 0 THEN 0
  ELSE IF list[IndexOf(list, b)].registered THEN list[IndexOf(list, b)].usecount ELSE 0

LEMMA UsesType ==
  ASSUME NEW list \in Seq(Entry), NEW b
  PROVE  Uses(list, b) \in Int
<1>. DEFINE i == IndexOf(list, b)
<1>1. i = 0 \/ i \in 1..Len(list)  BY IndexFinds
<1>2. ASSUME i \in 1..Len(list) PROVE list[i] \in Entry  BY <1>2
<1>. QED  BY <1>1, <1>2 DEF Uses, Entry

LEMMA EntryWritten ==
  ASSUME NEW list \in Seq(Entry), NEW i \in 1..Len(list), i = IndexOf(list, list[i].mid),
         NEW e \in Entry, e.mid = list[i].mid, NEW b
  PROVE  LET new == [list EXCEPT ![i] = e]
         IN /\ new \in Seq(Entry)
            /\ OnlyOne(new, b) <=> OnlyOne(list, b)
            /\ Uses(new, b) = IF b = e.mid THEN (IF e.registered THEN e.usecount ELSE 0)
                              ELSE Uses(list, b)
<1>. DEFINE new == [list EXCEPT ![i] = e]
<1>1. /\ new \in Seq(Entry) /\ Len(new) = Len(list) /\ new[i] = e
      /\ \A j \in 1..Len(list) : j # i => new[j] = list[j]
  BY ExceptSeq
<1>2. \A j \in 1..Len(list) : new[j].mid = list[j].mid  BY <1>1
<1>. HIDE DEF new
<1>3. OnlyOne(new, b) <=> OnlyOne(list, b)  BY <1>1, <1>2 DEF OnlyOne
<1>4. IndexOf(new, b) = IndexOf(list, b)
  <2>1. Len(list) \in Nat  OBVIOUS
  <2>. DEFINE m == IndexOf(new, b)  n == IndexOf(list, b)
  <2>2. \/ m = 0 /\ \A j \in 1..Len(list) : list[j].mid # b
        \/ m \in 1..Len(list) /\ list[m].mid = b /\ \A j \in 1..m - 1 : list[j].mid # b
    <3>1. \/ m = 0 /\ \A j \in 1..Len(new) : new[j].mid # b
          \/ m \in 1..Len(new) /\ new[m].mid = b /\ \A j \in 1..m - 1 : new[j].mid # b
      BY <1>1, IndexFinds
    <3>. HIDE DEF m
    <3>2. CASE m = 0 /\ \A j \in 1..Len(new) : new[j].mid # b  BY <3>2, <1>1, <1>2
    <3>3. CASE m \in 1..Len(new) /\ new[m].mid = b /\ \A j \in 1..m - 1 : new[j].mid # b
      <4>1. m \in 1..Len(list) /\ list[m].mid = b  BY <3>3, <1>1, <1>2
      <4>2. \A j \in 1..m - 1 : j \in 1..Len(list)  BY <4>1, <2>1
      <4>. QED  BY <3>3, <4>1, <4>2, <1>2
    <3>. QED  BY <3>1, <3>2, <3>3
  <2>3. \/ n = 0 /\ \A j \in 1..Len(list) : list[j].mid # b
        \/ n \in 1..Len(list) /\ list[n].mid = b /\ \A j \in 1..n - 1 : list[j].mid # b
    BY IndexFinds
  <2>. HIDE DEF m, n
  <2>4. m = n
    <3>1. CASE m = 0 \/ n = 0  BY <3>1, <2>2, <2>3
    <3>2. CASE m # 0 /\ n # 0
      <4>1. ~(m < n) /\ ~(n < m)  BY <3>2, <2>2, <2>3
      <4>. QED  BY <4>1, <3>2, <2>2, <2>3
    <3>. QED  BY <3>1, <3>2
  <2>. QED  BY <2>4 DEF m, n
<1>5. Uses(new, b) = IF b = e.mid THEN (IF e.registered THEN e.usecount ELSE 0) ELSE Uses(list, b)
  <2>1. CASE b = e.mid  BY <2>1, <1>1, <1>4 DEF Uses
  <2>2. CASE b # e.mid
    <3>. DEFINE n == IndexOf(list, b)
    <3>1. n = 0 \/ (n \in 1..Len(list) /\ list[n].mid = b)  BY IndexFinds
    <3>. HIDE DEF n
    <3>2. n # 0 => n # i /\ new[n] = list[n]  BY <3>1, <2>2, <1>1
    <3>. QED  BY <2>2, <3>2, <1>4 DEF Uses, n
  <2>. QED  BY <2>1, <2>2
<1>. QED  BY <1>1, <1>3, <1>5 DEF new

LEMMA EntryAdded ==
  ASSUME NEW list \in Seq(Entry), NEW e \in Entry, NEW b
  PROVE  LET new == Append(list, e)
         IN /\ new \in Seq(Entry)
            /\ OnlyOne(new, b) => OnlyOne(list, b) /\ (e.mid = b => IndexOf(list, b) = 0)
            /\ Uses(new, b) = IF IndexOf(list, b) # 0 \/ b # e.mid THEN Uses(list, b)
                              ELSE IF e.registered THEN e.usecount ELSE 0
<1>. DEFINE new == Append(list, e)  n == Len(list)
<1>1. /\ n \in Nat /\ new \in Seq(Entry) /\ Len(new) = n + 1 /\ new[n + 1] = e
      /\ \A j \in 1..n : new[j] = list[j]
  BY AppendProperties
<1>. HIDE DEF new
<1>. DEFINE k == IndexOf(list, b)  m == IndexOf(new, b)
<1>2. \/ k = 0 /\ \A j \in 1..n : list[j].mid # b
      \/ k \in 1..n /\ list[k].mid = b /\ \A j \in 1..k - 1 : list[j].mid # b
  BY IndexFinds
<1>3. \/ m = 0 /\ \A j \in 1..n + 1 : new[j].mid # b
      \/ m \in 1..n + 1 /\ new[m].mid = b /\ \A j \in 1..m - 1 : new[j].mid # b
  BY <1>1, IndexFinds
<1>. HIDE DEF k, m, n
<1>4. OnlyOne(new, b) => OnlyOne(list, b) /\ (e.mid = b => k = 0)
  <2>1. SUFFICES ASSUME OnlyOne(new, b) PROVE OnlyOne(list, b) /\ (e.mid = b => k = 0)
    OBVIOUS
  <2>2. \A i, j \in 1..n + 1 : new[i].mid = b /\ new[j].mid = b => i = j
    BY <2>1, <1>1 DEF OnlyOne
  <2>3. OnlyOne(list, b)  BY <2>2, <1>1 DEF OnlyOne, n
  <2>4. ASSUME e.mid = b, k # 0 PROVE FALSE
    <3>1. k \in 1..n + 1 /\ n + 1 \in 1..n + 1 /\ k # n + 1 /\ new[k].mid = b /\ new[n + 1].mid = b
      BY <2>4, <1>1, <1>2
    <3>. QED  BY <3>1, <2>2
  <2>. QED  BY <2>3, <2>4
<1>5. CASE k # 0
  <2>1. m = k
    <3>1. new[k].mid = b /\ \A j \in 1..k - 1 : new[j].mid # b  BY <1>1, <1>2, <1>5
    <3>2. m # 0 /\ ~(m < k) /\ ~(k < m)  BY <3>1, <1>1, <1>2, <1>3, <1>5
    <3>. QED  BY <3>2, <1>2, <1>3, <1>5, <1>1
  <2>2. Uses(new, b) = Uses(list, b)  BY <2>1, <1>1, <1>2, <1>5 DEF Uses, k, m
  <2>. QED  BY <2>2, <1>1, <1>4, <1>5 DEF new, k
<1>6. CASE k = 0 /\ b # e.mid
  <2>1. m = 0  BY <1>1, <1>2, <1>3, <1>6
  <2>2. Uses(new, b) = Uses(list, b)  BY <2>1, <1>6 DEF Uses, k, m
  <2>. QED  BY <2>2, <1>1, <1>4, <1>6 DEF new, k
<1>7. CASE k = 0 /\ b = e.mid
  <2>1. m = n + 1  BY <1>1, <1>2, <1>3, <1>7
  <2>2. Uses(new, b) = IF e.registered THEN e.usecount ELSE 0
    <3>1. n + 1 # 0  BY <1>1
    <3>. QED  BY <2>1, <3>1, <1>1, <1>7 DEF Uses, m
  <2>. QED  BY <2>2, <1>1, <1>4, <1>7 DEF new, k
<1>. QED  BY <1>5, <1>6, <1>7

-----------------------------------------------------------------------------
(* The list of subscriptions: where a new one goes.                        *)

LEMMA SearchStops ==
  ASSUME NEW n \in Nat, n = Len(subscriptions), NEW base
  PROVE  \/ /\ \A i \in 1..n : ~Follows(i, base)
            /\ Prev(base) = n
         \/ \E stop \in 1..n - 1 :
              /\ Follows(stop, base) /\ \A j \in 1..stop - 1 : ~Follows(j, base)
              /\ Prev(base) = IF stop = 1 THEN 1 ELSE stop - 1
<1>. DEFINE Stops == {i \in 1..n : Follows(i, base)}
            Is(i) == i \in 1..Len(subscriptions) /\ Follows(i, base) /\ Reaches(i, base)
            stop  == CHOOSE i \in 1..Len(subscriptions) : Follows(i, base) /\ Reaches(i, base)
<1>1. CASE Stops = {}
  <2>1. \A i \in 1..n : ~Follows(i, base)  BY <1>1
  <2>2. Prev(base) = n  BY <2>1 DEF Prev
  <2>. QED  BY <2>1, <2>2
<1>2. CASE Stops # {}
  <2>1. PICK k \in Stops : \A m \in Stops : k <= m
    <3>1. Stops \subseteq Nat  OBVIOUS
    <3>. HIDE DEF Stops
    <3>. QED  BY <1>2, <3>1, LeastNumber
  <2>2. k \in 1..n /\ Follows(k, base)  OBVIOUS
  <2>3. ASSUME NEW j \in 1..k - 1 PROVE ~Follows(j, base)
    <3>1. j \in 1..n /\ ~(k <= j)  BY <2>2
    <3>2. j \notin Stops  BY <2>1, <3>1
    <3>. QED  BY <3>1, <3>2
  <2>4. Is(k)  BY <2>2, <2>3 DEF Reaches
  <2>5. Is(stop)
    <3>1. \E i \in 1..Len(subscriptions) : Follows(i, base) /\ Reaches(i, base)  BY <2>4
    <3>. QED  BY <3>1, Zenon
  <2>6. stop \in 1..n - 1 /\ \A j \in 1..stop - 1 : ~Follows(j, base)
    BY <2>5 DEF Follows, Reaches
  <2>7. Prev(base) = IF stop = 1 THEN 1 ELSE stop - 1
    <3>1. \E i \in 1..Len(subscriptions) : Follows(i, base)  BY <2>4
    <3>. QED  BY <3>1, Zenon DEF Prev
  <2>8. Follows(stop, base)  BY <2>5
  <2>. HIDE DEF stop
  <2>. QED  BY <2>6, <2>7, <2>8
<1>. QED  BY <1>1, <1>2

LEMMA PlaceInList ==
  ASSUME subscriptions \in Seq(Subscription), NEW base
  PROVE  Place(base) \in 1..Len(subscriptions) + 1
<1>. DEFINE n == Len(subscriptions)
<1>1. n \in Nat /\ (n = 0 => subscriptions = <<>>)  BY EmptySeq
<1>2. \/ Prev(base) = n
      \/ \E stop \in 1..n - 1 : Prev(base) = IF stop = 1 THEN 1 ELSE stop - 1
  BY <1>1, SearchStops
<1>3. Prev(base) \in 0..n  BY <1>1, <1>2
<1>. HIDE DEF n
<1>. QED  BY <1>1, <1>3 DEF Place, n

(* With no more than two bases the list is in the order of the bases,      *)
(* which is what the search relies on.                                     *)
AtMostTwoBases == \A a, b, c \in Bases : a = b \/ b = c \/ a = c

InOrder(list) == \A i, j \in 1..Len(list) : i < j => list[i].base <= list[j].base

LEMMA BaseOfEntry ==
  ASSUME subscriptions \in Seq(Subscription), NEW i \in 1..Len(subscriptions)
  PROVE  /\ subscriptions[i].base \in Bases /\ subscriptions[i].base \in Nat
         /\ subscriptions[i].mid \in Metrics /\ subscriptions[i].base = BaseOf[subscriptions[i].mid]
<1>1. subscriptions[i] \in Subscription  OBVIOUS
<1>. QED  BY <1>1 DEF Subscription, Bases

LEMMA PlaceInOrder ==
  ASSUME subscriptions \in Seq(Subscription), InOrder(subscriptions), AtMostTwoBases, NEW base \in Bases
  PROVE  /\ \A j \in 1..Len(subscriptions) : j < Place(base) => subscriptions[j].base <= base
         /\ \A j \in 1..Len(subscriptions) : j >= Place(base) => base <= subscriptions[j].base
<1>. DEFINE n    == Len(subscriptions)
            B(i) == subscriptions[i].base
<1>0. base \in Nat  BY DEF Bases
<1>1. n \in Nat /\ (n = 0 <=> subscriptions = <<>>)  BY EmptySeq
<1>2. \A i \in 1..n : B(i) \in Nat /\ B(i) \in Bases  BY BaseOfEntry
<1>3. \A i, j \in 1..n : i < j => B(i) <= B(j)  BY DEF InOrder
<1>4. \A i : Follows(i, base) <=> i \in 1..n - 1 /\ B(i + 1) > base  BY DEF Follows
<1>5. Place(base) = IF n = 0 \/ (Prev(base) = 1 /\ B(1) > base) THEN 1 ELSE Prev(base) + 1
  BY <1>1 DEF Place
<1>6. \/ (\A i \in 1..n : ~Follows(i, base)) /\ Prev(base) = n
      \/ \E stop \in 1..n - 1 :
           /\ Follows(stop, base) /\ \A j \in 1..stop - 1 : ~Follows(j, base)
           /\ Prev(base) = IF stop = 1 THEN 1 ELSE stop - 1
  BY <1>1, SearchStops
<1>. SUFFICES /\ \A j \in 1..n : j < Place(base) => B(j) <= base
              /\ \A j \in 1..n : j >= Place(base) => base <= B(j)
  OBVIOUS
<1>. HIDE DEF n, B
<1>7. CASE (\A i \in 1..n : ~Follows(i, base)) /\ Prev(base) = n
  <2>1. \A j \in 1..n : j # 1 => B(j) <= base
    <3>1. ASSUME NEW j \in 1..n, j # 1 PROVE B(j) <= base
      <4>1. j - 1 \in 1..n - 1 /\ (j - 1) + 1 = j /\ j - 1 \in 1..n  BY <3>1, <1>1
      <4>2. ~(B(j) > base)  BY <4>1, <1>4, <1>7
      <4>. QED  BY <4>2, <1>0, <1>2
    <3>. QED  BY <3>1
  <2>2. n > 1 => B(1) <= base
    <3>1. n > 1 => B(1) <= B(n) /\ B(n) <= base /\ B(1) \in Nat /\ B(n) \in Nat  BY <2>1, <1>1, <1>2, <1>3
    <3>. QED  BY <3>1, <1>0
  <2>3. CASE n = 0  BY <2>3
  <2>4. CASE n = 1  BY <2>4, <1>0, <1>2, <1>5, <1>7
  <2>5. CASE n > 1  BY <2>1, <2>2, <2>5, <1>1, <1>5, <1>7
  <2>. QED  BY <2>3, <2>4, <2>5, <1>1
<1>8. ASSUME NEW stop \in 1..n - 1, Follows(stop, base), \A j \in 1..stop - 1 : ~Follows(j, base),
             Prev(base) = IF stop = 1 THEN 1 ELSE stop - 1
      PROVE  /\ \A j \in 1..n : j < Place(base) => B(j) <= base
             /\ \A j \in 1..n : j >= Place(base) => base <= B(j)
  <2>1. stop \in 1..n /\ stop + 1 \in 1..n /\ B(stop + 1) > base  BY <1>1, <1>4, <1>8
  <2>2. \A j \in 1..n : j > stop => base < B(j)
    <3>1. ASSUME NEW j \in 1..n, j > stop PROVE base < B(j)
      <4>1. j = stop + 1 \/ B(stop + 1) <= B(j)  BY <2>1, <3>1, <1>3
      <4>. QED  BY <4>1, <2>1, <1>0, <1>2
    <3>. QED  BY <3>1
  <2>3. CASE stop = 1
    <3>1. B(1) \in Nat  BY <2>1, <2>3, <1>2
    <3>2. CASE B(1) > base
      <4>1. Place(base) = 1  BY <3>2, <2>3, <1>5, <1>8
      <4>. QED  BY <4>1, <3>1, <3>2, <2>2, <2>3, <1>0, <1>2
    <3>3. CASE ~(B(1) > base)
      <4>1. Place(base) = 2  BY <3>3, <2>3, <1>1, <1>5, <1>8
      <4>. QED  BY <4>1, <3>1, <3>3, <2>2, <2>3, <1>0, <1>2
    <3>. QED  BY <3>2, <3>3
  <2>4. CASE stop # 1
    <3>1. stop - 1 \in 1..stop - 1 /\ stop - 1 \in 1..n - 1 /\ (stop - 1) + 1 = stop  BY <2>4, <1>1
    <3>2. B(stop) <= base  BY <3>1, <2>1, <1>0, <1>2, <1>4, <1>8
    <3>3. \A j \in 1..n : j <= stop => B(j) <= base
      <4>1. ASSUME NEW j \in 1..n, j <= stop PROVE B(j) <= base
        <5>1. j = stop \/ B(j) <= B(stop)  BY <4>1, <2>1, <1>3
        <5>. QED  BY <5>1, <3>2, <2>1, <1>0, <1>2
      <4>. QED  BY <4>1
    <3>4. B(stop) = base
      <4>1. B(stop) \in Bases /\ B(stop + 1) \in Bases  BY <2>1, <1>2
      <4>2. B(stop) # B(stop + 1) /\ base # B(stop + 1)  BY <2>1, <3>2, <1>0, <1>2
      <4>. QED  BY <4>1, <4>2 DEF AtMostTwoBases
    <3>5. Place(base) = stop
      <4>1. Prev(base) = stop - 1  BY <2>4, <1>8
      <4>2. 1 \in 1..n /\ 1 <= stop  BY <1>1, <2>1
      <4>3. B(1) <= base /\ B(1) \in Nat  BY <4>2, <3>3, <1>2
      <4>. QED  BY <4>1, <4>3, <1>0, <1>1, <1>5
    <3>. QED  BY <3>3, <3>4, <3>5, <2>1, <2>2, <1>0, <1>2
  <2>. QED  BY <2>3, <2>4
<1>. QED  BY <1>6, <1>7, <1>8

LEMMA InsertedInOrder ==
  ASSUME NEW list \in Seq(Subscription), InOrder(list), NEW e \in Subscription,
         NEW p \in 1..Len(list) + 1,
         \A j \in 1..Len(list) : j < p => list[j].base <= e.base,
         \A j \in 1..Len(list) : j >= p => e.base <= list[j].base
  PROVE  InOrder(InsertAt(list, p, e))
<1>. DEFINE n == Len(list)  new == InsertAt(list, p, e)
<1>1. /\ n \in Nat /\ Len(new) = n + 1
      /\ \A j \in 1..n + 1 : new[j] = IF j < p THEN list[j] ELSE IF j = p THEN e ELSE list[j - 1]
  BY InsertAtElements, SMTT(60)
<1>2. \A j \in 1..n : list[j].base \in Nat  BY DEF Subscription
<1>3. e.base \in Nat  BY DEF Subscription
<1>4. \A i, j \in 1..n : i < j => list[i].base <= list[j].base  BY DEF InOrder
<1>5. p \in 1..n + 1  OBVIOUS
<1>6. /\ \A j \in 1..n : j < p => list[j].base <= e.base
      /\ \A j \in 1..n : j >= p => e.base <= list[j].base
  OBVIOUS
<1>. HIDE DEF n, new
<1>7. ASSUME NEW i \in 1..n + 1, NEW j \in 1..n + 1, i < j PROVE new[i].base <= new[j].base
  <2>1. CASE j < p   BY <2>1, <1>1, <1>4, <1>5, <1>7
  <2>2. CASE j = p   BY <2>2, <1>1, <1>5, <1>6, <1>7
  <2>3. CASE j > p
    <3>1. j - 1 \in 1..n /\ new[j] = list[j - 1]  BY <2>3, <1>1, <1>5
    <3>2. CASE i < p
      <4>1. i \in 1..n /\ new[i] = list[i] /\ i < j - 1  BY <3>2, <2>3, <1>1, <1>5
      <4>. QED  BY <3>1, <4>1, <1>4
    <3>3. CASE i = p
      <4>1. new[i] = e /\ j - 1 >= p  BY <3>3, <2>3, <1>1, <1>5
      <4>. QED  BY <3>1, <4>1, <1>6
    <3>4. CASE i > p
      <4>1. i - 1 \in 1..n /\ new[i] = list[i - 1] /\ i - 1 < j - 1  BY <3>4, <1>1, <1>5, <1>7
      <4>. QED  BY <3>1, <4>1, <1>4
    <3>. QED  BY <3>2, <3>3, <3>4, <1>5
  <2>. QED  BY <2>1, <2>2, <2>3, <1>5
<1>. QED  BY <1>1, <1>7 DEF InOrder, new

LEMMA RemovedInOrder ==
  ASSUME NEW list \in Seq(Subscription), InOrder(list), NEW p \in 1..Len(list)
  PROVE  InOrder(RemoveAt(list, p))
<1>. DEFINE n == Len(list)  new == RemoveAt(list, p)
<1>1. /\ n \in Nat /\ Len(new) = n - 1
      /\ \A j \in 1..n - 1 : new[j] = IF j < p THEN list[j] ELSE list[j + 1]
  BY RemoveAtElements
<1>2. \A i, j \in 1..n : i < j => list[i].base <= list[j].base  BY DEF InOrder
<1>3. p \in 1..n  OBVIOUS
<1>. HIDE DEF n, new
<1>4. ASSUME NEW i \in 1..n - 1, NEW j \in 1..n - 1, i < j PROVE new[i].base <= new[j].base
  <2>. DEFINE a == IF i < p THEN i ELSE i + 1  b == IF j < p THEN j ELSE j + 1
  <2>1. a \in 1..n /\ b \in 1..n /\ a < b /\ new[i] = list[a] /\ new[j] = list[b]  BY <1>1, <1>3, <1>4
  <2>. HIDE DEF a, b
  <2>. QED  BY <2>1, <1>2
<1>. QED  BY <1>1, <1>4 DEF InOrder, new

(* How many subscriptions there are to a base.                             *)
SubsOf(list, b) == {i \in 1..Len(list) : list[i].base = b}

LEMMA SubsCounted ==
  ASSUME NEW list, Len(list) \in Nat, NEW b
  PROVE  IsFiniteSet(SubsOf(list, b)) /\ Cardinality(SubsOf(list, b)) \in Nat
<1>1. IsFiniteSet(1..Len(list)) /\ SubsOf(list, b) \in SUBSET (1..Len(list))
  BY FS_Interval DEF SubsOf
<1>. QED  BY <1>1, FS_Subset, FS_CardinalityType

LEMMA CountInserted ==
  ASSUME NEW list \in Seq(Subscription), NEW e \in Subscription, NEW p \in 1..Len(list) + 1, NEW b
  PROVE  Cardinality(SubsOf(InsertAt(list, p, e), b))
           <= Cardinality(SubsOf(list, b)) + (IF e.base = b THEN 1 ELSE 0)
<1>. DEFINE n == Len(list)  new == InsertAt(list, p, e)
            S == SubsOf(new, b) \ {p}
            f == [i \in S |-> IF i < p THEN i ELSE i - 1]
<1>1. /\ n \in Nat /\ Len(new) = n + 1
      /\ \A j \in 1..n + 1 : new[j] = IF j < p THEN list[j] ELSE IF j = p THEN e ELSE list[j - 1]
  BY InsertAtElements
<1>2. p \in 1..n + 1  OBVIOUS
<1>3. f \in Injection(S, SubsOf(list, b))
  <2>1. ASSUME NEW i \in S PROVE f[i] \in SubsOf(list, b)
    <3>1. i \in 1..n + 1 /\ i # p /\ new[i].base = b  BY <1>1 DEF SubsOf
    <3>. HIDE DEF new, n
    <3>. QED  BY <3>1, <1>1, <1>2 DEF SubsOf, n
  <2>2. ASSUME NEW i \in S, NEW j \in S, f[i] = f[j] PROVE i = j
    <3>1. i \in 1..n + 1 /\ j \in 1..n + 1 /\ i # p /\ j # p  BY <1>1 DEF SubsOf
    <3>2. (IF i < p THEN i ELSE i - 1) = (IF j < p THEN j ELSE j - 1)  BY <2>2
    <3>. HIDE DEF new, n, S, f
    <3>. QED  BY <3>1, <3>2, <1>1, <1>2
  <2>3. f \in [S -> SubsOf(list, b)]  BY <2>1
  <2>. QED  BY <2>2, <2>3 DEF Injection, IsInjective
<1>. HIDE DEF new, f
<1>4. Cardinality(S) <= Cardinality(SubsOf(list, b))
  BY <1>1, <1>3, SubsCounted, FS_Injection DEF n
<1>5. Len(new) \in Nat  BY <1>1
<1>6. IsFiniteSet(SubsOf(new, b)) /\ Cardinality(SubsOf(new, b)) \in Nat  BY <1>5, SubsCounted
<1>7. Cardinality(S) = IF p \in SubsOf(new, b) THEN Cardinality(SubsOf(new, b)) - 1 ELSE Cardinality(SubsOf(new, b))
  BY <1>6, FS_RemoveElement
<1>8. p \in SubsOf(new, b) => e.base = b  BY <1>1, <1>2 DEF SubsOf
<1>9. Cardinality(SubsOf(list, b)) \in Nat  BY SubsCounted, <1>1 DEF n
<1>. QED  BY <1>4, <1>6, <1>7, <1>8, <1>9 DEF new

LEMMA CountRemoved ==
  ASSUME NEW list \in Seq(Subscription), NEW p \in 1..Len(list), NEW b
  PROVE  Cardinality(SubsOf(RemoveAt(list, p), b))
           <= Cardinality(SubsOf(list, b)) - (IF list[p].base = b THEN 1 ELSE 0)
<1>. DEFINE n == Len(list)  new == RemoveAt(list, p)
            S == SubsOf(new, b)
            f == [i \in S |-> IF i < p THEN i ELSE i + 1]
<1>1. /\ n \in Nat /\ Len(new) = n - 1
      /\ \A j \in 1..n - 1 : new[j] = IF j < p THEN list[j] ELSE list[j + 1]
  BY RemoveAtElements
<1>2. p \in 1..n  OBVIOUS
<1>3. f \in Injection(S, SubsOf(list, b) \ {p})
  <2>1. ASSUME NEW i \in S PROVE f[i] \in SubsOf(list, b) \ {p}
    <3>1. i \in 1..n - 1 /\ new[i].base = b  BY <1>1 DEF SubsOf
    <3>. HIDE DEF new, n
    <3>. QED  BY <3>1, <1>1, <1>2 DEF SubsOf, n
  <2>2. ASSUME NEW i \in S, NEW j \in S, f[i] = f[j] PROVE i = j
    <3>1. i \in 1..n - 1 /\ j \in 1..n - 1  BY <1>1 DEF SubsOf
    <3>2. (IF i < p THEN i ELSE i + 1) = (IF j < p THEN j ELSE j + 1)  BY <2>2
    <3>. HIDE DEF new, n, S, f
    <3>. QED  BY <3>1, <3>2, <1>1, <1>2
  <2>3. f \in [S -> SubsOf(list, b) \ {p}]  BY <2>1
  <2>. QED  BY <2>2, <2>3 DEF Injection, IsInjective
<1>. HIDE DEF new, f, S
<1>4. IsFiniteSet(SubsOf(list, b)) /\ Cardinality(SubsOf(list, b)) \in Nat  BY SubsCounted, <1>1 DEF n
<1>5. /\ IsFiniteSet(SubsOf(list, b) \ {p})
      /\ Cardinality(SubsOf(list, b) \ {p})
           = IF p \in SubsOf(list, b) THEN Cardinality(SubsOf(list, b)) - 1 ELSE Cardinality(SubsOf(list, b))
  BY <1>4, FS_RemoveElement
<1>6. Cardinality(S) <= Cardinality(SubsOf(list, b) \ {p})  BY <1>3, <1>5, FS_Injection
<1>7. list[p].base = b => p \in SubsOf(list, b)  BY DEF SubsOf
<1>8. Cardinality(S) \in Nat
  <2>1. Len(new) \in Nat  BY <1>1, <1>2
  <2>. QED  BY <2>1, SubsCounted DEF S
<1>. QED  BY <1>4, <1>5, <1>6, <1>7, <1>8 DEF S, new

-----------------------------------------------------------------------------
(* The invariants.                                                         *)

(* The use count of a base's callback covers the subscriptions to it, and  *)
(* the calls of the main thread that have changed the list and not yet the *)
(* count.  An entry of a second thread's making would hide it.             *)
Pending(b) ==
  IF pc \in {"register", "addregister"} /\ BaseOf[request.mid] = b THEN 1
  ELSE IF pc \in {"unregister", "addunregister"} /\ BaseOf[request.mid] = b THEN -1
  ELSE 0

Counted ==
  reloads = 0 =>
    \A b \in Nat : OnlyOne(header, b) =>
      Cardinality(SubsOf(subscriptions, b)) <= Uses(header, b) + Pending(b)

(* What the walk owes is still ahead of it.                                *)
OwnBases == \A m \in Metrics : m \in Bases => BaseOf[m] = m

Ahead(from) ==
  \A m \in owed : \E i \in 1..Len(subscriptions) :
    i >= from /\ subscriptions[i].mid = m /\ subscriptions[i].base = walk.value

NextRead == IF walk.at = "forward" THEN walk.pos + 1 ELSE walk.pos

WalkOwes == (walk.at \in {"read", "forward"} => Ahead(NextRead)) /\ NobodyIsMissed

(* With one listener and one correlator there is one request for each      *)
(* metric: its forwarding and its subscription come and go together.       *)
OneRequestEach == (\A k, l \in Listeners : k = l) /\ (\A c, d \in Correlators : c = d)

Leads(f, s) == f.mid = s.mid /\ f.corrid = s.corrid

ForwardingsInOrder ==
  /\ \A i, j \in 1..Len(fwl) : i < j => fwl[i].corrid < fwl[j].corrid
  /\ \A i \in 1..Len(fwl) : fwl[i].corrid < fwCorrelatorId

EachMetricOnce ==
  /\ \A i, j \in 1..Len(fwl) : fwl[i].mid = fwl[j].mid => i = j
  /\ \A i, j \in 1..Len(subscriptions) : subscriptions[i].mid = subscriptions[j].mid => i = j

SubscriptionsForwarded ==
  \A j \in 1..Len(subscriptions) :
    \/ \E i \in 1..Len(fwl) : Leads(fwl[i], subscriptions[j])
    \/ pc = "unsubscribe" /\ subscriptions[j].mid = request.mid

ForwardingsSubscribed ==
  \A i \in 1..Len(fwl) :
    \/ \E j \in 1..Len(subscriptions) : subscriptions[j].mid = fwl[i].mid
    \/ pc = "subscribe" /\ Leads(fwl[i], request)

RequestForwarded ==
  /\ pc = "subscribe"   => \E i \in 1..Len(fwl) : fwl[i].mid = request.mid
  /\ pc = "unsubscribe" => \A i \in 1..Len(fwl) : fwl[i].mid # request.mid

Tables ==
  reloads = 0 =>
    /\ loaded = Metrics
    /\ ForwardingsInOrder /\ EachMetricOnce
    /\ SubscriptionsForwarded /\ ForwardingsSubscribed /\ RequestForwarded

-----------------------------------------------------------------------------
(* Types are kept.                                                         *)

LEMMA Bounds ==
  /\ \A m \in Metrics : BaseOf[m] \in Nat /\ BaseOf[m] \in Bases /\ m \in Nat
  /\ \A b \in Bases : b \in Nat
  /\ \A c \in Correlators : c \in Nat
  /\ \A g \in Garbage : g \in Int
BY DEF Bases

LEMMA InitTypes == Init => Types
<1>. SUFFICES ASSUME Init PROVE Types  OBVIOUS
<1>1. <<>> \in Seq(Forwarding) /\ <<>> \in Seq(Subscription) /\ <<>> \in Seq(Entry)  OBVIOUS
<1>2. Resting \in Walk /\ OnItsWay(Resting)  BY DEF Resting, Walk, OnItsWay
<1>. QED  BY <1>1, <1>2 DEF Init, Types, Labels

LEMMA EnableTypes == ASSUME Types, NEW r \in Requests, subs_enable_forwarding(r) PROVE Types'
<1>1. r \in Request /\ r.corrid \in Correlators  BY Bounds DEF Requests, Request
<1>2. CASE \E i \in 1..Len(fwl) : Forwards(i, r)
  <2>1. fwl' = fwl /\ fwCorrelatorId' = fwCorrelatorId /\ request' = r
    BY <1>2 DEF subs_enable_forwarding
  <2>. QED  BY <1>1, <2>1 DEF Types, subs_enable_forwarding, Goto, Labels, walkvars
<1>3. CASE ~\E i \in 1..Len(fwl) : Forwards(i, r)
  <2>. DEFINE f == [mid |-> r.mid, corrid |-> fwCorrelatorId, orig |-> r.corrid, listener |-> r.listener]
  <2>1. /\ fwl' = Append(fwl, f) /\ fwCorrelatorId' = fwCorrelatorId + 1
        /\ request' = [r EXCEPT !.corrid = fwCorrelatorId]
    BY <1>3 DEF subs_enable_forwarding, NewForwarding
  <2>2. f \in Forwarding  BY <1>1 DEF Types, Forwarding, Request
  <2>. HIDE DEF f
  <2>3. fwl' \in Seq(Forwarding) /\ fwCorrelatorId' \in Nat  BY <2>1, <2>2 DEF Types
  <2>4. request' \in Request  BY <1>1, <2>1 DEF Types, Request
  <2>. QED  BY <2>3, <2>4 DEF Types, subs_enable_forwarding, Goto, Labels, walkvars
<1>. QED  BY <1>2, <1>3

LEMMA DisableTypes == ASSUME Types, NEW r \in Requests, subs_disable_forwarding(r) PROVE Types'
<1>1. r \in Request  BY Bounds DEF Requests, Request
<1>2. PICK i \in 1..Len(fwl) : fwl' = RemoveAt(fwl, i)  BY DEF subs_disable_forwarding
<1>3. fwl' \in Seq(Forwarding)  BY <1>2, RemoveAtElements DEF Types
<1>. QED  BY <1>1, <1>3 DEF Types, subs_disable_forwarding, Goto, Labels, walkvars

(* What sub_add and sub_remove do to the list and the walk.                *)
NewSubscription == [mid |-> request.mid, base |-> BaseOf[request.mid], corrid |-> request.corrid]

LEMMA SubAdds ==
  ASSUME Types, sub_add
  PROVE  /\ pc = "subscribe" /\ request \in Request /\ NewSubscription \in Subscription
         /\ UNCHANGED <<fwl, fwCorrelatorId, header, loaded, owed, reloads>>
         /\ \/ /\ pc' = "idle" /\ request.mid \notin loaded
               /\ UNCHANGED <<subscriptions, walk>>
            \/ /\ pc' = "register" /\ request' = request
               /\ \E i \in 1..Len(subscriptions) : SubscribedAt(i, request.mid)
               /\ UNCHANGED <<subscriptions, walk>>
            \/ /\ pc' = "register" /\ request' = request
               /\ ~\E i \in 1..Len(subscriptions) : SubscribedAt(i, request.mid)
               /\ subscriptions' = InsertAt(subscriptions, Place(BaseOf[request.mid]), NewSubscription)
               /\ walk' = [walk EXCEPT !.pos = IF Place(BaseOf[request.mid]) <= walk.pos THEN walk.pos + 1 ELSE walk.pos]
<1>1. pc = "subscribe" /\ request \in Request  BY DEF sub_add, Types
<1>2. NewSubscription \in Subscription  BY <1>1, Bounds DEF NewSubscription, Subscription, Request
<1>3. UNCHANGED <<fwl, fwCorrelatorId, header, loaded, owed, reloads>>  BY DEF sub_add
<1>. QED  BY <1>1, <1>2, <1>3 DEF sub_add, Done, Goto, NewSubscription

LEMMA WalkMoved ==
  ASSUME walk \in Walk, NEW n \in Int
  PROVE  LET w == [walk EXCEPT !.pos = n]
         IN w \in Walk /\ w.at = walk.at /\ w.value = walk.value /\ w.pos = n
BY DEF Walk

LEMMA AddTypes == ASSUME Types, sub_add PROVE Types'
<1>1. Place(BaseOf[request.mid]) \in 1..Len(subscriptions) + 1  BY PlaceInList DEF Types
<1>. DEFINE p == Place(BaseOf[request.mid])
<1>. HIDE DEF p
<1>2. InsertAt(subscriptions, p, NewSubscription) \in Seq(Subscription)
  BY <1>1, SubAdds, InsertAtElements DEF Types, p
<1>. DEFINE w == [walk EXCEPT !.pos = IF p <= walk.pos THEN walk.pos + 1 ELSE walk.pos]
<1>3. w \in Walk /\ OnItsWay(w)
  <2>1. walk \in Walk /\ walk.pos \in Int /\ OnItsWay(walk)  BY DEF Types, Walk
  <2>. DEFINE n == IF p <= walk.pos THEN walk.pos + 1 ELSE walk.pos
  <2>2. n \in Int /\ n >= walk.pos  BY <2>1
  <2>. HIDE DEF n
  <2>3. w \in Walk /\ w.at = walk.at /\ w.pos = n  BY <2>1, <2>2, WalkMoved DEF n
  <2>. HIDE DEF w
  <2>. QED  BY <2>1, <2>2, <2>3 DEF OnItsWay
<1>4. subscriptions' \in Seq(Subscription) /\ walk' \in Walk /\ OnItsWay(walk')
  <2>1. walk' = walk \/ walk' = w  BY SubAdds DEF p
  <2>2. subscriptions' \in Seq(Subscription)  BY <1>2, SubAdds DEF Types, p
  <2>. HIDE DEF w
  <2>. QED  BY <2>1, <2>2, <1>3 DEF Types
<1>5. pc' \in Labels /\ (pc' # "idle" => request' \in Request)  BY SubAdds DEF Labels
<1>. QED  BY <1>4, <1>5, SubAdds DEF Types

LEMMA SubRemoves ==
  ASSUME Types, sub_remove
  PROVE  /\ pc = "unsubscribe" /\ request \in Request
         /\ UNCHANGED <<fwl, fwCorrelatorId, header, loaded, reloads>>
         /\ \/ /\ pc' = "idle"
               /\ request.mid \notin loaded \/ ~\E i \in 1..Len(subscriptions) : SubscribedAt(i, request.mid)
               /\ UNCHANGED <<subscriptions, walk, owed>>
            \/ /\ pc' = "unregister" /\ request' = request
               /\ \E i \in 1..Len(subscriptions) :
                    /\ SubscribedAt(i, request.mid) /\ subscriptions[i].mid = request.mid
                    /\ subscriptions' = RemoveAt(subscriptions, i)
                    /\ \/ walk.at = "read" /\ walk.pos = i /\ owed' = {} /\ (walk' = walk \/ walk' = Resting)
                       \/ /\ ~(walk.at = "read" /\ walk.pos = i)
                          /\ walk' = [walk EXCEPT !.pos = IF i <= walk.pos THEN walk.pos - 1 ELSE walk.pos]
                          /\ owed' = owed \ {request.mid}
<1>1. pc = "unsubscribe" /\ request \in Request  BY DEF sub_remove, Types
<1>2. UNCHANGED <<fwl, fwCorrelatorId, header, loaded, reloads>>  BY DEF sub_remove
<1>3. CASE request.mid \notin loaded \/ ~\E i \in 1..Len(subscriptions) : SubscribedAt(i, request.mid)
  <2>1. pc' = "idle" /\ UNCHANGED <<subscriptions, walk, owed>>  BY <1>3 DEF sub_remove, Done
  <2>. QED  BY <1>1, <1>2, <1>3, <2>1
<1>4. CASE ~(request.mid \notin loaded \/ ~\E i \in 1..Len(subscriptions) : SubscribedAt(i, request.mid))
  <2>1. /\ pc' = "unregister" /\ request' = request
        /\ \E i \in 1..Len(subscriptions) : SubscribedAt(i, request.mid) /\ RemoveSubscription(i)
    BY <1>4 DEF sub_remove, Goto
  <2>2. PICK i \in 1..Len(subscriptions) : SubscribedAt(i, request.mid) /\ RemoveSubscription(i)
    BY <2>1
  <2>3. subscriptions[i].mid = request.mid  BY <2>2 DEF SubscribedAt
  <2>4. /\ subscriptions' = RemoveAt(subscriptions, i)
        /\ \/ walk.at = "read" /\ walk.pos = i /\ owed' = {} /\ (walk' = walk \/ walk' = Resting)
           \/ /\ ~(walk.at = "read" /\ walk.pos = i)
              /\ walk' = [walk EXCEPT !.pos = IF i <= walk.pos THEN walk.pos - 1 ELSE walk.pos]
              /\ owed' = owed \ {request.mid}
    BY <2>2, <2>3 DEF RemoveSubscription
  <2>. QED  BY <1>1, <1>2, <2>1, <2>2, <2>3, <2>4
<1>. QED  BY <1>3, <1>4

LEMMA RemoveTypes == ASSUME Types, sub_remove PROVE Types'
<1>1. pc' \in Labels /\ (pc' # "idle" => request' \in Request)  BY SubRemoves DEF Labels
<1>2. CASE UNCHANGED <<subscriptions, walk, owed>>
  BY <1>1, <1>2, SubRemoves DEF Types
<1>3. ASSUME NEW i \in 1..Len(subscriptions), subscriptions' = RemoveAt(subscriptions, i)
      PROVE subscriptions' \in Seq(Subscription)
  BY <1>3, RemoveAtElements DEF Types
<1>4. ASSUME NEW i \in 1..Len(subscriptions), ~(walk.at = "read" /\ walk.pos = i),
             walk' = [walk EXCEPT !.pos = IF i <= walk.pos THEN walk.pos - 1 ELSE walk.pos]
      PROVE  walk' \in Walk /\ OnItsWay(walk')
  <2>1. walk \in Walk /\ walk.pos \in Int /\ OnItsWay(walk) /\ i \in Int /\ i >= 1  BY DEF Types, Walk
  <2>. DEFINE n == IF i <= walk.pos THEN walk.pos - 1 ELSE walk.pos
  <2>2. n \in Int /\ (walk.at = "read" => n >= 1) /\ (walk.at = "forward" => n >= 0)
    BY <2>1, <1>4 DEF OnItsWay
  <2>. HIDE DEF n
  <2>3. walk' \in Walk /\ walk'.at = walk.at /\ walk'.pos = n  BY <2>1, <2>2, <1>4, WalkMoved DEF n
  <2>. QED  BY <2>2, <2>3 DEF OnItsWay
<1>5. Resting \in Walk /\ OnItsWay(Resting)  BY DEF Resting, Walk, OnItsWay
<1>6. subscriptions' \in Seq(Subscription) /\ walk' \in Walk /\ OnItsWay(walk') /\ owed' \subseteq Metrics
  <2>1. CASE UNCHANGED <<subscriptions, walk, owed>>  BY <2>1 DEF Types
  <2>2. CASE ~UNCHANGED <<subscriptions, walk, owed>>
    <3>1. PICK i \in 1..Len(subscriptions) :
            /\ subscriptions' = RemoveAt(subscriptions, i)
            /\ \/ walk.at = "read" /\ walk.pos = i /\ owed' = {} /\ (walk' = walk \/ walk' = Resting)
               \/ /\ ~(walk.at = "read" /\ walk.pos = i)
                  /\ walk' = [walk EXCEPT !.pos = IF i <= walk.pos THEN walk.pos - 1 ELSE walk.pos]
                  /\ owed' = owed \ {request.mid}
      BY <2>2, SubRemoves
    <3>. QED  BY <3>1, <1>3, <1>4, <1>5 DEF Types
  <2>. QED  BY <2>1, <2>2
<1>. QED  BY <1>1, <1>6, SubRemoves DEF Types

(* The calls of the callbacks, and what they do to the table.              *)
LEMMA LocateTypes == ASSUME Types, LocateEntry PROVE Types'
BY DEF Types, LocateEntry, Goto, Labels, walkvars

LEMMA EntryIsTyped ==
  ASSUME header \in Seq(Entry), NEW i \in 1..Len(header)
  PROVE  header[i] \in Entry /\ header[i].mid \in Nat /\ header[i].registered \in BOOLEAN /\ header[i].usecount \in Int
<1>1. header[i] \in Entry  OBVIOUS
<1>. QED  BY <1>1 DEF Entry

LEMMA Registers ==
  ASSUME Types, RegisterCallback
  PROVE  /\ pc \in {"register", "addregister"} /\ pc' = "idle" /\ request \in Request
         /\ UNCHANGED <<fwl, fwCorrelatorId, subscriptions, loaded, walk, owed, reloads>>
         /\ \/ \E i \in 1..Len(header), e \in Entry :
                 /\ i = IndexOf(header, BaseOf[request.mid]) /\ header[i].mid = BaseOf[request.mid]
                 /\ e.mid = header[i].mid /\ e.registered /\ header' = [header EXCEPT ![i] = e]
                 /\ \/ header[i].registered /\ e.usecount = header[i].usecount + 1
                    \/ ~header[i].registered /\ \E g \in Garbage : e.usecount = g + 1
            \/ \E e \in Entry :
                 /\ pc = "addregister" /\ e.mid = BaseOf[request.mid] /\ e.registered
                 /\ \E g \in Garbage : e.usecount = g + 1
                 /\ header' = Append(header, e)
<1>. DEFINE b == BaseOf[request.mid]
<1>1. /\ pc \in {"register", "addregister"} /\ pc' = "idle"
      /\ UNCHANGED <<fwl, fwCorrelatorId, subscriptions, loaded, walk, owed, reloads>>
  BY DEF RegisterCallback, Done, walkvars
<1>2. request \in Request /\ b \in Nat  BY <1>1, Bounds DEF Types, Request
<1>3. CASE \E i \in 1..Len(header) : i = IndexOf(header, b) /\ CountUp(header[i])
  <2>1. PICK i \in 1..Len(header) : i = IndexOf(header, b) /\ CountUp(header[i])  BY <1>3
  <2>2. header[i].mid = b  BY <2>1, IndexFinds DEF Types
  <2>3. header[i] \in Entry /\ header[i].registered \in BOOLEAN /\ header[i].usecount \in Int
    BY EntryIsTyped DEF Types
  <2>4. CASE header[i].registered
    <3>. DEFINE e == [header[i] EXCEPT !.usecount = header[i].usecount + 1]
    <3>1. header' = [header EXCEPT ![i] = e]
      <4>1. header' = [header EXCEPT ![IndexOf(header, header[i].mid)].usecount = @ + 1]
        BY <2>1, <2>4 DEF CountUp
      <4>2. header' = [header EXCEPT ![i].usecount = @ + 1]  BY <4>1, <2>1, <2>2
      <4>. QED  BY <4>2
    <3>2. e \in Entry /\ e.mid = header[i].mid /\ e.registered /\ e.usecount = header[i].usecount + 1
      BY <2>3, <2>4 DEF Entry
    <3>. HIDE DEF e
    <3>. QED  BY <1>1, <1>2, <2>1, <2>2, <2>4, <3>1, <3>2
  <2>5. CASE ~header[i].registered
    <3>1. PICK g \in Garbage : header' = [header EXCEPT ![IndexOf(header, header[i].mid)] =
                                 [mid |-> header[i].mid, registered |-> TRUE, usecount |-> g + 1]]
      BY <2>1, <2>5 DEF CountUp
    <3>. DEFINE e == [mid |-> header[i].mid, registered |-> TRUE, usecount |-> g + 1]
    <3>2. header' = [header EXCEPT ![i] = e]  BY <3>1, <2>1, <2>2
    <3>3. e \in Entry /\ e.mid = header[i].mid /\ e.registered /\ e.usecount = g + 1
      BY <1>2, <2>2, Bounds DEF Entry
    <3>. HIDE DEF e
    <3>. QED  BY <1>1, <1>2, <2>1, <2>2, <2>5, <3>2, <3>3
  <2>. QED  BY <2>4, <2>5
<1>4. CASE pc = "addregister"
             /\ \E g \in Garbage :
                  header' = Append(header, [mid |-> b, registered |-> TRUE, usecount |-> g + 1])
  <2>1. PICK g \in Garbage : header' = Append(header, [mid |-> b, registered |-> TRUE, usecount |-> g + 1])
    BY <1>4
  <2>. DEFINE e == [mid |-> b, registered |-> TRUE, usecount |-> g + 1]
  <2>2. e \in Entry /\ e.mid = b /\ e.registered /\ e.usecount = g + 1  BY <1>2, Bounds DEF Entry
  <2>3. header' = Append(header, e)  BY <2>1
  <2>. HIDE DEF e
  <2>. QED  BY <1>1, <1>2, <1>4, <2>2, <2>3
<1>. QED  BY <1>3, <1>4 DEF RegisterCallback

LEMMA NewEntryTyped == ASSUME NEW b \in Nat PROVE NewEntry(b) \in Entry /\ NewEntry(b).mid = b /\ ~NewEntry(b).registered
BY DEF NewEntry, Entry

LEMMA Unregisters ==
  ASSUME Types, UnregisterCallback
  PROVE  /\ pc \in {"unregister", "addunregister"} /\ pc' = "idle" /\ request \in Request
         /\ UNCHANGED <<fwl, fwCorrelatorId, subscriptions, loaded, walk, owed, reloads>>
         /\ \/ \E i \in 1..Len(header), e \in Entry :
                 /\ i = IndexOf(header, BaseOf[request.mid]) /\ header[i].mid = BaseOf[request.mid]
                 /\ e.mid = header[i].mid /\ header' = [header EXCEPT ![i] = e]
                 /\ \/ header[i].registered /\ header[i].usecount = 1 /\ ~e.registered
                    \/ /\ header[i].registered /\ header[i].usecount # 1
                       /\ e.registered /\ e.usecount = header[i].usecount - 1
                    \/ ~header[i].registered /\ ~e.registered
            \/ \E e \in Entry :
                 /\ pc = "addunregister" /\ e.mid = BaseOf[request.mid] /\ ~e.registered
                 /\ header' = Append(header, e)
<1>. DEFINE b == BaseOf[request.mid]
<1>1. /\ pc \in {"unregister", "addunregister"} /\ pc' = "idle"
      /\ UNCHANGED <<fwl, fwCorrelatorId, subscriptions, loaded, walk, owed, reloads>>
  BY DEF UnregisterCallback, Done, walkvars
<1>2. request \in Request /\ b \in Nat  BY <1>1, Bounds DEF Types, Request
<1>3. CASE \E i \in 1..Len(header) : i = IndexOf(header, b) /\ CountDown(header[i])
  <2>1. PICK i \in 1..Len(header) : i = IndexOf(header, b) /\ CountDown(header[i])  BY <1>3
  <2>2. header[i].mid = b  BY <2>1, IndexFinds DEF Types
  <2>3. header[i] \in Entry /\ header[i].registered \in BOOLEAN /\ header[i].usecount \in Int
    BY EntryIsTyped DEF Types
  <2>. DEFINE h == header[i]
              e == IF h.registered /\ h.usecount = 1 THEN NewEntry(h.mid)
                   ELSE IF h.registered THEN [h EXCEPT !.usecount = h.usecount - 1] ELSE h
  <2>4. header' = [header EXCEPT ![i] = e]
    <3>1. header' = [header EXCEPT ![IndexOf(header, h.mid)] =
                IF h.registered /\ h.usecount = 1 THEN NewEntry(h.mid)
                ELSE IF h.registered THEN [h EXCEPT !.usecount = @ - 1] ELSE h]
      BY <2>1 DEF CountDown
    <3>. QED  BY <3>1, <2>1, <2>2
  <2>5. NewEntry(h.mid) \in Entry /\ NewEntry(h.mid).mid = h.mid /\ ~NewEntry(h.mid).registered
    BY <1>2, <2>2, NewEntryTyped
  <2>6. /\ e \in Entry /\ e.mid = header[i].mid
        /\ \/ header[i].registered /\ header[i].usecount = 1 /\ ~e.registered
           \/ /\ header[i].registered /\ header[i].usecount # 1
              /\ e.registered /\ e.usecount = header[i].usecount - 1
           \/ ~header[i].registered /\ ~e.registered
    <3>1. CASE h.registered /\ h.usecount = 1  BY <3>1, <2>5
    <3>2. CASE h.registered /\ h.usecount # 1  BY <3>2, <2>3 DEF Entry
    <3>3. CASE ~h.registered  BY <3>3, <2>3
    <3>. QED  BY <3>1, <3>2, <3>3
  <2>. HIDE DEF e
  <2>. QED  BY <1>1, <1>2, <2>1, <2>2, <2>4, <2>6
<1>4. CASE pc = "addunregister" /\ header' = Append(header, NewEntry(b))
  BY <1>1, <1>2, <1>4, NewEntryTyped
<1>. QED  BY <1>3, <1>4 DEF UnregisterCallback

LEMMA CallbackTypes == ASSUME Types, RegisterCallback \/ UnregisterCallback PROVE Types'
<1>1. header' \in Seq(Entry)
  <2>1. ASSUME NEW i \in 1..Len(header), NEW e \in Entry, header' = [header EXCEPT ![i] = e]
        PROVE header' \in Seq(Entry)
    BY <2>1, ExceptSeq DEF Types
  <2>2. ASSUME NEW e \in Entry, header' = Append(header, e) PROVE header' \in Seq(Entry)
    BY <2>2, AppendProperties DEF Types
  <2>3. CASE RegisterCallback    BY <2>1, <2>2, <2>3, Registers
  <2>4. CASE UnregisterCallback  BY <2>1, <2>2, <2>4, Unregisters
  <2>. QED  BY <2>3, <2>4
<1>2. pc' = "idle" /\ UNCHANGED <<fwl, fwCorrelatorId, subscriptions, loaded, walk, owed, reloads>>
  BY Registers, Unregisters
<1>. QED  BY <1>1, <1>2 DEF Types, Labels

(* The walk.                                                               *)
LEMMA WalkBegun ==
  ASSUME NEW mid \in Nat, NEW rest \in Walk
  PROVE  LET w == [rest EXCEPT !.at = "read", !.value = mid, !.pos = 1]
         IN w \in Walk /\ w.at = "read" /\ w.value = mid /\ w.pos = 1
<1>. DEFINE w == [rest EXCEPT !.at = "read", !.value = mid, !.pos = 1]
<1>1. w.at = "read" /\ w.value = mid /\ w.pos = 1  BY DEF Walk
<1>2. w \in Walk
  <2>. DEFINE v == [rest EXCEPT !.value = mid]  u == [v EXCEPT !.pos = 1]
  <2>1. v \in Walk  BY DEF Walk
  <2>2. u \in Walk
    <3>. HIDE DEF v
    <3>. QED  BY <2>1 DEF Walk
  <2>3. [u EXCEPT !.at = "read"] \in Walk
    <3>. HIDE DEF u
    <3>. QED  BY <2>2 DEF Walk
  <2>4. w = [u EXCEPT !.at = "read"]  OBVIOUS
  <2>. QED  BY <2>3, <2>4
<1>. QED  BY <1>1, <1>2

LEMMA WalkEnded ==
  ASSUME walk \in Walk
  PROVE  LET w == [walk EXCEPT !.at = "ended"]
         IN w \in Walk /\ w.at = "ended" /\ w.value = walk.value
BY DEF Walk

LEMMA WalkForwards ==
  ASSUME walk \in Walk, NEW mid \in Nat, NEW corrid \in Nat
  PROVE  LET w == [walk EXCEPT !.at = "forward", !.mid = mid, !.corrid = corrid]
         IN w \in Walk /\ w.at = "forward" /\ w.value = walk.value /\ w.pos = walk.pos
BY DEF Walk

LEMMA WalkForwarded ==
  ASSUME walk \in Walk, NEW pos \in Int
  PROVE  LET w == [walk EXCEPT !.at = "read", !.pos = pos, !.mid = 0, !.corrid = 0]
         IN w \in Walk /\ w.at = "read" /\ w.value = walk.value /\ w.pos = pos
BY DEF Walk

LEMMA WalkBegins ==
  ASSUME Types, NEW mid \in Bases, LocalMetricAdd(mid)
  PROVE  /\ UNCHANGED <<fwl, fwCorrelatorId, subscriptions, loaded, pc, request, reloads>>
         /\ \/ header' = header
            \/ IndexOf(header, mid) = 0 /\ header' = Append(header, NewEntry(mid))
         /\ \/ UNCHANGED <<walk, owed>>
            \/ /\ walk' \in Walk /\ walk'.at = "read" /\ walk'.value = mid /\ walk'.pos = 1
               /\ OnItsWay(walk')
               /\ owed' = {s.mid : s \in {s \in ToSet(subscriptions) : Matches(s, mid)}}
<1>1. UNCHANGED <<fwl, fwCorrelatorId, subscriptions, loaded, pc, request, reloads>>
  BY DEF LocalMetricAdd, mainvars
<1>2. \/ header' = header
      \/ IndexOf(header, mid) = 0 /\ header' = Append(header, NewEntry(mid))
  BY DEF LocalMetricAdd
<1>3. \/ UNCHANGED <<walk, owed>>
      \/ /\ walk' = [Resting EXCEPT !.at = "read", !.value = mid, !.pos = 1]
         /\ owed' = {s.mid : s \in {s \in ToSet(subscriptions) : Matches(s, mid)}}
  BY DEF LocalMetricAdd, walkvars
<1>. DEFINE w == [Resting EXCEPT !.at = "read", !.value = mid, !.pos = 1]
<1>4. w \in Walk /\ w.at = "read" /\ w.value = mid /\ w.pos = 1 /\ OnItsWay(w)
  <2>0. Resting \in Walk  BY DEF Walk, Resting
  <2>1. w \in Walk /\ w.at = "read" /\ w.value = mid /\ w.pos = 1
    BY <2>0, Bounds, WalkBegun
  <2>. HIDE DEF w
  <2>. QED  BY <2>1 DEF OnItsWay
<1>. HIDE DEF w
<1>5. \/ UNCHANGED <<walk, owed>>
      \/ /\ walk' = w
         /\ owed' = {s.mid : s \in {s \in ToSet(subscriptions) : Matches(s, mid)}}
  BY <1>3 DEF w
<1>. QED  BY <1>1, <1>2, <1>4, <1>5

LEMMA WalkGoesOn ==
  ASSUME Types, ReadSubscription \/ subs_forward \/ EndOfList \/ LocalMetricAdded
  PROVE  /\ UNCHANGED <<fwl, fwCorrelatorId, subscriptions, header, loaded, pc, request, reloads>>
         /\ walk' \in Walk /\ OnItsWay(walk') /\ owed' \subseteq owed
         /\ \/ /\ walk.at = "read" /\ walk.pos \in 1..Len(subscriptions)
               /\ walk'.value = walk.value
               /\ \/ /\ EndsAt(subscriptions[walk.pos])
                     /\ owed' = owed /\ walk'.at = "ended"
                  \/ /\ owed' = owed \ {subscriptions[walk.pos].mid}
                     /\ \/ walk'.at = "forward" /\ walk'.pos = walk.pos
                        \/ walk'.at = "read" /\ walk'.pos = walk.pos + 1
            \/ /\ walk.at = "forward" /\ walk'.at = "read"
               /\ walk'.pos = walk.pos + 1 /\ walk'.value = walk.value /\ owed' = owed
            \/ /\ walk.at = "read" /\ walk.pos > Len(subscriptions)
               /\ walk'.at = "ended" /\ walk'.value = walk.value /\ owed' = owed
            \/ walk'.at = "idle" /\ owed' = {}
<1>1. UNCHANGED <<fwl, fwCorrelatorId, subscriptions, header, loaded, pc, request, reloads>>
  BY DEF ReadSubscription, subs_forward, EndOfList, LocalMetricAdded, mainvars
<1>2. walk \in Walk /\ walk.pos \in Int /\ OnItsWay(walk)  BY DEF Types, Walk
<1>3. CASE ReadSubscription
  <2>. DEFINE s == subscriptions[walk.pos]
  <2>1. walk.at = "read" /\ walk.pos <= Len(subscriptions)  BY <1>3 DEF ReadSubscription
  <2>2. walk.pos \in 1..Len(subscriptions)  BY <2>1, <1>2 DEF OnItsWay
  <2>3. s.mid \in Nat /\ s.corrid \in Nat
    <3>1. s \in Subscription  BY <2>2 DEF Types
    <3>. HIDE DEF s
    <3>. QED  BY <3>1, Bounds DEF Subscription
  <2>4. \/ EndsAt(s) /\ owed' = owed /\ walk' = [walk EXCEPT !.at = "ended"]
        \/ /\ owed' = owed \ {s.mid}
           /\ \/ walk' = [walk EXCEPT !.at = "forward", !.mid = s.mid, !.corrid = s.corrid]
              \/ walk' = [walk EXCEPT !.pos = walk.pos + 1]
    BY <1>3 DEF ReadSubscription
  <2>5. CASE EndsAt(s) /\ owed' = owed /\ walk' = [walk EXCEPT !.at = "ended"]
    <3>1. walk' \in Walk /\ walk'.at = "ended" /\ walk'.value = walk.value
      BY <2>5, <1>2, WalkEnded
    <3>. QED  BY <1>1, <2>1, <2>2, <2>5, <3>1 DEF OnItsWay
  <2>6. CASE owed' = owed \ {s.mid}
             /\ walk' = [walk EXCEPT !.at = "forward", !.mid = s.mid, !.corrid = s.corrid]
    <3>1. walk' \in Walk /\ walk'.at = "forward" /\ walk'.value = walk.value /\ walk'.pos = walk.pos
      <4>. HIDE DEF s
      <4>. QED  BY <2>6, <2>3, <1>2, WalkForwards
    <3>2. OnItsWay(walk')  BY <3>1, <2>2 DEF OnItsWay
    <3>. QED  BY <1>1, <2>1, <2>2, <2>6, <3>1, <3>2
  <2>7. CASE owed' = owed \ {s.mid} /\ walk' = [walk EXCEPT !.pos = walk.pos + 1]
    <3>1. walk.pos + 1 \in Int  BY <1>2
    <3>2. walk' \in Walk /\ walk'.at = walk.at /\ walk'.value = walk.value /\ walk'.pos = walk.pos + 1
      BY <2>7, <1>2, <3>1, WalkMoved
    <3>3. OnItsWay(walk')  BY <3>2, <2>1, <2>2 DEF OnItsWay
    <3>. QED  BY <1>1, <2>1, <2>2, <2>7, <3>2, <3>3
  <2>. QED  BY <2>4, <2>5, <2>6, <2>7
<1>4. CASE subs_forward
  <2>1. /\ owed' = owed /\ walk.at = "forward"
        /\ walk' = [walk EXCEPT !.at = "read", !.pos = walk.pos + 1, !.mid = 0, !.corrid = 0]
    BY <1>4 DEF subs_forward
  <2>2. walk.pos + 1 \in Int  BY <1>2
  <2>3. walk' \in Walk /\ walk'.at = "read" /\ walk'.value = walk.value /\ walk'.pos = walk.pos + 1
    BY <2>1, <2>2, <1>2, WalkForwarded
  <2>4. OnItsWay(walk')  BY <2>1, <2>3, <1>2 DEF OnItsWay
  <2>. QED  BY <1>1, <2>1, <2>3, <2>4
<1>5. CASE EndOfList
  <2>1. owed' = owed /\ walk' = [walk EXCEPT !.at = "ended"] /\ walk.at = "read" /\ walk.pos > Len(subscriptions)
    BY <1>5 DEF EndOfList
  <2>2. walk' \in Walk /\ walk'.at = "ended" /\ walk'.value = walk.value  BY <2>1, <1>2, WalkEnded
  <2>. QED  BY <1>1, <2>1, <2>2 DEF OnItsWay
<1>6. CASE LocalMetricAdded
  <2>1. owed' = {} /\ walk' = Resting  BY <1>6 DEF LocalMetricAdded
  <2>2. Resting \in Walk /\ Resting.at = "idle"  BY DEF Walk, Resting
  <2>. QED  BY <2>1, <2>2, <1>1 DEF OnItsWay
<1>. QED  BY <1>3, <1>4, <1>5, <1>6

LEMMA WalkTypes ==
  ASSUME Types, \/ \E mid \in Bases : LocalMetricAdd(mid)
                \/ ReadSubscription \/ subs_forward \/ EndOfList \/ LocalMetricAdded
  PROVE  Types'
<1>1. ASSUME NEW mid \in Bases, LocalMetricAdd(mid) PROVE Types'
  <2>1. header' \in Seq(Entry)
    <3>. DEFINE e == NewEntry(mid)
    <3>1. e \in Entry  BY Bounds, NewEntryTyped
    <3>2. header' = header \/ header' = Append(header, e)  BY <1>1, WalkBegins
    <3>. HIDE DEF e
    <3>3. header \in Seq(Entry)  BY DEF Types
    <3>4. Append(header, e) \in Seq(Entry)  BY <3>1, <3>3, AppendProperties
    <3>. QED  BY <3>2, <3>3, <3>4
  <2>2. {s.mid : s \in {s \in ToSet(subscriptions) : Matches(s, mid)}} \subseteq Metrics
    <3>1. ToSet(subscriptions) \subseteq Subscription  BY DEF Types, ToSet
    <3>. QED  BY <3>1 DEF Subscription
  <2>3. walk' \in Walk /\ OnItsWay(walk') /\ owed' \subseteq Metrics
    <3>1. CASE UNCHANGED <<walk, owed>>  BY <3>1 DEF Types
    <3>2. CASE ~UNCHANGED <<walk, owed>>
      <4>1. walk' \in Walk /\ OnItsWay(walk') /\ owed' = {s.mid : s \in {s \in ToSet(subscriptions) : Matches(s, mid)}}
        BY <1>1, <3>2, WalkBegins
      <4>. QED  BY <2>2, <4>1
    <3>. QED  BY <3>1, <3>2
  <2>. QED  BY <1>1, <2>1, <2>3, WalkBegins DEF Types
<1>2. ASSUME ReadSubscription \/ subs_forward \/ EndOfList \/ LocalMetricAdded PROVE Types'
  BY <1>2, WalkGoesOn DEF Types
<1>. QED  BY <1>1, <1>2

(* Plugins come and go: reloads counts them.                               *)
LEMMA Reloads ==
  ASSUME Types, repos_terminate \/ \E m \in Metrics : Reload(m)
  PROVE  /\ UNCHANGED <<fwl, fwCorrelatorId, subscriptions, pc, request, walk, owed>>
         /\ reloads' \in Nat /\ reloads' # 0
         /\ loaded' \subseteq Metrics /\ header' \in Seq(Entry)
<1>1. reloads \in Nat /\ reloads' = reloads + 1  BY DEF Types, repos_terminate, Reload
<1>2. UNCHANGED <<fwl, fwCorrelatorId, subscriptions, pc, request, walk, owed>>
  BY DEF repos_terminate, Reload, mainvars, walkvars
<1>3. loaded' \subseteq Metrics /\ header' \in Seq(Entry)
  <2>1. CASE repos_terminate
    <3>1. loaded' = {} /\ header' = <<>>  BY <2>1 DEF repos_terminate
    <3>. QED  BY <3>1
  <2>2. CASE \E m \in Metrics : Reload(m)  BY <2>2 DEF Types, Reload
  <2>. QED  BY <2>1, <2>2
<1>. QED  BY <1>1, <1>2, <1>3

LEMMA StepTypes == Types /\ [Next]_vars => Types'
<1>. SUFFICES ASSUME Types, [Next]_vars PROVE Types'  OBVIOUS
<1>1. ASSUME NEW r \in Requests, subs_enable_forwarding(r) \/ subs_disable_forwarding(r) PROVE Types'
  BY <1>1, EnableTypes, DisableTypes
<1>2. CASE sub_add \/ sub_remove  BY <1>2, AddTypes, RemoveTypes
<1>3. CASE LocateEntry \/ RegisterCallback \/ UnregisterCallback  BY <1>3, LocateTypes, CallbackTypes
<1>4. CASE \/ \E mid \in Bases : LocalMetricAdd(mid)
           \/ ReadSubscription \/ subs_forward \/ EndOfList \/ LocalMetricAdded
  BY <1>4, WalkTypes
<1>5. CASE repos_terminate \/ \E m \in Metrics : Reload(m)
  <2>1. /\ UNCHANGED <<fwl, fwCorrelatorId, subscriptions, pc, request, walk, owed>>
        /\ reloads' \in Nat /\ loaded' \subseteq Metrics /\ header' \in Seq(Entry)
    BY <1>5, Reloads
  <2>. QED  BY <2>1 DEF Types
<1>6. CASE UNCHANGED vars  BY <1>6 DEF Types, vars, mainvars, walkvars
<1>. QED  BY <1>1, <1>2, <1>3, <1>4, <1>5, <1>6 DEF Next
-----------------------------------------------------------------------------
(* The use count covers the subscriptions.                                 *)

LEMMA CountAdds == ASSUME Types, Counted, sub_add PROVE Counted'
<1>. SUFFICES ASSUME reloads' = 0, NEW b \in Nat, OnlyOne(header', b)
              PROVE  Cardinality(SubsOf(subscriptions', b)) <= Uses(header', b) + Pending(b)'
  BY DEF Counted
<1>1. pc = "subscribe" /\ header' = header /\ reloads' = reloads /\ NewSubscription \in Subscription
  BY SubAdds
<1>2. Uses(header, b) \in Int /\ Cardinality(SubsOf(subscriptions, b)) \in Nat
  BY UsesType, SubsCounted DEF Types
<1>3. Cardinality(SubsOf(subscriptions, b)) <= Uses(header, b)
  <2>1. Pending(b) = 0  BY <1>1 DEF Pending
  <2>2. Cardinality(SubsOf(subscriptions, b)) <= Uses(header, b) + Pending(b)  BY <1>1 DEF Counted
  <2>. QED  BY <2>1, <2>2, <1>2
<1>4. Pending(b)' \in 0..1  BY SubAdds DEF Pending
<1>5. CASE subscriptions' = subscriptions  BY <1>1, <1>2, <1>3, <1>4, <1>5
<1>6. CASE /\ pc' = "register" /\ request' = request
           /\ subscriptions' = InsertAt(subscriptions, Place(BaseOf[request.mid]), NewSubscription)
  <2>. DEFINE p == Place(BaseOf[request.mid])
  <2>1. p \in 1..Len(subscriptions) + 1  BY PlaceInList DEF Types
  <2>2. NewSubscription.base = BaseOf[request.mid]  BY DEF NewSubscription
  <2>3. Pending(b)' = IF NewSubscription.base = b THEN 1 ELSE 0  BY <1>6, <2>2 DEF Pending
  <2>4. Cardinality(SubsOf(subscriptions', b))
          <= Cardinality(SubsOf(subscriptions, b)) + (IF NewSubscription.base = b THEN 1 ELSE 0)
    <3>. HIDE DEF p
    <3>. QED  BY <1>1, <1>6, <2>1, CountInserted DEF Types, p
  <2>5. Cardinality(SubsOf(subscriptions', b)) \in Nat
    <3>1. subscriptions' \in Seq(Subscription)  BY AddTypes DEF Types
    <3>. QED  BY <3>1, SubsCounted
  <2>. HIDE DEF p
  <2>. QED  BY <1>1, <1>2, <1>3, <2>3, <2>4, <2>5
<1>. QED  BY <1>5, <1>6, SubAdds

LEMMA CountRemoves == ASSUME Types, Counted, sub_remove PROVE Counted'
<1>. SUFFICES ASSUME reloads' = 0, NEW b \in Nat, OnlyOne(header', b)
              PROVE  Cardinality(SubsOf(subscriptions', b)) <= Uses(header', b) + Pending(b)'
  BY DEF Counted
<1>1. pc = "unsubscribe" /\ header' = header /\ reloads' = reloads  BY SubRemoves
<1>2. Uses(header, b) \in Int /\ Cardinality(SubsOf(subscriptions, b)) \in Nat
  BY UsesType, SubsCounted DEF Types
<1>3. Cardinality(SubsOf(subscriptions, b)) <= Uses(header, b)
  <2>1. Pending(b) = 0  BY <1>1 DEF Pending
  <2>2. Cardinality(SubsOf(subscriptions, b)) <= Uses(header, b) + Pending(b)  BY <1>1 DEF Counted
  <2>. QED  BY <2>1, <2>2, <1>2
<1>4. CASE pc' = "idle" /\ subscriptions' = subscriptions
  <2>1. Pending(b)' = 0  BY <1>4 DEF Pending
  <2>. QED  BY <1>1, <1>2, <1>3, <1>4, <2>1
<1>5. ASSUME pc' = "unregister", request' = request, NEW i \in 1..Len(subscriptions),
             subscriptions[i].mid = request.mid, subscriptions' = RemoveAt(subscriptions, i)
      PROVE  Cardinality(SubsOf(subscriptions', b)) <= Uses(header', b) + Pending(b)'
  <2>1. subscriptions[i].base = BaseOf[request.mid]  BY <1>5, BaseOfEntry DEF Types
  <2>2. Pending(b)' = IF subscriptions[i].base = b THEN -1 ELSE 0  BY <1>5, <2>1 DEF Pending
  <2>3. Cardinality(SubsOf(subscriptions', b))
          <= Cardinality(SubsOf(subscriptions, b)) - (IF subscriptions[i].base = b THEN 1 ELSE 0)
    BY <1>5, CountRemoved DEF Types
  <2>4. Cardinality(SubsOf(subscriptions', b)) \in Nat
    <3>1. subscriptions' \in Seq(Subscription)  BY RemoveTypes DEF Types
    <3>. QED  BY <3>1, SubsCounted
  <2>. QED  BY <1>1, <1>2, <1>3, <2>2, <2>3, <2>4
<1>. QED  BY <1>4, <1>5, SubRemoves

LEMMA CountRegisters == ASSUME Garbage \subseteq Nat, Types, Counted, RegisterCallback PROVE Counted'
<1>. SUFFICES ASSUME reloads' = 0, NEW b \in Nat, OnlyOne(header', b)
              PROVE  Cardinality(SubsOf(subscriptions', b)) <= Uses(header', b) + Pending(b)'
  BY DEF Counted
<1>1. /\ pc \in {"register", "addregister"} /\ pc' = "idle" /\ reloads = 0
      /\ subscriptions' = subscriptions
  BY Registers
<1>2. Pending(b) = (IF BaseOf[request.mid] = b THEN 1 ELSE 0) /\ Pending(b)' = 0
  BY <1>1 DEF Pending
<1>3. Uses(header, b) \in Int /\ Cardinality(SubsOf(subscriptions, b)) \in Nat
  BY UsesType, SubsCounted DEF Types
<1>4. OnlyOne(header, b) => Cardinality(SubsOf(subscriptions, b)) <= Uses(header, b) + Pending(b)
  BY <1>1 DEF Counted
<1>5. ASSUME NEW i \in 1..Len(header), NEW e \in Entry,
             i = IndexOf(header, BaseOf[request.mid]), header[i].mid = BaseOf[request.mid],
             e.mid = header[i].mid, e.registered, header' = [header EXCEPT ![i] = e],
             \/ header[i].registered /\ e.usecount = header[i].usecount + 1
             \/ ~header[i].registered /\ \E g \in Garbage : e.usecount = g + 1
      PROVE  Cardinality(SubsOf(subscriptions', b)) <= Uses(header', b) + Pending(b)'
  <2>0. header \in Seq(Entry) /\ i = IndexOf(header, header[i].mid)  BY <1>5 DEF Types
  <2>1. /\ OnlyOne(header', b) <=> OnlyOne(header, b)
        /\ Uses(header', b) = IF b = e.mid THEN (IF e.registered THEN e.usecount ELSE 0) ELSE Uses(header, b)
    BY <2>0, <1>5, EntryWritten
  <2>2. CASE b # e.mid  BY <2>2, <2>1, <1>1, <1>2, <1>3, <1>4, <1>5
  <2>3. CASE b = e.mid
    <3>1. i # 0 /\ IndexOf(header, b) = i  BY <2>3, <1>5
    <3>2. Uses(header, b) = IF header[i].registered THEN header[i].usecount ELSE 0
      BY <3>1, Zenon DEF Uses
    <3>3. e.usecount \in Int /\ header[i].usecount \in Int  BY EntryIsTyped DEF Types, Entry
    <3>4. Uses(header, b) + 1 <= e.usecount
      <4>1. CASE header[i].registered  BY <4>1, <3>2, <3>3, <1>5
      <4>2. CASE ~header[i].registered
        <5>1. PICK g \in Garbage : e.usecount = g + 1  BY <4>2, <1>5
        <5>2. g \in Nat  OBVIOUS
        <5>. QED  BY <5>1, <5>2, <4>2, <3>2
      <4>. QED  BY <4>1, <4>2
    <3>. QED  BY <3>3, <3>4, <2>1, <2>3, <1>1, <1>2, <1>3, <1>4, <1>5
  <2>. QED  BY <2>2, <2>3
<1>6. ASSUME NEW e \in Entry, e.mid = BaseOf[request.mid], e.registered,
             NEW g \in Garbage, e.usecount = g + 1, header' = Append(header, e)
      PROVE  Cardinality(SubsOf(subscriptions', b)) <= Uses(header', b) + Pending(b)'
  <2>1. /\ OnlyOne(header, b) /\ (e.mid = b => IndexOf(header, b) = 0)
        /\ Uses(header', b) = IF IndexOf(header, b) # 0 \/ b # e.mid THEN Uses(header, b) ELSE e.usecount
    BY <1>6, EntryAdded DEF Types
  <2>2. CASE b # e.mid  BY <2>2, <2>1, <1>1, <1>2, <1>3, <1>4, <1>6
  <2>3. CASE b = e.mid
    <3>1. Uses(header, b) = 0  BY <2>1, <2>3 DEF Uses
    <3>2. g \in Nat  OBVIOUS
    <3>. QED  BY <3>1, <3>2, <2>1, <2>3, <1>1, <1>2, <1>3, <1>4, <1>6
  <2>. QED  BY <2>2, <2>3
<1>. QED  BY <1>5, <1>6, Registers

LEMMA CountUnregisters == ASSUME Types, Counted, UnregisterCallback PROVE Counted'
<1>. SUFFICES ASSUME reloads' = 0, NEW b \in Nat, OnlyOne(header', b)
              PROVE  Cardinality(SubsOf(subscriptions', b)) <= Uses(header', b) + Pending(b)'
  BY DEF Counted
<1>1. /\ pc \in {"unregister", "addunregister"} /\ pc' = "idle" /\ reloads = 0
      /\ subscriptions' = subscriptions
  BY Unregisters
<1>2. Pending(b) = (IF BaseOf[request.mid] = b THEN -1 ELSE 0) /\ Pending(b)' = 0
  BY <1>1 DEF Pending
<1>3. Uses(header, b) \in Int /\ Cardinality(SubsOf(subscriptions, b)) \in Nat
  BY UsesType, SubsCounted DEF Types
<1>4. OnlyOne(header, b) => Cardinality(SubsOf(subscriptions, b)) <= Uses(header, b) + Pending(b)
  BY <1>1 DEF Counted
<1>5. ASSUME NEW i \in 1..Len(header), NEW e \in Entry,
             i = IndexOf(header, BaseOf[request.mid]), header[i].mid = BaseOf[request.mid],
             e.mid = header[i].mid, header' = [header EXCEPT ![i] = e],
             \/ header[i].registered /\ header[i].usecount = 1 /\ ~e.registered
             \/ /\ header[i].registered /\ header[i].usecount # 1
                /\ e.registered /\ e.usecount = header[i].usecount - 1
             \/ ~header[i].registered /\ ~e.registered
      PROVE  Cardinality(SubsOf(subscriptions', b)) <= Uses(header', b) + Pending(b)'
  <2>1. /\ OnlyOne(header', b) <=> OnlyOne(header, b)
        /\ Uses(header', b) = IF b = e.mid THEN (IF e.registered THEN e.usecount ELSE 0) ELSE Uses(header, b)
    BY <1>5, EntryWritten DEF Types
  <2>2. CASE b # e.mid  BY <2>2, <2>1, <1>1, <1>2, <1>3, <1>4, <1>5
  <2>3. CASE b = e.mid
    <3>1. i # 0 /\ IndexOf(header, b) = i  BY <2>3, <1>5
    <3>2. Uses(header, b) = IF header[i].registered THEN header[i].usecount ELSE 0
      BY <3>1, Zenon DEF Uses
    <3>3. header[i].usecount \in Int  BY EntryIsTyped DEF Types
    <3>4. Cardinality(SubsOf(subscriptions, b)) <= Uses(header, b) - 1
      BY <2>1, <2>3, <1>2, <1>3, <1>4, <1>5
    <3>. QED  BY <3>2, <3>3, <3>4, <2>1, <2>3, <1>1, <1>2, <1>3, <1>5
  <2>. QED  BY <2>2, <2>3
<1>6. ASSUME NEW e \in Entry, e.mid = BaseOf[request.mid], ~e.registered, header' = Append(header, e)
      PROVE  Cardinality(SubsOf(subscriptions', b)) <= Uses(header', b) + Pending(b)'
  <2>1. /\ OnlyOne(header, b) /\ (e.mid = b => IndexOf(header, b) = 0)
        /\ Uses(header', b) = IF IndexOf(header, b) # 0 \/ b # e.mid THEN Uses(header, b) ELSE 0
    BY <1>6, EntryAdded DEF Types
  <2>2. CASE b # e.mid  BY <2>2, <2>1, <1>1, <1>2, <1>3, <1>4, <1>6
  <2>3. CASE b = e.mid
    <3>1. Uses(header, b) = 0  BY <2>1, <2>3 DEF Uses
    <3>. QED  BY <3>1, <2>1, <2>3, <1>2, <1>3, <1>4, <1>6
  <2>. QED  BY <2>2, <2>3
<1>. QED  BY <1>5, <1>6, Unregisters

LEMMA CountWalks ==
  ASSUME Types, Counted, \/ \E mid \in Bases : LocalMetricAdd(mid)
                         \/ ReadSubscription \/ subs_forward \/ EndOfList \/ LocalMetricAdded
  PROVE  Counted'
<1>1. ASSUME NEW mid \in Bases, LocalMetricAdd(mid) PROVE Counted'
  <2>1. UNCHANGED <<subscriptions, pc, request, reloads>>  BY <1>1, WalkBegins
  <2>2. \A b : Pending(b)' = Pending(b)  BY <2>1 DEF Pending
  <2>3. CASE header' = header  BY <2>1, <2>2, <2>3 DEF Counted
  <2>4. CASE IndexOf(header, mid) = 0 /\ header' = Append(header, NewEntry(mid))
    <3>. DEFINE e == NewEntry(mid)
    <3>1. e \in Entry /\ e.mid = mid /\ ~e.registered  BY Bounds, NewEntryTyped
    <3>2. header' = Append(header, e) /\ header \in Seq(Entry)  BY <2>4 DEF Types
    <3>. HIDE DEF e
    <3>3. ASSUME NEW b, OnlyOne(header', b) PROVE OnlyOne(header, b) /\ Uses(header', b) = Uses(header, b)
      <4>1. /\ OnlyOne(header, b)
            /\ Uses(header', b) = IF IndexOf(header, b) # 0 \/ b # e.mid THEN Uses(header, b) ELSE 0
        BY <3>1, <3>2, <3>3, EntryAdded
      <4>2. b = mid => Uses(header, b) = 0  BY <2>4 DEF Uses
      <4>. QED  BY <4>1, <4>2, <2>4, <3>1
    <3>. QED  BY <3>3, <2>1, <2>2 DEF Counted
  <2>. QED  BY <1>1, <2>3, <2>4, WalkBegins
<1>2. ASSUME ReadSubscription \/ subs_forward \/ EndOfList \/ LocalMetricAdded PROVE Counted'
  <2>1. UNCHANGED <<subscriptions, header, pc, request, reloads>>  BY <1>2, WalkGoesOn
  <2>. QED  BY <2>1 DEF Counted, Pending
<1>. QED  BY <1>1, <1>2

LEMMA StepCounted == Garbage \subseteq Nat /\ Types /\ Counted /\ [Next]_vars => Counted'
<1>. SUFFICES ASSUME Garbage \subseteq Nat, Types, Counted, [Next]_vars PROVE Counted'  OBVIOUS
<1>1. ASSUME NEW r \in Requests, subs_enable_forwarding(r) \/ subs_disable_forwarding(r) PROVE Counted'
  <2>1. /\ pc = "idle" /\ pc' \in {"subscribe", "unsubscribe"}
        /\ UNCHANGED <<subscriptions, header, reloads>>
    BY <1>1 DEF subs_enable_forwarding, subs_disable_forwarding, Goto
  <2>. QED  BY <2>1 DEF Counted, Pending
<1>2. CASE sub_add \/ sub_remove  BY <1>2, CountAdds, CountRemoves
<1>3. CASE LocateEntry
  <2>1. /\ UNCHANGED <<subscriptions, header, reloads, request>>
        /\ \/ pc = "register" /\ pc' = "addregister"
           \/ pc = "unregister" /\ pc' = "addunregister"
    BY <1>3 DEF LocateEntry, Goto
  <2>2. \A b : Pending(b)' = Pending(b)  BY <2>1 DEF Pending
  <2>. QED  BY <2>1, <2>2 DEF Counted
<1>4. CASE RegisterCallback \/ UnregisterCallback  BY <1>4, CountRegisters, CountUnregisters
<1>5. CASE \/ \E mid \in Bases : LocalMetricAdd(mid)
           \/ ReadSubscription \/ subs_forward \/ EndOfList \/ LocalMetricAdded
  BY <1>5, CountWalks
<1>6. CASE repos_terminate \/ \E m \in Metrics : Reload(m)  BY <1>6, Reloads DEF Counted
<1>7. CASE UNCHANGED vars  BY <1>7 DEF Counted, Pending, vars, mainvars
<1>. QED  BY <1>1, <1>2, <1>3, <1>4, <1>5, <1>6, <1>7 DEF Next

(* At the start there is nothing subscribed to.                            *)
LEMMA InitCounted == Init => Counted
<1>. SUFFICES ASSUME Init, NEW b \in Nat
              PROVE  Cardinality(SubsOf(subscriptions, b)) <= Uses(header, b) + Pending(b)
  BY DEF Counted
<1>1. SubsOf(subscriptions, b) = {}  BY DEF Init, SubsOf
<1>2. Uses(header, b) = 0
  <2>1. header = <<>> /\ header \in Seq(Entry)  BY DEF Init
  <2>2. Len(header) = 0  BY <2>1
  <2>3. IndexOf(header, b) = 0 \/ IndexOf(header, b) \in 1..Len(header)  BY <2>1, IndexFinds
  <2>4. IndexOf(header, b) = 0  BY <2>2, <2>3
  <2>. QED  BY <2>4 DEF Uses
<1>3. Pending(b) = 0  BY DEF Init, Pending
<1>. QED  BY <1>1, <1>2, <1>3, FS_EmptySet

(* A subscription among the list makes the use count positive, so its      *)
(* callback is there.                                                      *)
LEMMA CountedCallsBack == Types /\ Counted => SubscribedIsCalledBack
<1>. SUFFICES ASSUME Types, Counted, pc = "idle", reloads = 0, NEW m \in Metrics, SubscribedTo(m),
                     \A i, j \in 1..Len(header) :
                       header[i].mid = BaseOf[m] /\ header[j].mid = BaseOf[m] => i = j
              PROVE  \E h \in ToSet(header) : h.mid = BaseOf[m] /\ h.registered
  BY DEF SubscribedIsCalledBack
<1>. DEFINE b == BaseOf[m]
<1>1. OnlyOne(header, b) /\ b \in Nat /\ Pending(b) = 0  BY Bounds DEF OnlyOne, Pending
<1>2. /\ Cardinality(SubsOf(subscriptions, b)) <= Uses(header, b)
      /\ Cardinality(SubsOf(subscriptions, b)) \in Nat /\ Uses(header, b) \in Int
      /\ IsFiniteSet(SubsOf(subscriptions, b))
  BY <1>1, UsesType, SubsCounted DEF Counted, Types
<1>3. SubsOf(subscriptions, b) # {}
  <2>1. PICK i \in 1..Len(subscriptions) : subscriptions[i].mid = m  BY DEF SubscribedTo, ToSet, Types
  <2>2. subscriptions[i].base = b  BY <2>1, BaseOfEntry DEF Types
  <2>. QED  BY <2>2 DEF SubsOf
<1>4. Cardinality(SubsOf(subscriptions, b)) # 0  BY <1>2, <1>3, FS_EmptySet
<1>. DEFINE i == IndexOf(header, b)
<1>5. i = 0 \/ (i \in 1..Len(header) /\ header[i].mid = b)  BY IndexFinds DEF Types
<1>6. i # 0 /\ header[i].registered  BY <1>2, <1>4 DEF Uses
<1>. HIDE DEF i
<1>. QED  BY <1>5, <1>6 DEF ToSet, Types
-----------------------------------------------------------------------------
(* The list stays in the order of the bases.                               *)

LEMMA StepInOrder == AtMostTwoBases /\ Types /\ InOrder(subscriptions) /\ [Next]_vars => InOrder(subscriptions')
<1>. SUFFICES ASSUME AtMostTwoBases, Types, InOrder(subscriptions), [Next]_vars PROVE InOrder(subscriptions')
  OBVIOUS
<1>1. CASE sub_add
  <2>. DEFINE p == Place(BaseOf[request.mid])
  <2>1. p \in 1..Len(subscriptions) + 1  BY PlaceInList DEF Types
  <2>2. NewSubscription \in Subscription /\ request \in Request  BY <1>1, SubAdds
  <2>3. NewSubscription.base = BaseOf[request.mid] /\ BaseOf[request.mid] \in Bases
    BY <2>2, Bounds DEF NewSubscription, Request
  <2>4. /\ \A j \in 1..Len(subscriptions) : j < p => subscriptions[j].base <= NewSubscription.base
        /\ \A j \in 1..Len(subscriptions) : j >= p => NewSubscription.base <= subscriptions[j].base
    BY <2>3, PlaceInOrder DEF Types
  <2>5. subscriptions' = subscriptions \/ subscriptions' = InsertAt(subscriptions, p, NewSubscription)
    BY <1>1, SubAdds
  <2>. HIDE DEF p
  <2>6. InOrder(InsertAt(subscriptions, p, NewSubscription))
    BY <2>1, <2>2, <2>4, InsertedInOrder DEF Types
  <2>. QED  BY <2>5, <2>6
<1>2. CASE sub_remove
  <2>1. \/ subscriptions' = subscriptions
        \/ \E i \in 1..Len(subscriptions) : subscriptions' = RemoveAt(subscriptions, i)
    BY <1>2, SubRemoves
  <2>. QED  BY <2>1, RemovedInOrder DEF Types
<1>3. ASSUME NEW r \in Requests, subs_enable_forwarding(r) \/ subs_disable_forwarding(r)
      PROVE subscriptions' = subscriptions
  BY <1>3 DEF subs_enable_forwarding, subs_disable_forwarding
<1>4. CASE LocateEntry \/ RegisterCallback \/ UnregisterCallback
  BY <1>4 DEF LocateEntry, RegisterCallback, UnregisterCallback
<1>5. ASSUME NEW mid \in Bases, LocalMetricAdd(mid) PROVE subscriptions' = subscriptions
  BY <1>5 DEF LocalMetricAdd
<1>6. CASE ReadSubscription \/ subs_forward \/ EndOfList \/ LocalMetricAdded
  BY <1>6 DEF ReadSubscription, subs_forward, EndOfList, LocalMetricAdded
<1>7. CASE repos_terminate \/ \E m \in Metrics : Reload(m)  BY <1>7 DEF repos_terminate, Reload
<1>8. CASE UNCHANGED vars  BY <1>8 DEF vars
<1>. QED  BY <1>1, <1>2, <1>3, <1>4, <1>5, <1>6, <1>7, <1>8 DEF Next

-----------------------------------------------------------------------------
(* What the walk owes stays ahead of it.                                   *)

LEMMA OwedBegins ==
  ASSUME OwnBases, Types, WalkOwes, NEW mid \in Bases, LocalMetricAdd(mid)
  PROVE  WalkOwes'
<1>1. subscriptions' = subscriptions  BY WalkBegins
<1>2. CASE UNCHANGED <<walk, owed>>
  BY <1>1, <1>2 DEF WalkOwes, Ahead, NextRead, NobodyIsMissed
<1>3. CASE /\ walk'.at = "read" /\ walk'.value = mid /\ walk'.pos = 1
           /\ owed' = {s.mid : s \in {s \in ToSet(subscriptions) : Matches(s, mid)}}
  <2>1. ASSUME NEW m \in owed'
        PROVE  \E i \in 1..Len(subscriptions') :
                 i >= 1 /\ subscriptions'[i].mid = m /\ subscriptions'[i].base = mid
    <3>1. PICK i \in 1..Len(subscriptions) : subscriptions[i].mid = m /\ Matches(subscriptions[i], mid)
      BY <1>3 DEF ToSet
    <3>2. /\ subscriptions[i].mid \in Metrics /\ subscriptions[i].base = BaseOf[subscriptions[i].mid]
      BY BaseOfEntry DEF Types
    <3>3. subscriptions[i].base = mid  BY <3>1, <3>2 DEF Matches, OwnBases
    <3>. QED  BY <1>1, <3>1, <3>3
  <2>. QED  BY <1>3, <2>1 DEF WalkOwes, Ahead, NextRead, NobodyIsMissed
<1>. QED  BY <1>2, <1>3, WalkBegins

LEMMA OwedGoesOn ==
  ASSUME InOrder(subscriptions), Types, WalkOwes,
         ReadSubscription \/ subs_forward \/ EndOfList \/ LocalMetricAdded
  PROVE  WalkOwes'
<1>1. subscriptions' = subscriptions /\ walk' \in Walk /\ walk.pos \in Int /\ walk'.pos \in Int
  BY WalkGoesOn DEF Types, Walk
<1>2. CASE /\ walk.at = "read" /\ walk.pos \in 1..Len(subscriptions)
           /\ EndsAt(subscriptions[walk.pos])
           /\ owed' = owed /\ walk'.at = "ended"
  <2>1. owed = {}
    <3>1. SUFFICES ASSUME NEW m \in owed PROVE FALSE  OBVIOUS
    <3>2. PICK i \in 1..Len(subscriptions) : i >= walk.pos /\ subscriptions[i].base = walk.value
      BY <1>2 DEF WalkOwes, Ahead, NextRead
    <3>3. subscriptions[walk.pos].base <= subscriptions[i].base
      <4>1. i = walk.pos \/ walk.pos < i  BY <3>2, <1>2
      <4>2. subscriptions[i].base \in Nat  BY BaseOfEntry DEF Types
      <4>. QED  BY <4>1, <4>2, <1>2 DEF InOrder
    <3>4. subscriptions[walk.pos].base > walk.value  BY <1>2 DEF EndsAt
    <3>5. subscriptions[walk.pos].base \in Nat /\ walk.value \in Nat  BY <1>2, BaseOfEntry DEF Types, Walk
    <3>. QED  BY <3>2, <3>3, <3>4, <3>5
  <2>. QED  BY <1>2, <2>1 DEF WalkOwes, NobodyIsMissed
<1>3. CASE /\ walk.at = "read" /\ walk.pos \in 1..Len(subscriptions) /\ walk'.value = walk.value
           /\ owed' = owed \ {subscriptions[walk.pos].mid}
           /\ \/ walk'.at = "forward" /\ walk'.pos = walk.pos
              \/ walk'.at = "read" /\ walk'.pos = walk.pos + 1
  <2>1. NextRead' = walk.pos + 1  BY <1>3 DEF NextRead
  <2>2. ASSUME NEW m \in owed'
        PROVE  \E i \in 1..Len(subscriptions) :
                 i >= walk.pos + 1 /\ subscriptions[i].mid = m /\ subscriptions[i].base = walk.value
    <3>1. PICK i \in 1..Len(subscriptions) :
            i >= walk.pos /\ subscriptions[i].mid = m /\ subscriptions[i].base = walk.value
      BY <1>3 DEF WalkOwes, Ahead, NextRead
    <3>2. i # walk.pos  BY <1>3, <3>1
    <3>3. i >= walk.pos + 1  BY <3>1, <3>2, <1>1
    <3>. QED  BY <3>1, <3>3
  <2>. QED  BY <1>1, <1>3, <2>1, <2>2 DEF WalkOwes, NobodyIsMissed, Ahead
<1>4. CASE /\ walk.at = "forward" /\ walk'.at = "read"
           /\ walk'.pos = walk.pos + 1 /\ walk'.value = walk.value /\ owed' = owed
  BY <1>1, <1>4 DEF WalkOwes, Ahead, NextRead, NobodyIsMissed
<1>5. CASE walk.at = "read" /\ walk.pos > Len(subscriptions) /\ walk'.at = "ended" /\ owed' = owed
  <2>1. owed = {}
    <3>1. SUFFICES ASSUME NEW m \in owed PROVE FALSE  OBVIOUS
    <3>2. PICK i \in 1..Len(subscriptions) : i >= walk.pos
      BY <1>5 DEF WalkOwes, Ahead, NextRead
    <3>3. Len(subscriptions) \in Nat  BY DEF Types
    <3>. QED  BY <1>1, <1>5, <3>2, <3>3
  <2>. QED  BY <1>5, <2>1 DEF WalkOwes, NobodyIsMissed
<1>6. CASE walk'.at = "idle" /\ owed' = {}  BY <1>6 DEF WalkOwes, NobodyIsMissed
<1>. QED  BY <1>2, <1>3, <1>4, <1>5, <1>6, WalkGoesOn

LEMMA OwedAdds == ASSUME Types, WalkOwes, sub_add PROVE WalkOwes'
<1>1. owed' = owed  BY SubAdds
<1>2. CASE UNCHANGED <<subscriptions, walk>>
  BY <1>1, <1>2 DEF WalkOwes, Ahead, NextRead, NobodyIsMissed
<1>3. CASE ~UNCHANGED <<subscriptions, walk>>
  <2>. DEFINE p == Place(BaseOf[request.mid])
              n == IF p <= walk.pos THEN walk.pos + 1 ELSE walk.pos
  <2>1. /\ subscriptions' = InsertAt(subscriptions, p, NewSubscription)
        /\ walk' = [walk EXCEPT !.pos = n]
        /\ NewSubscription \in Subscription
    BY <1>3, SubAdds
  <2>2. p \in 1..Len(subscriptions) + 1 /\ walk \in Walk /\ walk.pos \in Int /\ Len(subscriptions) \in Nat
    BY PlaceInList DEF Types, Walk
  <2>. HIDE DEF p
  <2>3. n \in Int  BY <2>2
  <2>4. n = IF p <= walk.pos THEN walk.pos + 1 ELSE walk.pos  OBVIOUS
  <2>. HIDE DEF n
  <2>5. walk'.at = walk.at /\ walk'.value = walk.value /\ walk'.pos = n  BY <2>1, <2>2, <2>3, WalkMoved
  <2>6. /\ Len(subscriptions') = Len(subscriptions) + 1
        /\ \A j \in 1..Len(subscriptions) + 1 :
             subscriptions'[j] = IF j < p THEN subscriptions[j]
                                 ELSE IF j = p THEN NewSubscription ELSE subscriptions[j - 1]
    <3>. DEFINE new == InsertAt(subscriptions, p, NewSubscription)
    <3>1. subscriptions \in Seq(Subscription) /\ p \in 1..Len(subscriptions) + 1
      BY <2>2 DEF Types
    <3>2. /\ Len(new) = Len(subscriptions) + 1
          /\ \A j \in 1..Len(subscriptions) + 1 :
               new[j] = IF j < p THEN subscriptions[j]
                        ELSE IF j = p THEN NewSubscription ELSE subscriptions[j - 1]
      BY <2>1, <3>1, InsertAtElements, SMTT(60)
    <3>3. subscriptions' = new  BY <2>1
    <3>. HIDE DEF new
    <3>. QED  BY <3>2, <3>3
  <2>7. ASSUME walk.at \in {"read", "forward"}, NEW m \in owed
        PROVE  \E i \in 1..Len(subscriptions') :
                 i >= NextRead' /\ subscriptions'[i].mid = m /\ subscriptions'[i].base = walk.value
    <3>1. PICK i \in 1..Len(subscriptions) :
            i >= NextRead /\ subscriptions[i].mid = m /\ subscriptions[i].base = walk.value
      BY <2>7 DEF WalkOwes, Ahead
    <3>. DEFINE k == IF i < p THEN i ELSE i + 1
    <3>2. k \in 1..Len(subscriptions) + 1 /\ subscriptions'[k] = subscriptions[i]
      BY <2>2, <2>6
    <3>3. k >= NextRead'  BY <3>1, <2>2, <2>4, <2>5 DEF NextRead
    <3>. HIDE DEF k
    <3>. QED  BY <3>1, <3>2, <3>3, <2>6
  <2>. QED  BY <1>1, <2>5, <2>7 DEF WalkOwes, Ahead, NobodyIsMissed
<1>. QED  BY <1>2, <1>3

LEMMA OwedRemoves == ASSUME Types, WalkOwes, sub_remove PROVE WalkOwes'
<1>1. CASE UNCHANGED <<subscriptions, walk, owed>>
  BY <1>1 DEF WalkOwes, Ahead, NextRead, NobodyIsMissed
<1>2. ASSUME NEW p \in 1..Len(subscriptions), subscriptions[p].mid = request.mid,
             subscriptions' = RemoveAt(subscriptions, p),
             \/ walk.at = "read" /\ walk.pos = p /\ owed' = {} /\ (walk' = walk \/ walk' = Resting)
             \/ /\ ~(walk.at = "read" /\ walk.pos = p)
                /\ walk' = [walk EXCEPT !.pos = IF p <= walk.pos THEN walk.pos - 1 ELSE walk.pos]
                /\ owed' = owed \ {request.mid}
      PROVE  WalkOwes'
  <2>1. CASE owed' = {}  BY <2>1 DEF WalkOwes, Ahead, NobodyIsMissed
  <2>2. CASE owed' # {}
    <3>. DEFINE n == IF p <= walk.pos THEN walk.pos - 1 ELSE walk.pos
    <3>1. /\ ~(walk.at = "read" /\ walk.pos = p)
          /\ walk' = [walk EXCEPT !.pos = n] /\ owed' = owed \ {request.mid}
      BY <1>2, <2>2
    <3>2. walk \in Walk /\ walk.pos \in Int /\ Len(subscriptions) \in Nat  BY DEF Types, Walk
    <3>3. n \in Int  BY <3>2
    <3>4. n = IF p <= walk.pos THEN walk.pos - 1 ELSE walk.pos  OBVIOUS
    <3>. HIDE DEF n
    <3>5. walk'.at = walk.at /\ walk'.value = walk.value /\ walk'.pos = n  BY <3>1, <3>2, <3>3, WalkMoved
    <3>6. /\ Len(subscriptions') = Len(subscriptions) - 1
          /\ \A j \in 1..Len(subscriptions) - 1 :
               subscriptions'[j] = IF j < p THEN subscriptions[j] ELSE subscriptions[j + 1]
      BY <1>2, RemoveAtElements DEF Types
    <3>7. ASSUME walk.at \in {"read", "forward"}, NEW m \in owed'
          PROVE  \E i \in 1..Len(subscriptions') :
                   i >= NextRead' /\ subscriptions'[i].mid = m /\ subscriptions'[i].base = walk.value
      <4>1. PICK i \in 1..Len(subscriptions) :
              i >= NextRead /\ subscriptions[i].mid = m /\ subscriptions[i].base = walk.value
        BY <3>1, <3>7 DEF WalkOwes, Ahead
      <4>. DEFINE k == IF i < p THEN i ELSE i - 1
      <4>2. i # p  BY <4>1, <3>1, <1>2
      <4>3. k \in 1..Len(subscriptions) - 1 /\ subscriptions'[k] = subscriptions[i]
        BY <4>2, <3>2, <3>6
      <4>4. k >= NextRead'
        <5>1. NextRead = (IF walk.at = "forward" THEN walk.pos + 1 ELSE walk.pos)
              /\ NextRead' = (IF walk.at = "forward" THEN n + 1 ELSE n)
          BY <3>5 DEF NextRead
        <5>. QED  BY <5>1, <4>1, <4>2, <3>1, <3>2, <3>4, <3>7
      <4>. HIDE DEF k
      <4>. QED  BY <4>1, <4>3, <4>4, <3>6
    <3>. QED  BY <3>1, <3>5, <3>7 DEF WalkOwes, Ahead, NobodyIsMissed
  <2>. QED  BY <2>1, <2>2
<1>. QED  BY <1>1, <1>2, SubRemoves

LEMMA StepOwes ==
  OwnBases /\ Types /\ InOrder(subscriptions) /\ WalkOwes /\ [Next]_vars => WalkOwes'
<1>. SUFFICES ASSUME OwnBases, Types, InOrder(subscriptions), WalkOwes, [Next]_vars PROVE WalkOwes'
  OBVIOUS
<1>0. ASSUME UNCHANGED <<subscriptions, walk, owed>> PROVE WalkOwes'
  BY <1>0 DEF WalkOwes, Ahead, NextRead, NobodyIsMissed
<1>1. ASSUME NEW r \in Requests, subs_enable_forwarding(r) \/ subs_disable_forwarding(r) PROVE WalkOwes'
  BY <1>0, <1>1 DEF subs_enable_forwarding, subs_disable_forwarding, walkvars
<1>2. CASE sub_add \/ sub_remove  BY <1>2, OwedAdds, OwedRemoves
<1>3. CASE LocateEntry \/ RegisterCallback \/ UnregisterCallback
  BY <1>0, <1>3 DEF LocateEntry, RegisterCallback, UnregisterCallback, walkvars
<1>4. ASSUME NEW mid \in Bases, LocalMetricAdd(mid) PROVE WalkOwes'  BY <1>4, OwedBegins
<1>5. CASE ReadSubscription \/ subs_forward \/ EndOfList \/ LocalMetricAdded  BY <1>5, OwedGoesOn
<1>6. CASE repos_terminate \/ \E m \in Metrics : Reload(m)  BY <1>0, <1>6, Reloads
<1>7. CASE UNCHANGED vars  BY <1>0, <1>7 DEF vars, walkvars
<1>. QED  BY <1>1, <1>2, <1>3, <1>4, <1>5, <1>6, <1>7 DEF Next
-----------------------------------------------------------------------------
(* The two tables name the same metrics.                                   *)

(* In a list that is in order the search gets to every element.            *)
LEMMA SearchFinds ==
  ASSUME subscriptions \in Seq(Subscription), InOrder(subscriptions), NEW i \in 1..Len(subscriptions)
  PROVE  SubscribedAt(i, subscriptions[i].mid)
<1>1. subscriptions[i].base = BaseOf[subscriptions[i].mid]  BY BaseOfEntry
<1>2. ASSUME NEW j \in 1..i - 1 PROVE ~Follows(j, subscriptions[i].base)
  <2>1. j + 1 \in 1..Len(subscriptions) /\ (j + 1 = i \/ j + 1 < i)  OBVIOUS
  <2>2. subscriptions[j + 1].base <= subscriptions[i].base
    <3>1. subscriptions[i].base \in Nat  BY BaseOfEntry
    <3>. QED  BY <2>1, <3>1 DEF InOrder
  <2>3. subscriptions[j + 1].base \in Nat /\ subscriptions[i].base \in Nat  BY <2>1, BaseOfEntry
  <2>. QED  BY <2>2, <2>3 DEF Follows
<1>. QED  BY <1>1, <1>2 DEF SubscribedAt, Reaches

LEMMA ForwardingIsTyped ==
  ASSUME Types, NEW i \in 1..Len(fwl)
  PROVE  fwl[i].mid \in Metrics /\ fwl[i].corrid \in Nat /\ fwl[i].orig \in Correlators /\ fwl[i].listener \in Listeners
<1>1. fwl[i] \in Forwarding  BY DEF Types
<1>. QED  BY <1>1 DEF Forwarding

LEMMA TablesEnable ==
  ASSUME OneRequestEach, Types, Tables, NEW r \in Requests, subs_enable_forwarding(r)
  PROVE  Tables'
<1>. SUFFICES ASSUME reloads' = 0
              PROVE  /\ loaded' = Metrics /\ ForwardingsInOrder' /\ EachMetricOnce'
                     /\ SubscriptionsForwarded' /\ ForwardingsSubscribed' /\ RequestForwarded'
  BY DEF Tables
<1>1. /\ pc = "idle" /\ pc' = "subscribe" /\ reloads = 0 /\ subscriptions' = subscriptions /\ loaded' = loaded
  BY DEF subs_enable_forwarding, Goto
<1>2. /\ loaded = Metrics /\ ForwardingsInOrder /\ EachMetricOnce
      /\ SubscriptionsForwarded /\ ForwardingsSubscribed
  BY <1>1 DEF Tables
<1>3. r \in [mid : Metrics, corrid : Correlators, listener : Listeners]  BY DEF Requests
<1>4. CASE \E i \in 1..Len(fwl) : Forwards(i, r)
  <2>1. fwl' = fwl /\ fwCorrelatorId' = fwCorrelatorId /\ request' = r
    BY <1>4 DEF subs_enable_forwarding
  <2>2. RequestForwarded'  BY <1>1, <1>4, <2>1 DEF RequestForwarded, Forwards
  <2>3. ForwardingsInOrder' /\ EachMetricOnce'
    BY <1>1, <1>2, <2>1 DEF ForwardingsInOrder, EachMetricOnce
  <2>4. SubscriptionsForwarded' /\ ForwardingsSubscribed'
    BY <1>1, <1>2, <2>1 DEF SubscriptionsForwarded, ForwardingsSubscribed
  <2>. QED  BY <1>1, <1>2, <2>2, <2>3, <2>4
<1>5. CASE ~\E i \in 1..Len(fwl) : Forwards(i, r)
  <2>. DEFINE f == [mid |-> r.mid, corrid |-> fwCorrelatorId, orig |-> r.corrid, listener |-> r.listener]
              n == Len(fwl)
  <2>1. /\ fwl' = Append(fwl, f) /\ fwCorrelatorId' = fwCorrelatorId + 1
        /\ request' = [r EXCEPT !.corrid = fwCorrelatorId]
    BY <1>5 DEF subs_enable_forwarding, NewForwarding
  <2>2. request'.mid = r.mid /\ request'.corrid = fwCorrelatorId  BY <1>3, <2>1
  <2>3. f.mid = r.mid /\ f.corrid = fwCorrelatorId /\ f \in Forwarding /\ fwl \in Seq(Forwarding)
    BY <1>3 DEF Types, Forwarding
  <2>. HIDE DEF f
  <2>4. /\ n \in Nat /\ Len(fwl') = n + 1 /\ fwl'[n + 1] = f
        /\ \A i \in 1..n : fwl'[i] = fwl[i]
    BY <2>1, <2>3, AppendProperties
  <2>5. \A i \in 1..n : fwl[i].mid # r.mid
    <3>1. ASSUME NEW i \in 1..n, fwl[i].mid = r.mid PROVE FALSE
      <4>1. fwl[i].orig = r.corrid /\ fwl[i].listener = r.listener
        BY <1>3, ForwardingIsTyped DEF OneRequestEach
      <4>. QED  BY <1>5, <3>1, <4>1 DEF Forwards
    <3>. QED  BY <3>1
  <2>6. \A i \in 1..n : fwl[i].corrid < fwCorrelatorId /\ fwl[i].corrid \in Nat
    BY <1>2, ForwardingIsTyped DEF ForwardingsInOrder
  <2>7. \A i, j \in 1..n : i < j => fwl[i].corrid < fwl[j].corrid  BY <1>2 DEF ForwardingsInOrder
  <2>8. \A i, j \in 1..n : fwl[i].mid = fwl[j].mid => i = j  BY <1>2 DEF EachMetricOnce
  <2>9. fwCorrelatorId \in Nat  BY DEF Types
  <2>10. \A i \in 1..n : \E j \in 1..Len(subscriptions) : subscriptions[j].mid = fwl[i].mid
    BY <1>1, <1>2 DEF ForwardingsSubscribed
  <2>11. \A j \in 1..Len(subscriptions) : \E i \in 1..n : Leads(fwl[i], subscriptions[j])
    BY <1>1, <1>2 DEF SubscriptionsForwarded
  <2>. HIDE DEF n
  <2>12. ForwardingsInOrder'
    <3>1. ASSUME NEW i \in 1..n + 1, NEW j \in 1..n + 1, i < j PROVE fwl'[i].corrid < fwl'[j].corrid
      <4>1. i \in 1..n  BY <3>1, <2>4
      <4>2. CASE j \in 1..n  BY <4>1, <4>2, <3>1, <2>4, <2>7
      <4>3. CASE j = n + 1   BY <4>1, <4>3, <2>3, <2>4, <2>6
      <4>. QED  BY <4>2, <4>3, <2>4
    <3>2. ASSUME NEW i \in 1..n + 1 PROVE fwl'[i].corrid < fwCorrelatorId'
      <4>1. CASE i \in 1..n  BY <4>1, <2>1, <2>4, <2>6, <2>9
      <4>2. CASE i = n + 1   BY <4>2, <2>1, <2>3, <2>4, <2>9
      <4>. QED  BY <4>1, <4>2, <2>4
    <3>. QED  BY <3>1, <3>2, <2>4 DEF ForwardingsInOrder
  <2>13. EachMetricOnce'
    <3>1. ASSUME NEW i \in 1..n + 1, NEW j \in 1..n + 1, fwl'[i].mid = fwl'[j].mid PROVE i = j
      <4>1. CASE i \in 1..n /\ j \in 1..n  BY <4>1, <3>1, <2>4, <2>8
      <4>2. CASE i = n + 1 /\ j \in 1..n  BY <4>2, <3>1, <2>3, <2>4, <2>5
      <4>3. CASE j = n + 1 /\ i \in 1..n  BY <4>3, <3>1, <2>3, <2>4, <2>5
      <4>4. CASE i = n + 1 /\ j = n + 1  BY <4>4
      <4>. QED  BY <4>1, <4>2, <4>3, <4>4, <2>4
    <3>. QED  BY <3>1, <2>4, <1>1, <1>2 DEF EachMetricOnce
  <2>14. SubscriptionsForwarded'
    <3>1. \A i \in 1..n : i \in 1..n + 1  BY <2>4
    <3>. QED  BY <3>1, <2>4, <2>11, <1>1 DEF SubscriptionsForwarded
  <2>15. ForwardingsSubscribed'
    <3>1. ASSUME NEW i \in 1..n + 1
          PROVE  \/ \E j \in 1..Len(subscriptions) : subscriptions[j].mid = fwl'[i].mid
                 \/ Leads(fwl'[i], request')
      <4>1. CASE i \in 1..n  BY <4>1, <2>4, <2>10
      <4>2. CASE i = n + 1   BY <4>2, <2>2, <2>3, <2>4 DEF Leads
      <4>. QED  BY <4>1, <4>2, <2>4
    <3>. QED  BY <3>1, <2>4, <1>1 DEF ForwardingsSubscribed
  <2>16. RequestForwarded'
    <3>1. n + 1 \in 1..n + 1 /\ fwl'[n + 1].mid = request'.mid  BY <2>2, <2>3, <2>4
    <3>. QED  BY <3>1, <2>4, <1>1 DEF RequestForwarded
  <2>. QED  BY <1>1, <1>2, <2>12, <2>13, <2>14, <2>15, <2>16
<1>. QED  BY <1>4, <1>5

LEMMA TablesDisable ==
  ASSUME Types, Tables, NEW r \in Requests, subs_disable_forwarding(r)
  PROVE  Tables'
<1>. SUFFICES ASSUME reloads' = 0
              PROVE  /\ loaded' = Metrics /\ ForwardingsInOrder' /\ EachMetricOnce'
                     /\ SubscriptionsForwarded' /\ ForwardingsSubscribed' /\ RequestForwarded'
  BY DEF Tables
<1>1. /\ pc = "idle" /\ pc' = "unsubscribe" /\ reloads = 0 /\ subscriptions' = subscriptions /\ loaded' = loaded
      /\ fwCorrelatorId' = fwCorrelatorId /\ request' = r
  BY DEF subs_disable_forwarding, Goto
<1>2. /\ loaded = Metrics /\ ForwardingsInOrder /\ EachMetricOnce
      /\ SubscriptionsForwarded /\ ForwardingsSubscribed
  BY <1>1 DEF Tables
<1>3. PICK p \in 1..Len(fwl) : Forwards(p, r) /\ fwl' = RemoveAt(fwl, p)  BY DEF subs_disable_forwarding
<1>. DEFINE n == Len(fwl)
<1>4. /\ n \in Nat /\ Len(fwl') = n - 1
      /\ \A j \in 1..n - 1 : fwl'[j] = IF j < p THEN fwl[j] ELSE fwl[j + 1]
  <2>1. fwl \in Seq(Forwarding) /\ fwl' = RemoveAt(fwl, p)  BY <1>3 DEF Types
  <2>. QED  BY <2>1, RemoveAtElements
<1>5. fwl[p].mid = r.mid  BY <1>3 DEF Forwards
<1>6. \A i, j \in 1..n : (i < j => fwl[i].corrid < fwl[j].corrid) /\ (fwl[i].mid = fwl[j].mid => i = j)
  BY <1>2 DEF ForwardingsInOrder, EachMetricOnce
<1>7. \A i \in 1..n : /\ fwl[i].corrid < fwCorrelatorId
                      /\ \E j \in 1..Len(subscriptions) : subscriptions[j].mid = fwl[i].mid
  BY <1>1, <1>2 DEF ForwardingsInOrder, ForwardingsSubscribed
<1>8. \A j \in 1..Len(subscriptions) : \E i \in 1..n : Leads(fwl[i], subscriptions[j])
  BY <1>1, <1>2 DEF SubscriptionsForwarded
<1>9. p \in 1..n  OBVIOUS
<1>. HIDE DEF n
<1>. DEFINE Was(j) == IF j < p THEN j ELSE j + 1
<1>10. \A j \in 1..n - 1 : Was(j) \in 1..n /\ Was(j) # p /\ fwl'[j] = fwl[Was(j)]  BY <1>4, <1>9
<1>11. \A i, j \in 1..n - 1 : (i < j => Was(i) < Was(j)) /\ (Was(i) = Was(j) => i = j)  BY <1>4, <1>9
<1>12. \A i \in 1..n : i # p => \E j \in 1..n - 1 : Was(j) = i
  <2>1. ASSUME NEW i \in 1..n, i # p PROVE \E j \in 1..n - 1 : Was(j) = i
    <3>1. CASE i < p
      <4>1. i \in 1..n - 1 /\ Was(i) = i  BY <3>1, <1>4, <1>9
      <4>. QED  BY <4>1
    <3>2. CASE i > p
      <4>1. i - 1 \in 1..n - 1 /\ Was(i - 1) = i  BY <3>2, <1>4, <1>9
      <4>. QED  BY <4>1
    <3>. QED  BY <3>1, <3>2, <2>1, <1>9
  <2>. QED  BY <2>1
<1>. HIDE DEF Was
<1>13. ForwardingsInOrder' /\ EachMetricOnce'
  <2>1. \A i, j \in 1..n - 1 : i < j => fwl'[i].corrid < fwl'[j].corrid  BY <1>6, <1>10, <1>11
  <2>2. \A i, j \in 1..n - 1 : fwl'[i].mid = fwl'[j].mid => i = j  BY <1>6, <1>10, <1>11
  <2>3. \A i \in 1..n - 1 : fwl'[i].corrid < fwCorrelatorId  BY <1>7, <1>10
  <2>4. ForwardingsInOrder'  BY <2>1, <2>3, <1>1, <1>4 DEF ForwardingsInOrder
  <2>5. EachMetricOnce'  BY <2>2, <1>1, <1>2, <1>4 DEF EachMetricOnce
  <2>. QED  BY <2>4, <2>5
<1>14. ForwardingsSubscribed'  BY <1>1, <1>4, <1>7, <1>10 DEF ForwardingsSubscribed
<1>15. RequestForwarded'
  <2>1. \A j \in 1..n - 1 : fwl'[j].mid # r.mid  BY <1>5, <1>6, <1>9, <1>10
  <2>. QED  BY <2>1, <1>1, <1>4 DEF RequestForwarded
<1>16. SubscriptionsForwarded'
  <2>1. ASSUME NEW j \in 1..Len(subscriptions)
        PROVE  (\E i \in 1..n - 1 : Leads(fwl'[i], subscriptions[j])) \/ subscriptions[j].mid = r.mid
    <3>1. PICK i \in 1..n : Leads(fwl[i], subscriptions[j])  BY <1>8
    <3>2. CASE i = p  BY <3>1, <3>2, <1>5 DEF Leads
    <3>3. CASE i # p
      <4>1. PICK k \in 1..n - 1 : Was(k) = i  BY <3>3, <1>12
      <4>. QED  BY <3>1, <4>1, <1>10
    <3>. QED  BY <3>2, <3>3
  <2>. QED  BY <2>1, <1>1, <1>4 DEF SubscriptionsForwarded
<1>. QED  BY <1>1, <1>2, <1>13, <1>14, <1>15, <1>16

LEMMA TablesAdd == ASSUME Types, InOrder(subscriptions), Tables, sub_add PROVE Tables'
<1>. SUFFICES ASSUME reloads' = 0
              PROVE  /\ loaded' = Metrics /\ ForwardingsInOrder' /\ EachMetricOnce'
                     /\ SubscriptionsForwarded' /\ ForwardingsSubscribed' /\ RequestForwarded'
  BY DEF Tables
<1>1. /\ pc = "subscribe" /\ UNCHANGED <<fwl, fwCorrelatorId, loaded, reloads>> /\ reloads = 0
      /\ request.mid \in Metrics
  BY SubAdds DEF Request
<1>2. /\ loaded = Metrics /\ ForwardingsInOrder /\ EachMetricOnce
      /\ SubscriptionsForwarded /\ ForwardingsSubscribed /\ RequestForwarded
  BY <1>1 DEF Tables
<1>3. pc' = "register" /\ request' = request  BY <1>1, <1>2, SubAdds
<1>4. ForwardingsInOrder' /\ RequestForwarded'
  BY <1>1, <1>2, <1>3 DEF ForwardingsInOrder, RequestForwarded
<1>5. CASE /\ \E i \in 1..Len(subscriptions) : SubscribedAt(i, request.mid)
           /\ subscriptions' = subscriptions
  <2>1. EachMetricOnce' /\ SubscriptionsForwarded'
    BY <1>1, <1>2, <1>3, <1>5 DEF EachMetricOnce, SubscriptionsForwarded
  <2>2. \E i \in 1..Len(subscriptions) : subscriptions[i].mid = request.mid  BY <1>5 DEF SubscribedAt
  <2>3. ForwardingsSubscribed'
    BY <1>1, <1>2, <1>3, <1>5, <2>2 DEF ForwardingsSubscribed, Leads
  <2>. QED  BY <1>1, <1>2, <1>4, <2>1, <2>3
<1>6. CASE /\ ~\E i \in 1..Len(subscriptions) : SubscribedAt(i, request.mid)
           /\ subscriptions' = InsertAt(subscriptions, Place(BaseOf[request.mid]), NewSubscription)
  <2>. DEFINE p == Place(BaseOf[request.mid])
              n == Len(subscriptions)
  <2>0. subscriptions \in Seq(Subscription)  BY DEF Types
  <2>1. p \in 1..n + 1  BY <2>0, PlaceInList
  <2>2. NewSubscription.mid = request.mid /\ NewSubscription.corrid = request.corrid /\ NewSubscription \in Subscription
    BY SubAdds DEF NewSubscription
  <2>3. \A i \in 1..n : subscriptions[i].mid # request.mid  BY <1>6, <2>0, SearchFinds
  <2>4. /\ n \in Nat /\ Len(subscriptions') = n + 1
        /\ \A j \in 1..n + 1 : subscriptions'[j] = IF j < p THEN subscriptions[j]
                                                   ELSE IF j = p THEN NewSubscription ELSE subscriptions[j - 1]
    <3>1. subscriptions' = InsertAt(subscriptions, p, NewSubscription)  BY <1>6
    <3>. HIDE DEF p
    <3>2. p \in 1..Len(subscriptions) + 1 /\ NewSubscription \in Subscription  BY <2>1, <2>2
    <3>. QED  BY <3>1, <3>2, <2>0, InsertAtElements, SMTT(60)
  <2>5. \A i, j \in 1..n : subscriptions[i].mid = subscriptions[j].mid => i = j  BY <1>2 DEF EachMetricOnce
  <2>6. \A j \in 1..n : \E i \in 1..Len(fwl) : Leads(fwl[i], subscriptions[j])
    BY <1>1, <1>2 DEF SubscriptionsForwarded
  <2>7. \A i \in 1..Len(fwl) : (\E j \in 1..n : subscriptions[j].mid = fwl[i].mid) \/ Leads(fwl[i], request)
    BY <1>1, <1>2 DEF ForwardingsSubscribed
  <2>8. \E i \in 1..Len(fwl) : fwl[i].mid = request.mid  BY <1>1, <1>2 DEF RequestForwarded
  <2>. HIDE DEF n, p
  <2>. DEFINE Was(j) == IF j < p THEN j ELSE j - 1
  <2>9. \A j \in 1..n + 1 : j # p => Was(j) \in 1..n /\ subscriptions'[j] = subscriptions[Was(j)]
    BY <2>1, <2>4
  <2>10. \A i, j \in 1..n + 1 : i # p /\ j # p /\ Was(i) = Was(j) => i = j  BY <2>1, <2>4
  <2>11. \A i \in 1..n : \E j \in 1..n + 1 : j # p /\ Was(j) = i
    <3>1. ASSUME NEW i \in 1..n PROVE \E j \in 1..n + 1 : j # p /\ Was(j) = i
      <4>1. CASE i < p
        <5>1. i \in 1..n + 1 /\ i # p /\ Was(i) = i  BY <4>1, <2>1, <2>4
        <5>. QED  BY <5>1
      <4>2. CASE i >= p
        <5>1. i + 1 \in 1..n + 1 /\ i + 1 # p /\ Was(i + 1) = i  BY <4>2, <2>1, <2>4
        <5>. QED  BY <5>1
      <4>. QED  BY <4>1, <4>2, <2>1
    <3>. QED  BY <3>1
  <2>12. subscriptions'[p] = NewSubscription  BY <2>1, <2>4
  <2>. HIDE DEF Was
  <2>13. EachMetricOnce'
    <3>1. ASSUME NEW i \in 1..n + 1, NEW j \in 1..n + 1, subscriptions'[i].mid = subscriptions'[j].mid
          PROVE  i = j
      <4>1. CASE i # p /\ j # p  BY <4>1, <3>1, <2>5, <2>9, <2>10
      <4>2. CASE i = p /\ j # p  BY <4>2, <3>1, <2>2, <2>3, <2>9, <2>12
      <4>3. CASE j = p /\ i # p  BY <4>3, <3>1, <2>2, <2>3, <2>9, <2>12
      <4>. QED  BY <4>1, <4>2, <4>3
    <3>. QED  BY <3>1, <2>4, <1>1, <1>2 DEF EachMetricOnce
  <2>14. SubscriptionsForwarded'
    <3>1. ASSUME NEW j \in 1..n + 1 PROVE \E i \in 1..Len(fwl) : Leads(fwl[i], subscriptions'[j])
      <4>1. CASE j # p  BY <4>1, <2>6, <2>9
      <4>2. CASE j = p
        <5>1. PICK i \in 1..Len(fwl) : fwl[i].mid = request.mid  BY <2>8
        <5>2. Leads(fwl[i], request)  BY <5>1, <2>3, <2>7
        <5>. QED  BY <4>2, <5>2, <2>2, <2>12 DEF Leads
      <4>. QED  BY <4>1, <4>2
    <3>. QED  BY <3>1, <2>4, <1>1 DEF SubscriptionsForwarded
  <2>15. ForwardingsSubscribed'
    <3>1. ASSUME NEW i \in 1..Len(fwl) PROVE \E j \in 1..n + 1 : subscriptions'[j].mid = fwl[i].mid
      <4>1. CASE \E j \in 1..n : subscriptions[j].mid = fwl[i].mid
        <5>1. PICK j \in 1..n : subscriptions[j].mid = fwl[i].mid  BY <4>1
        <5>2. PICK k \in 1..n + 1 : k # p /\ Was(k) = j  BY <2>11
        <5>. QED  BY <5>1, <5>2, <2>9
      <4>2. CASE Leads(fwl[i], request)  BY <4>2, <2>1, <2>2, <2>12 DEF Leads
      <4>. QED  BY <4>1, <4>2, <2>7
    <3>. QED  BY <3>1, <2>4, <1>1 DEF ForwardingsSubscribed
  <2>. QED  BY <1>1, <1>2, <1>4, <2>13, <2>14, <2>15
<1>. QED  BY <1>1, <1>2, <1>5, <1>6, SubAdds

LEMMA TablesRemove == ASSUME Types, InOrder(subscriptions), Tables, sub_remove PROVE Tables'
<1>. SUFFICES ASSUME reloads' = 0
              PROVE  /\ loaded' = Metrics /\ ForwardingsInOrder' /\ EachMetricOnce'
                     /\ SubscriptionsForwarded' /\ ForwardingsSubscribed' /\ RequestForwarded'
  BY DEF Tables
<1>1. /\ pc = "unsubscribe" /\ pc' \in {"idle", "unregister"} /\ request.mid \in Metrics
      /\ UNCHANGED <<fwl, fwCorrelatorId, loaded, reloads>> /\ reloads = 0
  BY SubRemoves DEF Request
<1>2. /\ loaded = Metrics /\ ForwardingsInOrder /\ EachMetricOnce
      /\ SubscriptionsForwarded /\ ForwardingsSubscribed /\ RequestForwarded
  BY <1>1 DEF Tables
<1>3. ForwardingsInOrder' /\ RequestForwarded'
  BY <1>1, <1>2 DEF ForwardingsInOrder, RequestForwarded
<1>4. CASE /\ ~\E i \in 1..Len(subscriptions) : SubscribedAt(i, request.mid)
           /\ subscriptions' = subscriptions
  <2>1. \A i \in 1..Len(subscriptions) : subscriptions[i].mid # request.mid
    BY <1>4, SearchFinds DEF Types
  <2>. QED  BY <1>1, <1>2, <1>3, <1>4, <2>1
            DEF EachMetricOnce, SubscriptionsForwarded, ForwardingsSubscribed
<1>5. ASSUME NEW p \in 1..Len(subscriptions), subscriptions[p].mid = request.mid,
             subscriptions' = RemoveAt(subscriptions, p)
      PROVE  EachMetricOnce' /\ SubscriptionsForwarded' /\ ForwardingsSubscribed'
  <2>. DEFINE n == Len(subscriptions)
              Was(j) == IF j < p THEN j ELSE j + 1
  <2>1. /\ n \in Nat /\ Len(subscriptions') = n - 1
        /\ \A j \in 1..n - 1 : subscriptions'[j] = IF j < p THEN subscriptions[j] ELSE subscriptions[j + 1]
    <3>1. subscriptions \in Seq(Subscription)  BY DEF Types
    <3>. DEFINE new == RemoveAt(subscriptions, p)
    <3>2. /\ Len(new) = Len(subscriptions) - 1
          /\ \A j \in 1..Len(subscriptions) - 1 :
               new[j] = IF j < p THEN subscriptions[j] ELSE subscriptions[j + 1]
      BY <3>1, <1>5, RemoveAtElements
    <3>3. subscriptions' = new  BY <1>5
    <3>. HIDE DEF new
    <3>. QED  BY <3>1, <3>2, <3>3
  <2>2. \A i, j \in 1..n : subscriptions[i].mid = subscriptions[j].mid => i = j  BY <1>2 DEF EachMetricOnce
  <2>3. \A j \in 1..n : \/ \E i \in 1..Len(fwl) : Leads(fwl[i], subscriptions[j])
                        \/ subscriptions[j].mid = request.mid
    BY <1>2 DEF SubscriptionsForwarded
  <2>4. \A i \in 1..Len(fwl) : /\ \E j \in 1..n : subscriptions[j].mid = fwl[i].mid
                               /\ fwl[i].mid # request.mid
    BY <1>1, <1>2 DEF ForwardingsSubscribed, RequestForwarded
  <2>5. p \in 1..n  OBVIOUS
  <2>. HIDE DEF n
  <2>6. \A j \in 1..n - 1 : Was(j) \in 1..n /\ Was(j) # p /\ subscriptions'[j] = subscriptions[Was(j)]
    BY <2>1, <2>5
  <2>7. \A i, j \in 1..n - 1 : Was(i) = Was(j) => i = j  BY <2>1, <2>5
  <2>8. \A i \in 1..n : i # p => \E j \in 1..n - 1 : Was(j) = i
    <3>1. ASSUME NEW i \in 1..n, i # p PROVE \E j \in 1..n - 1 : Was(j) = i
      <4>1. CASE i < p
        <5>1. i \in 1..n - 1 /\ Was(i) = i  BY <4>1, <2>1, <2>5
        <5>. QED  BY <5>1
      <4>2. CASE i > p
        <5>1. i - 1 \in 1..n - 1 /\ Was(i - 1) = i  BY <4>2, <2>1, <2>5
        <5>. QED  BY <5>1
      <4>. QED  BY <4>1, <4>2, <3>1, <2>5
    <3>. QED  BY <3>1
  <2>. HIDE DEF Was
  <2>9. EachMetricOnce'
    <3>1. \A i, j \in 1..n - 1 : subscriptions'[i].mid = subscriptions'[j].mid => i = j
      BY <2>2, <2>6, <2>7
    <3>. QED  BY <3>1, <2>1, <1>1, <1>2 DEF EachMetricOnce
  <2>10. SubscriptionsForwarded'
    <3>1. ASSUME NEW j \in 1..n - 1 PROVE \E i \in 1..Len(fwl) : Leads(fwl[i], subscriptions'[j])
      <4>1. subscriptions[Was(j)].mid # request.mid  BY <1>5, <2>2, <2>5, <2>6
      <4>. QED  BY <4>1, <2>3, <2>6
    <3>. QED  BY <3>1, <2>1, <1>1 DEF SubscriptionsForwarded
  <2>11. ForwardingsSubscribed'
    <3>1. ASSUME NEW i \in 1..Len(fwl) PROVE \E j \in 1..n - 1 : subscriptions'[j].mid = fwl[i].mid
      <4>1. PICK k \in 1..n : subscriptions[k].mid = fwl[i].mid  BY <2>4
      <4>2. k # p  BY <4>1, <2>4, <1>5
      <4>3. PICK j \in 1..n - 1 : Was(j) = k  BY <4>2, <2>8
      <4>. QED  BY <4>1, <4>3, <2>6
    <3>. QED  BY <3>1, <2>1, <1>1 DEF ForwardingsSubscribed
  <2>. QED  BY <2>9, <2>10, <2>11
<1>. QED  BY <1>1, <1>2, <1>3, <1>4, <1>5, SubRemoves

LEMMA StepTables ==
  OneRequestEach /\ Types /\ InOrder(subscriptions) /\ Tables /\ [Next]_vars => Tables'
<1>. SUFFICES ASSUME OneRequestEach, Types, InOrder(subscriptions), Tables, [Next]_vars PROVE Tables'
  OBVIOUS
<1>0. ASSUME UNCHANGED <<fwl, fwCorrelatorId, subscriptions, loaded, reloads>>,
             \/ UNCHANGED <<pc, request>>
             \/ pc \notin {"subscribe", "unsubscribe"} /\ pc' \notin {"subscribe", "unsubscribe"}
      PROVE  Tables'
  <2>1. (ForwardingsInOrder <=> ForwardingsInOrder') /\ (EachMetricOnce <=> EachMetricOnce')
    BY <1>0 DEF ForwardingsInOrder, EachMetricOnce
  <2>2. SubscriptionsForwarded => SubscriptionsForwarded'  BY <1>0 DEF SubscriptionsForwarded
  <2>3. ForwardingsSubscribed => ForwardingsSubscribed'  BY <1>0 DEF ForwardingsSubscribed
  <2>4. RequestForwarded => RequestForwarded'  BY <1>0 DEF RequestForwarded
  <2>. QED  BY <1>0, <2>1, <2>2, <2>3, <2>4 DEF Tables
<1>1. ASSUME NEW r \in Requests, subs_enable_forwarding(r) \/ subs_disable_forwarding(r) PROVE Tables'
  BY <1>1, TablesEnable, TablesDisable
<1>2. CASE sub_add \/ sub_remove  BY <1>2, TablesAdd, TablesRemove
<1>3. CASE LocateEntry
  BY <1>0, <1>3 DEF LocateEntry, Goto
<1>4. CASE RegisterCallback \/ UnregisterCallback
  <2>1. /\ UNCHANGED <<fwl, fwCorrelatorId, subscriptions, loaded, reloads>>
        /\ pc \notin {"subscribe", "unsubscribe"} /\ pc' \notin {"subscribe", "unsubscribe"}
    BY <1>4, Registers, Unregisters
  <2>. QED  BY <1>0, <2>1
<1>5. ASSUME NEW mid \in Bases, LocalMetricAdd(mid) PROVE Tables'  BY <1>0, <1>5, WalkBegins
<1>6. CASE ReadSubscription \/ subs_forward \/ EndOfList \/ LocalMetricAdded  BY <1>0, <1>6, WalkGoesOn
<1>7. CASE repos_terminate \/ \E m \in Metrics : Reload(m)  BY <1>7, Reloads DEF Tables
<1>8. CASE UNCHANGED vars  BY <1>0, <1>8 DEF vars, mainvars
<1>. QED  BY <1>1, <1>2, <1>3, <1>4, <1>5, <1>6, <1>7, <1>8 DEF Next

LEMMA TablesAreAgreed == Types /\ Tables => TablesAgree
<1>. SUFFICES ASSUME Types, Tables, pc = "idle", reloads = 0
              PROVE  /\ {s.mid : s \in ToSet(subscriptions)} = {f.mid : f \in ToSet(fwl)}
                     /\ \A s \in ToSet(subscriptions) :
                          \E i \in 1..Len(fwl) : ForwardedTo(i, s.corrid) /\ fwl[i].mid = s.mid
  BY DEF TablesAgree
<1>1. \A j \in 1..Len(subscriptions) : \E i \in 1..Len(fwl) : Leads(fwl[i], subscriptions[j])
  BY DEF Tables, SubscriptionsForwarded
<1>2. \A i \in 1..Len(fwl) : \E j \in 1..Len(subscriptions) : subscriptions[j].mid = fwl[i].mid
  BY DEF Tables, ForwardingsSubscribed
<1>3. /\ ToSet(subscriptions) = {subscriptions[j] : j \in 1..Len(subscriptions)}
      /\ ToSet(fwl) = {fwl[i] : i \in 1..Len(fwl)}
  BY DEF ToSet, Types
<1>4. {s.mid : s \in ToSet(subscriptions)} = {f.mid : f \in ToSet(fwl)}
  BY <1>1, <1>2, <1>3 DEF Leads
<1>5. ASSUME NEW j \in 1..Len(subscriptions)
      PROVE  \E i \in 1..Len(fwl) : ForwardedTo(i, subscriptions[j].corrid) /\ fwl[i].mid = subscriptions[j].mid
  <2>1. PICK i \in 1..Len(fwl) : Leads(fwl[i], subscriptions[j])  BY <1>1
  <2>2. ASSUME NEW k \in 1..i PROVE fwl[k].corrid <= fwl[i].corrid
    <3>1. k \in 1..Len(fwl) /\ (k = i \/ k < i)  OBVIOUS
    <3>2. fwl[k].corrid \in Nat /\ fwl[i].corrid \in Nat  BY <3>1, ForwardingIsTyped
    <3>. QED  BY <3>1, <3>2 DEF Tables, ForwardingsInOrder
  <2>. QED  BY <2>1, <2>2 DEF ForwardedTo, Leads
<1>. QED  BY <1>3, <1>4, <1>5
-----------------------------------------------------------------------------
(* The comparison of values.                                               *)

(* A power of two is the number of subsets, and doubles with each element. *)
LEMMA PowerCounts ==
  ASSUME NEW n \in Nat
  PROVE  /\ 2 ^ n = Cardinality(SUBSET (1..n)) /\ 2 ^ n \in Nat /\ 2 ^ n >= 1
         /\ IsFiniteSet(SUBSET (1..n))
<1>1. IsFiniteSet(1..n) /\ Cardinality(1..n) = n  BY FS_Interval
<1>2. /\ IsFiniteSet(SUBSET (1..n))
      /\ 2 ^ n = Cardinality(SUBSET (1..n)) /\ Cardinality(SUBSET (1..n)) \in Nat
  <2>. DEFINE S == 1..n
  <2>1. IsFiniteSet(S) /\ Cardinality(S) = n  BY <1>1
  <2>. HIDE DEF S
  <2>2. IsFiniteSet(SUBSET S) /\ Cardinality(SUBSET S) = 2 ^ Cardinality(S)  BY <2>1, FS_SUBSET, Zenon
  <2>3. Cardinality(SUBSET S) \in Nat  BY <2>2, FS_CardinalityType, Zenon
  <2>. QED  BY <2>1, <2>2, <2>3, Zenon DEF S
<1>3. {} \in SUBSET (1..n)  OBVIOUS
<1>4. Cardinality(SUBSET (1..n)) # 0  BY <1>2, <1>3, FS_EmptySet
<1>. QED  BY <1>2, <1>4

LEMMA PowerDoubles ==
  ASSUME NEW n \in Nat
  PROVE  2 ^ (n + 1) = 2 * 2 ^ n
<1>. DEFINE Old == SUBSET (1..n)
            New == {A \union {n + 1} : A \in Old}
            f   == [A \in Old |-> A \union {n + 1}]
<1>1. SUBSET (1..n + 1) = Old \union New
  <2>1. ASSUME NEW A \in SUBSET (1..n + 1) PROVE A \in Old \union New
    <3>1. CASE n + 1 \in A
      <4>1. A \ {n + 1} \in Old  OBVIOUS
      <4>2. A = (A \ {n + 1}) \union {n + 1}  BY <3>1
      <4>. QED  BY <4>1, <4>2
    <3>2. CASE n + 1 \notin A
      <4>1. A \in Old  BY <3>2
      <4>. QED  BY <4>1
    <3>. QED  BY <3>1, <3>2
  <2>2. ASSUME NEW A \in Old PROVE A \in SUBSET (1..n + 1) /\ A \union {n + 1} \in SUBSET (1..n + 1)
    OBVIOUS
  <2>3. Old \union New \subseteq SUBSET (1..n + 1)
    <3>1. ASSUME NEW B \in New PROVE B \in SUBSET (1..n + 1)
      <4>1. PICK A \in Old : B = A \union {n + 1}  OBVIOUS
      <4>2. A \union {n + 1} \in SUBSET (1..n + 1)  BY <2>2, Zenon
      <4>. QED  BY <4>1, <4>2, Zenon
    <3>2. ASSUME NEW B \in Old PROVE B \in SUBSET (1..n + 1)  BY <2>2, Zenon
    <3>. HIDE DEF Old, New
    <3>. QED  BY <3>1, <3>2
  <2>4. SUBSET (1..n + 1) \subseteq Old \union New  BY <2>1, Zenon
  <2>. QED  BY <2>3, <2>4, Zenon
<1>2. Old \cap New = {}
  <2>1. ASSUME NEW A \in Old PROVE n + 1 \notin A  OBVIOUS
  <2>2. ASSUME NEW A \in New PROVE n + 1 \in A  OBVIOUS
  <2>. QED  BY <2>1, <2>2
<1>3. f \in Bijection(Old, New)
  <2>1. ASSUME NEW A \in Old, NEW B \in Old, f[A] = f[B] PROVE A = B
    <3>1. A \union {n + 1} = B \union {n + 1}  BY <2>1
    <3>2. n + 1 \notin A /\ n + 1 \notin B  OBVIOUS
    <3>3. A = (A \union {n + 1}) \ {n + 1} /\ B = (B \union {n + 1}) \ {n + 1}
      <4>. DEFINE x == n + 1
      <4>1. x \notin A /\ x \notin B  BY <3>2
      <4>. HIDE DEF x
      <4>2. A = (A \union {x}) \ {x} /\ B = (B \union {x}) \ {x}  BY <4>1, Zenon
      <4>. QED  BY <4>2, Zenon DEF x
    <3>. QED  BY <3>1, <3>3, Zenon
  <2>2. f \in [Old -> New]  OBVIOUS
  <2>3. \A B \in New : \E A \in Old : f[A] = B  OBVIOUS
  <2>4. f \in Injection(Old, New)  BY <2>1, <2>2 DEF Injection, IsInjective
  <2>5. f \in Surjection(Old, New)  BY <2>2, <2>3 DEF Surjection
  <2>. QED  BY <2>4, <2>5 DEF Bijection
<1>4. IsFiniteSet(Old) /\ Cardinality(Old) = 2 ^ n /\ 2 ^ n \in Nat  BY PowerCounts
<1>5. n + 1 \in Nat /\ Cardinality(SUBSET (1..n + 1)) = 2 ^ (n + 1)  BY PowerCounts
<1>. HIDE DEF Old, New, f
<1>6. IsFiniteSet(New) /\ Cardinality(New) = Cardinality(Old)  
  <2>1. f \in Injection(Old, New) /\ f \in Surjection(Old, New)  BY <1>3 DEF Bijection
  <2>. QED  BY <2>1, <1>4, FS_Surjection
<1>7. Cardinality(Old \union New) = Cardinality(Old) + Cardinality(New) - Cardinality(Old \cap New)
  BY <1>4, <1>6, FS_Union
<1>8. Cardinality(Old \cap New) = 0  BY <1>2, FS_EmptySet
<1>9. Cardinality(Old \union New) = 2 ^ (n + 1)  BY <1>1, <1>5, Zenon
<1>. DEFINE few == 2 ^ n  many == 2 ^ (n + 1)
<1>10. few \in Nat /\ many = few + few - 0
  <2>1. Cardinality(Old) = few /\ Cardinality(New) = few /\ Cardinality(Old \union New) = many
    BY <1>4, <1>6, <1>9, Zenon
  <2>. HIDE DEF few, many
  <2>2. many = few + few - 0  BY <2>1, <1>7, <1>8
  <2>. QED  BY <2>2, <1>4 DEF few
<1>. HIDE DEF few, many
<1>11. many = 2 * few  BY <1>10
<1>. QED  BY <1>11 DEF few, many

LEMMA SignedRange ==
  ASSUME NEW width \in Nat \ {0}
  PROVE  /\ 0 \in Signed(width) /\ Signed(width) \subseteq Int
         /\ 2 ^ width \in Nat \ {0} /\ 2 ^ (width - 1) \in Nat \ {0}
         /\ \A i, j \in Signed(width) : i - j < 2 ^ width /\ j - i < 2 ^ width
<1>1. width - 1 \in Nat /\ (width - 1) + 1 = width  OBVIOUS
<1>2. 2 ^ (width - 1) \in Nat /\ 2 ^ (width - 1) >= 1 /\ 2 ^ width = 2 * 2 ^ (width - 1)
  BY <1>1, PowerCounts, PowerDoubles
<1>. DEFINE half == 2 ^ (width - 1)  all == 2 ^ width
<1>3. half \in Nat /\ half >= 1 /\ all = 2 * half  BY <1>2
<1>4. Signed(width) = -half .. half - 1  BY DEF Signed
<1>. HIDE DEF half, all
<1>5. 0 \in -half .. half - 1 /\ -half .. half - 1 \subseteq Int  BY <1>3
<1>6. \A i, j \in -half .. half - 1 : i - j < all /\ j - i < all  BY <1>3
<1>. QED  BY <1>3, <1>4, <1>5, <1>6 DEF half, all

(* A multiple of m that is nearer to 0 than m is 0.                        *)
LEMMA SmallMultiple ==
  ASSUME NEW m \in Nat \ {0}, NEW d \in Int, d < m, -d < m, d % m = 0
  PROVE  d = 0
OBVIOUS

(* An int keeps a difference it can hold.                                  *)
LEMMA IntKeeps ==
  ASSUME NEW n \in Signed(IntWidth)
  PROVE  ToInt(n) = n
<1>. DEFINE i == ToInt(n)
<1>1. /\ Signed(IntWidth) \subseteq Int /\ 2 ^ IntWidth \in Nat \ {0}
      /\ \A k \in Signed(IntWidth) : n - k < 2 ^ IntWidth /\ k - n < 2 ^ IntWidth
  BY CriteriaAssumption, SignedRange
<1>2. n \in Int /\ n - n = 0 /\ 0 % 2 ^ IntWidth = 0
  <2>. DEFINE all == 2 ^ IntWidth
  <2>1. all \in Nat \ {0}  BY <1>1
  <2>. HIDE DEF all
  <2>2. 0 % all = 0  BY <2>1
  <2>3. n \in Int  BY <1>1
  <2>. QED  BY <2>2, <2>3 DEF all
<1>3. \E k \in Signed(IntWidth) : (n - k) % 2 ^ IntWidth = 0  BY <1>2
<1>4. i \in Signed(IntWidth) /\ (n - i) % 2 ^ IntWidth = 0  BY <1>3, Zenon DEF ToInt
<1>. HIDE DEF i
<1>5. n - i = 0
  <2>. DEFINE all == 2 ^ IntWidth  d == n - i
  <2>1. all \in Nat \ {0} /\ d \in Int /\ d < all /\ -d < all /\ d % all = 0  BY <1>1, <1>2, <1>4
  <2>. HIDE DEF all, d
  <2>2. d = 0  BY <2>1, SmallMultiple
  <2>. QED  BY <2>2 DEF d
<1>. QED  BY <1>1, <1>2, <1>4, <1>5 DEF i

(* What compstate keeps of a difference it can tell apart is its sign.     *)
LEMMA SignIsKept ==
  ASSUME NEW type \in {"integer", "float"}, NEW ls \in Int, NEW lv \in Int, ToldApart(type, ls, lv)
  PROVE  LET state == compstate(type, ls, lv)
         IN state \in Int /\ (state = 0 <=> ls = lv) /\ (state > 0 <=> ls > lv) /\ (state < 0 <=> ls < lv)
<1>1. Signed(IntWidth) \subseteq Int /\ 0 \in Signed(IntWidth)  BY CriteriaAssumption, SignedRange
<1>2. CASE type # "float"
  <2>1. ls - lv \in Signed(IntWidth) /\ compstate(type, ls, lv) = ToInt(ls - lv)
    BY <1>2 DEF ToldApart, compstate
  <2>2. compstate(type, ls, lv) = ls - lv  BY <2>1, IntKeeps
  <2>. QED  BY <2>2
<1>3. CASE type = "float"
  <2>. DEFINE h == ls - lv
  <2>1. h \in Int /\ (h = 0 <=> ls = lv) /\ (h > 0 <=> ls > lv) /\ (h < 0 <=> ls < lv)  OBVIOUS
  <2>2. compstate(type, ls, lv) = FromHalves(h)  BY <1>3 DEF compstate
  <2>3. ls = lv \/ (h \notin -1..1 /\ Whole(h) \in Signed(IntWidth))  BY <1>3 DEF ToldApart
  <2>. HIDE DEF h
  <2>4. CASE h = 0
    <3>1. Whole(h) = 0  BY <2>4 DEF Whole
    <3>2. FromHalves(h) = 0  BY <3>1, <1>1 DEF FromHalves
    <3>. QED  BY <2>1, <2>2, <2>4, <3>2
  <2>5. CASE h # 0
    <3>1. h \notin -1..1 /\ FromHalves(h) = Whole(h)  BY <2>1, <2>3, <2>5 DEF FromHalves
    <3>2. /\ Whole(h) \in Int /\ (Whole(h) = 0 <=> h = 0)
          /\ (Whole(h) > 0 <=> h > 0) /\ (Whole(h) < 0 <=> h < 0)
      BY <2>1, <3>1 DEF Whole
    <3>. QED  BY <2>1, <2>2, <3>1, <3>2
  <2>. QED  BY <2>4, <2>5
<1>. QED  BY <1>2, <1>3

LEMMA ComplianceHolds ==
  ASSUME NEW type \in {"integer", "float"}, NEW op \in SUBSCR_OP,
         NEW ls \in Int, NEW lv \in Int, ToldApart(type, ls, lv)
  PROVE  matchValue(type, op, ls, lv) <=> Holds(op, ls, lv)
<1>. DEFINE state == compstate(type, ls, lv)
<1>1. /\ state \in Int /\ (state = 0 <=> ls = lv) /\ (state > 0 <=> ls > lv) /\ (state < 0 <=> ls < lv)
      /\ (state >= 0 <=> ls >= lv) /\ (state <= 0 <=> ls <= lv)
  BY SignIsKept
<1>2. matchValue(type, op, ls, lv) <=> op = "ANY" \/ Complies(op, state)  BY DEF matchValue
<1>. HIDE DEF state
<1>3. CASE op = "ANY"  BY <1>2, <1>3, Zenon DEF Holds
<1>4. CASE op = "EQ"
  <2>1. Complies(op, state) <=> state = 0  BY <1>4 DEF Complies
  <2>2. Holds(op, ls, lv) <=> ls = lv  BY <1>4 DEF Holds
  <2>. QED  BY <1>1, <1>2, <1>4, <2>1, <2>2
<1>5. CASE op = "NE"
  <2>1. Complies(op, state) <=> state # 0  BY <1>5 DEF Complies
  <2>2. Holds(op, ls, lv) <=> ls # lv  BY <1>5 DEF Holds
  <2>. QED  BY <1>1, <1>2, <1>5, <2>1, <2>2
<1>6. CASE op = "GT"
  <2>1. Complies(op, state) <=> state > 0  BY <1>6 DEF Complies
  <2>2. Holds(op, ls, lv) <=> ls > lv  BY <1>6 DEF Holds
  <2>. QED  BY <1>1, <1>2, <1>6, <2>1, <2>2
<1>7. CASE op = "GE"
  <2>1. Complies(op, state) <=> state >= 0  BY <1>7 DEF Complies
  <2>2. Holds(op, ls, lv) <=> ls >= lv  BY <1>7 DEF Holds
  <2>. QED  BY <1>1, <1>2, <1>7, <2>1, <2>2
<1>8. CASE op = "LT"
  <2>1. Complies(op, state) <=> state < 0  BY <1>8 DEF Complies
  <2>2. Holds(op, ls, lv) <=> ls < lv  BY <1>8 DEF Holds
  <2>. QED  BY <1>1, <1>2, <1>8, <2>1, <2>2
<1>9. CASE op = "LE"
  <2>1. Complies(op, state) <=> state <= 0  BY <1>9 DEF Complies
  <2>2. Holds(op, ls, lv) <=> ls <= lv  BY <1>9 DEF Holds
  <2>. QED  BY <1>1, <1>2, <1>9, <2>1, <2>2
<1>10. CASE op = "unknown"
  <2>1. ~Complies(op, state)  BY <1>10 DEF Complies
  <2>2. ~Holds(op, ls, lv)  BY <1>10 DEF Holds
  <2>. QED  BY <1>2, <1>10, <2>1, <2>2
<1>. QED  BY <1>3, <1>4, <1>5, <1>6, <1>7, <1>8, <1>9, <1>10 DEF SUBSCR_OP

-----------------------------------------------------------------------------
(* The theorems.                                                           *)

LEMMA TypesHold == Spec => []Types
<1>. QED  BY InitTypes, StepTypes, PTL DEF Spec

(* A metric that is subscribed to keeps its callback, whatever the order   *)
(* in which the other metrics of its base are subscribed to and            *)
(* unsubscribed from, when the memory of a new callback does not start the *)
(* use count below 0: reposd never sets it (mreposl.c:321).                *)
THEOREM SubscribedAreCalledBack ==
  ASSUME Garbage \subseteq Nat
  PROVE  Spec => []SubscribedIsCalledBack
<1>1. Init => Types /\ Counted  BY InitTypes, InitCounted
<1>2. Types /\ Counted /\ [Next]_vars => Types' /\ Counted'  BY StepTypes, StepCounted
<1>3. Types /\ Counted => SubscribedIsCalledBack  BY CountedCallsBack
<1>. QED  BY <1>1, <1>2, <1>3, PTL DEF Spec

(* A walk that ends has read every subscription to the value's metric that *)
(* was there when it began and still is, although the main thread adds and *)
(* removes elements under it without the lock: as long as no more than two *)
(* bases are subscribed to (with three the list is not in their order) and *)
(* a base metric is its own base.                                          *)
THEOREM WalksMissNobody ==
  ASSUME AtMostTwoBases, OwnBases
  PROVE  Spec => []NobodyIsMissed
<1>1. Init => Types /\ InOrder(subscriptions) /\ WalkOwes
  BY InitTypes DEF Init, InOrder, WalkOwes, NobodyIsMissed, Resting
<1>2. Types /\ InOrder(subscriptions) /\ WalkOwes /\ [Next]_vars
        => Types' /\ InOrder(subscriptions)' /\ WalkOwes'
  BY StepTypes, StepInOrder, StepOwes
<1>3. WalkOwes => NobodyIsMissed  BY DEF WalkOwes
<1>. QED  BY <1>1, <1>2, <1>3, PTL DEF Spec

(* Between two calls of the main thread the forwarding table and the list  *)
(* of subscriptions name the same metrics, and each subscription's         *)
(* correlator finds its forwarding, while the plugins stay: for one        *)
(* listener with one correlator (two requests for a metric share one       *)
(* subscription, and the first to go takes it along) and no more than two  *)
(* bases.                                                                  *)
THEOREM TablesAlwaysAgree ==
  ASSUME AtMostTwoBases, OneRequestEach
  PROVE  Spec => []TablesAgree
<1>1. Init => Types /\ InOrder(subscriptions) /\ Tables
  BY InitTypes DEF Init, InOrder, Tables, ForwardingsInOrder, EachMetricOnce, SubscriptionsForwarded,
                   ForwardingsSubscribed, RequestForwarded
<1>2. Types /\ InOrder(subscriptions) /\ Tables /\ [Next]_vars
        => Types' /\ InOrder(subscriptions)' /\ Tables'
  BY StepTypes, StepInOrder, StepTables
<1>3. Types /\ Tables => TablesAgree  BY TablesAreAgreed
<1>. QED  BY <1>1, <1>2, <1>3, PTL DEF Spec

(* A subscription's comparison is the one it asks for, although the        *)
(* difference is kept in an int, for every width of an int and a long long *)
(* and every pair of values the int can tell apart (repos.c:709).          *)
THEOREM ComparisonsHold == Spec => []ComparesValues
<1>1. ComparesValues
  <2>1. LongWidth \in Nat \ {0}  BY CriteriaAssumption
  <2>2. Signed(LongWidth) \subseteq Int  BY <2>1, SignedRange
  <2>. QED  BY <2>2, ComplianceHolds DEF ComparesValues
<1>. QED  BY <1>1, PTL
=============================================================================
