------------------------ MODULE LocalRepository_proofs ------------------------
(***************************************************************************)
(* Proofs about the local repository of mreposl.c, for any writers,        *)
(* metrics and resources, any expiration and any delay below it.  What     *)
(* recursion computes is shown by least counterexamples.                   *)
(***************************************************************************)
EXTENDS LocalRepository, FiniteSetTheorems, SequenceTheorems, WellFoundedInduction, TLAPS

USE LocalRepositoryAssumption

-----------------------------------------------------------------------------
(* A set of numbers that is not empty has a least one.                     *)
LEMMA LeastNumber ==
  ASSUME NEW S, S \subseteq Nat, S # {}
  PROVE  \E n \in S : \A m \in S : n <= m
<1>1. PICK n \in S : \A m \in S : ~ <<m, n>> \in OpToRel(<, Nat)
  BY WFMin, NatLessThanWellFounded, Zenon
<1>2. ASSUME NEW m \in S PROVE n <= m
  <2>1. ~ m < n /\ m \in Nat /\ n \in Nat  BY <1>1, Zenon DEF OpToRel
  <2>. QED  BY <2>1
<1>. QED  BY <1>2

-----------------------------------------------------------------------------
(* The data: chains of time stamps, newest first, in arrays of resources   *)
(* in ascending order.                                                     *)

Chain    == {c \in Seq(Nat) : \A i, j \in 1..Len(c) : i <= j => c[i] >= c[j]}
Pairs    == Nat \X Nat
Resource == [key : Pairs, values : Chain]
Array    == {l \in Seq(Resource) : Ascending(l)}

LEMMA ArrayType ==
  ASSUME NEW list \in Array
  PROVE  /\ list \in Seq(Resource) /\ Len(list) \in Nat /\ DOMAIN list = 1..Len(list)
         /\ \A i \in 1..Len(list) : list[i] \in Resource /\ list[i].key \in Pairs /\ list[i].values \in Chain
         /\ \A i, j \in 1..Len(list) : i < j => Before(list[i].key, list[j].key)
<1>1. /\ list \in Seq(Resource)
      /\ \A i, j \in 1..Len(list) : i < j => Before(list[i].key, list[j].key)
  BY DEF Array, Ascending
<1>2. Len(list) \in Nat /\ DOMAIN list = 1..Len(list) /\ \A i \in 1..Len(list) : list[i] \in Resource
  BY <1>1
<1>3. \A r \in Resource : r.key \in Pairs /\ r.values \in Chain  BY Zenon DEF Resource
<1>. QED  BY <1>1, <1>2, <1>3

LEMMA KeysAreOrdered ==
  /\ \A k, l \in Pairs : k = l \/ Before(k, l) \/ Before(l, k)
  /\ \A k, l \in Pairs : Before(k, l) => k # l /\ ~Before(l, k)
  /\ \A k, l, m \in Pairs : Before(k, l) /\ Before(l, m) => Before(k, m)
<1>1. \A k \in Pairs : k = <<k[1], k[2]>> /\ k[1] \in Nat /\ k[2] \in Nat  BY DEF Pairs
<1>. QED  BY <1>1 DEF Before

-----------------------------------------------------------------------------
(* The binary search of locateres.                                         *)

(* One probe of the search, which goes on as f says.                       *)
Probed(list, key, f, w) ==
  IF w[1] > w[2] THEN w[1]
  ELSE IF list[Cursor(w)].key = key THEN Cursor(w)
  ELSE IF Before(list[Cursor(w)].key, key) THEN f[<<Cursor(w) + 1, w[2]>>]
  ELSE f[<<w[1], Cursor(w) - 1>>]

IsProbe(list, key, f) == f = [w \in Windows(list) |-> Probed(list, key, f, w)]

(* Windows of at most n elements.                                          *)
Smaller(list, n) == {w \in Windows(list) : w[2] - w[1] < n}

LEMMA Halving ==
  ASSUME NEW list, Len(list) \in Nat, NEW n \in Nat, NEW w \in Smaller(list, n + 1), w[1] <= w[2]
  PROVE  /\ w[1] \in Nat \ {0} /\ w[2] \in Nat /\ w[2] <= Len(list)
         /\ Cursor(w) \in w[1]..w[2] /\ Cursor(w) \in 1..Len(list)
         /\ <<Cursor(w) + 1, w[2]>> \in Smaller(list, n)
         /\ <<w[1], Cursor(w) - 1>> \in Smaller(list, n)
<1>1. /\ w[1] \in 1..Len(list) + 1 /\ w[2] \in 0..Len(list) /\ w[2] - w[1] < n + 1
      /\ w = <<w[1], w[2]>>
  BY DEF Smaller, Windows
<1>2. Cursor(w) \in Int /\ w[1] <= Cursor(w) /\ Cursor(w) <= w[2]
  BY <1>1 DEF Cursor
<1>3. <<Cursor(w) + 1, w[2]>> \in Windows(list) /\ <<w[1], Cursor(w) - 1>> \in Windows(list)
  BY <1>1, <1>2 DEF Windows
<1>4. w[2] - (Cursor(w) + 1) < n /\ (Cursor(w) - 1) - w[1] < n
  <2>. DEFINE l == w[1]  r == w[2]  c == Cursor(w)
  <2>1. l \in Int /\ r \in Int /\ c \in Int /\ l <= c /\ c <= r /\ r - l < n + 1  BY <1>1, <1>2
  <2>. HIDE DEF l, r, c
  <2>2. r - (c + 1) < n /\ (c - 1) - l < n  BY <2>1
  <2>. QED  BY <2>2 DEF l, r, c
<1>5. /\ <<Cursor(w) + 1, w[2]>> \in Smaller(list, n)
      /\ <<w[1], Cursor(w) - 1>> \in Smaller(list, n)
  BY <1>3, <1>4 DEF Smaller
<1>. QED  BY <1>1, <1>2, <1>5

LEMMA ProbedDepends ==
  ASSUME NEW list, Len(list) \in Nat, NEW key, NEW n \in Nat, NEW w \in Smaller(list, n + 1),
         NEW f, NEW g, \A u \in Smaller(list, n) : f[u] = g[u]
  PROVE  Probed(list, key, f, w) = Probed(list, key, g, w)
<1>1. CASE w[1] > w[2]  BY <1>1 DEF Probed
<1>2. CASE w[1] <= w[2]
  <2>1. f[<<Cursor(w) + 1, w[2]>>] = g[<<Cursor(w) + 1, w[2]>>]
    BY <1>2, Halving
  <2>2. f[<<w[1], Cursor(w) - 1>>] = g[<<w[1], Cursor(w) - 1>>]
    BY <1>2, Halving
  <2>. QED  BY <2>1, <2>2 DEF Probed
<1>3. w[1] \in Int /\ w[2] \in Int  BY DEF Smaller, Windows
<1>. QED  BY <1>1, <1>2, <1>3

(* The search is defined: there is a function of windows that it follows.  *)
LEMMA ProbeExists ==
  ASSUME NEW list, Len(list) \in Nat, NEW key
  PROVE  \E f : IsProbe(list, key, f)
<1>. DEFINE Reaches(n, f) == f = [w \in Smaller(list, n) |-> Probed(list, key, f, w)]
            Failing    == {n \in Nat : ~ \E f : Reaches(n, f)}
<1>1. Failing = {}
  <2>. SUFFICES ASSUME Failing # {} PROVE FALSE  OBVIOUS
  <2>1. PICK n \in Failing : \A m \in Failing : n <= m
    <3>1. Failing \subseteq Nat  OBVIOUS
    <3>. HIDE DEF Failing
    <3>. QED  BY <3>1, LeastNumber
  <2>2. CASE n = 0
    <3>. DEFINE f == [w \in Smaller(list, 0) |-> w[1]]
    <3>1. ASSUME NEW w \in Smaller(list, 0) PROVE Probed(list, key, f, w) = w[1]
      <4>1. w[1] > w[2]  BY DEF Smaller, Windows
      <4>. QED  BY <4>1 DEF Probed
    <3>2. f = [w \in Smaller(list, 0) |-> Probed(list, key, f, w)]  BY <3>1, Zenon
    <3>3. Reaches(0, f)  BY <3>2
    <3>. QED  BY <2>2, <3>3, Zenon
  <2>3. CASE n # 0
    <3>1. n - 1 \in Nat /\ n - 1 \notin Failing /\ n = (n - 1) + 1
      <4>1. n \in Nat  OBVIOUS
      <4>2. n - 1 \in Nat /\ ~(n <= n - 1) /\ n = (n - 1) + 1  BY <2>3, <4>1
      <4>. HIDE DEF Failing
      <4>. QED  BY <2>1, <4>2
    <3>2. PICK f : Reaches(n - 1, f)  BY <3>1, Zenon
    <3>. DEFINE g == [w \in Smaller(list, n) |-> Probed(list, key, f, w)]
    <3>3. Smaller(list, n - 1) \subseteq Smaller(list, n)  BY <3>1 DEF Smaller, Windows
    <3>4. \A u \in Smaller(list, n - 1) : f[u] = Probed(list, key, f, u)  BY <3>2, Zenon
    <3>5. \A u \in Smaller(list, n) : g[u] = Probed(list, key, f, u)  BY Zenon
    <3>6. \A u \in Smaller(list, n - 1) : f[u] = g[u]  BY <3>3, <3>4, <3>5, Zenon
    <3>. HIDE DEF g
    <3>7. ASSUME NEW w \in Smaller(list, n) PROVE Probed(list, key, f, w) = Probed(list, key, g, w)
      <4>. DEFINE k == n - 1
      <4>1. k \in Nat /\ w \in Smaller(list, k + 1) /\ \A u \in Smaller(list, k) : f[u] = g[u]
        BY <3>1, <3>6
      <4>. HIDE DEF k
      <4>. QED  BY <4>1, ProbedDepends
    <3>8. g = [w \in Smaller(list, n) |-> Probed(list, key, g, w)]  BY <3>7, Zenon DEF g
    <3>9. Reaches(n, g)  BY <3>8
    <3>. QED  BY <3>9, Zenon
  <2>. QED  BY <2>2, <2>3
<1>2. PICK f : Reaches(Len(list), f)  BY <1>1, Zenon
<1>3. Smaller(list, Len(list)) = Windows(list)  BY DEF Smaller, Windows
<1>. QED  BY <1>2, <1>3, Zenon DEF IsProbe

LEMMA LocateResProbes ==
  ASSUME NEW list, Len(list) \in Nat, NEW key
  PROVE  \E f : IsProbe(list, key, f) /\ LocateRes(list, key) = f[<<1, Len(list)>>]
<1>1. LocateRes(list, key) = (CHOOSE f : IsProbe(list, key, f))[<<1, Len(list)>>]
  BY Zenon DEF LocateRes, IsProbe, Probed
<1>. QED  BY <1>1, ProbeExists, Zenon

(* The place of a resource: where it is, or where it has to be inserted.   *)
IsPlace(list, key, i) ==
  /\ i \in 1..Len(list) + 1
  /\ \A j \in 1..Len(list) : j < i => Before(list[j].key, key)
  /\ \A j \in 1..Len(list) : j > i => Before(key, list[j].key)
  /\ i \in 1..Len(list) => list[i].key = key \/ Before(key, list[i].key)

(* What is outside of a window need not be searched.                       *)
Narrowed(list, key, w) ==
  /\ w[1] <= w[2] + 1
  /\ \A j \in 1..Len(list) : j < w[1] => Before(list[j].key, key)
  /\ \A j \in 1..Len(list) : j > w[2] => Before(key, list[j].key)

LEMMA ProbeFinds ==
  ASSUME NEW list \in Array, NEW key \in Pairs, NEW f, IsProbe(list, key, f),
         NEW w \in Windows(list), Narrowed(list, key, w)
  PROVE  IsPlace(list, key, f[w])
<1>. DEFINE Lost(u)  == u \in Windows(list) /\ Narrowed(list, key, u) /\ ~IsPlace(list, key, f[u])
            Failing == {n \in Nat : \E u \in Smaller(list, n) : Lost(u)}
<1>1. /\ Len(list) \in Nat
      /\ \A i \in 1..Len(list) : list[i].key \in Pairs
      /\ \A i, j \in 1..Len(list) : i < j => Before(list[i].key, list[j].key)
  BY ArrayType
<1>2. SUFFICES ASSUME Lost(w) PROVE FALSE  OBVIOUS
<1>3. Failing # {}
  <2>1. w \in Smaller(list, Len(list))  BY <1>1 DEF Smaller, Windows
  <2>. QED  BY <1>1, <1>2, <2>1
<1>4. PICK n \in Failing : \A m \in Failing : n <= m
  <2>1. Failing \subseteq Nat  OBVIOUS
  <2>. HIDE DEF Failing
  <2>. QED  BY <1>3, <2>1, LeastNumber
<1>5. PICK u \in Smaller(list, n) : Lost(u)  BY <1>4
<1>6. /\ u \in Windows(list) /\ n \in Nat
      /\ u[1] \in 1..Len(list) + 1 /\ u[2] \in 0..Len(list) /\ u[2] - u[1] < n
  BY <1>1, <1>4 DEF Smaller, Windows
<1>7. f[u] = Probed(list, key, f, u)  BY <1>6, Zenon DEF IsProbe
<1>8. CASE u[1] > u[2]
  <2>1. f[u] = u[1]  BY <1>7, <1>8 DEF Probed
  <2>2. IsPlace(list, key, u[1])
    <3>. DEFINE l == u[1]  r == u[2]
    <3>1. l \in 1..Len(list) + 1 /\ r \in Int /\ l > r  BY <1>6, <1>8
    <3>2. /\ \A j \in 1..Len(list) : j < l => Before(list[j].key, key)
          /\ \A j \in 1..Len(list) : j > r => Before(key, list[j].key)
      BY <1>5 DEF Narrowed
    <3>. HIDE DEF l, r
    <3>3. IsPlace(list, key, l)  BY <1>1, <3>1, <3>2 DEF IsPlace
    <3>. QED  BY <3>3 DEF l
  <2>. QED  BY <1>5, <2>1, <2>2
<1>9. CASE u[1] <= u[2]
  <2>. DEFINE c == Cursor(u)  k == n - 1
  <2>1. k \in Nat /\ n = k + 1  BY <1>6, <1>9
  <2>2. /\ c \in u[1]..u[2] /\ c \in 1..Len(list)
        /\ <<c + 1, u[2]>> \in Smaller(list, k) /\ <<u[1], c - 1>> \in Smaller(list, k)
    <3>. HIDE DEF k
    <3>. QED  BY <1>1, <1>6, <1>9, <2>1, Halving
  <2>3. \A v \in Smaller(list, k) : ~Lost(v)
    <3>1. k \notin Failing
      <4>1. ~(n <= k)  BY <1>6, <2>1
      <4>. HIDE DEF Failing, k
      <4>. QED  BY <1>4, <4>1
    <3>. HIDE DEF Lost, k
    <3>. QED  BY <2>1, <3>1
  <2>4. Smaller(list, k) \subseteq Windows(list)  BY DEF Smaller
  <2>. HIDE DEF k
  <2>5. list[c].key \in Pairs  BY <1>1, <2>2
  <2>6. CASE list[c].key = key
    <3>1. f[u] = c  BY <1>6, <1>7, <1>9, <2>6 DEF Probed
    <3>2. c \in 1..Len(list)  BY <2>2
    <3>. HIDE DEF c
    <3>3. /\ \A j \in 1..Len(list) : j < c => Before(list[j].key, key)
          /\ \A j \in 1..Len(list) : j > c => Before(key, list[j].key)
      BY <1>1, <2>6, <3>2
    <3>4. IsPlace(list, key, c)  BY <1>1, <2>6, <3>2, <3>3 DEF IsPlace
    <3>. QED  BY <1>5, <3>1, <3>4
  <2>7. CASE list[c].key # key /\ Before(list[c].key, key)
    <3>. DEFINE v == <<c + 1, u[2]>>
    <3>1. f[u] = f[v]  BY <1>6, <1>7, <1>9, <2>7 DEF Probed
    <3>2. \A j \in 1..Len(list) : j < c + 1 => Before(list[j].key, key)
      <4>. TAKE j \in 1..Len(list)
      <4>1. CASE j = c  BY <2>7, <4>1
      <4>2. CASE j < c
        <5>1. Before(list[j].key, list[c].key)  BY <1>1, <2>2, <4>2
        <5>. QED  BY <1>1, <2>5, <2>7, <5>1, KeysAreOrdered
      <4>. QED  BY <2>2, <4>1, <4>2
    <3>3. Narrowed(list, key, v)
      <4>1. v[1] = c + 1 /\ v[2] = u[2] /\ c + 1 <= u[2] + 1  BY <1>6, <2>2
      <4>2. \A j \in 1..Len(list) : j > u[2] => Before(key, list[j].key)  BY <1>5 DEF Narrowed
      <4>. HIDE DEF v, c
      <4>. QED  BY <3>2, <4>1, <4>2 DEF Narrowed
    <3>. HIDE DEF v, c
    <3>. QED  BY <1>5, <2>2, <2>3, <2>4, <3>1, <3>3 DEF v
  <2>8. CASE list[c].key # key /\ ~Before(list[c].key, key)
    <3>. DEFINE v == <<u[1], c - 1>>
    <3>0. Before(key, list[c].key)  BY <2>5, <2>8, KeysAreOrdered
    <3>1. f[u] = f[v]  BY <1>6, <1>7, <1>9, <2>8 DEF Probed
    <3>2. \A j \in 1..Len(list) : j > c - 1 => Before(key, list[j].key)
      <4>. TAKE j \in 1..Len(list)
      <4>1. CASE j = c  BY <3>0, <4>1
      <4>2. CASE c < j
        <5>1. Before(list[c].key, list[j].key)  BY <1>1, <2>2, <4>2
        <5>. QED  BY <1>1, <2>5, <3>0, <5>1, KeysAreOrdered
      <4>. QED  BY <2>2, <4>1, <4>2
    <3>3. Narrowed(list, key, v)
      <4>1. v[1] = u[1] /\ v[2] = c - 1 /\ u[1] <= (c - 1) + 1  BY <1>6, <2>2
      <4>2. \A j \in 1..Len(list) : j < u[1] => Before(list[j].key, key)  BY <1>5 DEF Narrowed
      <4>. HIDE DEF v, c
      <4>. QED  BY <3>2, <4>1, <4>2 DEF Narrowed
    <3>. HIDE DEF v, c
    <3>. QED  BY <1>5, <2>2, <2>3, <2>4, <3>1, <3>3 DEF v
  <2>. QED  BY <2>6, <2>7, <2>8
<1>. QED  BY <1>6, <1>8, <1>9

(* locateres finds every resource, or its place, in every sorted array     *)
(* (mreposl.c:485-513).                                                    *)
THEOREM SearchFinds ==
  ASSUME NEW list \in Array, NEW key \in Pairs
  PROVE  IsPlace(list, key, LocateRes(list, key))
<1>1. Len(list) \in Nat  BY DEF Array
<1>2. PICK f : IsProbe(list, key, f) /\ LocateRes(list, key) = f[<<1, Len(list)>>]
  BY <1>1, LocateResProbes
<1>3. <<1, Len(list)>> \in Windows(list)  BY <1>1 DEF Windows
<1>4. Narrowed(list, key, <<1, Len(list)>>)  BY <1>1 DEF Narrowed
<1>. QED  BY <1>2, <1>3, <1>4, ProbeFinds

-----------------------------------------------------------------------------
(* Storing: the array with a resource, and a value in front of its chain.  *)

(* InsertAt of the community modules: the elements after i move up.        *)
LEMMA InsertAtElements ==
  ASSUME NEW S, NEW s \in Seq(S), NEW e \in S, NEW i \in 1 .. Len(s) + 1
  PROVE  /\ InsertAt(s, i, e) \in Seq(S)
         /\ Len(InsertAt(s, i, e)) = Len(s) + 1
         /\ \A j \in 1 .. Len(s) + 1 :
              InsertAt(s, i, e)[j] = IF j < i THEN s[j] ELSE IF j = i THEN e ELSE s[j - 1]
<1>. DEFINE front == SubSeq(s, 1, i - 1)
            back  == SubSeq(s, i, Len(s))
<1>1. /\ front \in Seq(S) /\ Len(front) = i - 1
      /\ \A j \in 1 .. i - 1 : front[j] = s[j]
  BY SubSeqProperties
<1>2. /\ back \in Seq(S) /\ Len(back) = Len(s) - i + 1
      /\ \A j \in 1 .. Len(s) - i + 1 : back[j] = s[i + j - 1]
  BY SubSeqProperties
<1>3. InsertAt(s, i, e) = (front \o <<e>>) \o back  BY DEF InsertAt
<1>. HIDE DEF front, back
<1>4. <<e>> \in Seq(S) /\ Len(<<e>>) = 1 /\ <<e>>[1] = e  OBVIOUS
<1>5. /\ front \o <<e>> \in Seq(S) /\ Len(front \o <<e>>) = i
      /\ \A j \in 1 .. i : (front \o <<e>>)[j] = IF j < i THEN s[j] ELSE e
  BY <1>1, <1>4, ConcatProperties
<1>6. /\ InsertAt(s, i, e) \in Seq(S)
      /\ Len(InsertAt(s, i, e)) = Len(s) + 1
  <2>1. Len(s) \in Nat  OBVIOUS
  <2>2. /\ (front \o <<e>>) \o back \in Seq(S)
        /\ Len((front \o <<e>>) \o back) = Len(front \o <<e>>) + Len(back)
    BY <1>2, <1>5, ConcatProperties
  <2>3. i + (Len(s) - i + 1) = Len(s) + 1  BY <2>1
  <2>4. Len(InsertAt(s, i, e)) = i + (Len(s) - i + 1)  BY <2>2, <1>2, <1>3, <1>5
  <2>. QED  BY <2>2, <2>3, <2>4, <1>3
<1>7. ASSUME NEW j \in 1 .. Len(s) + 1
      PROVE  InsertAt(s, i, e)[j] = IF j < i THEN s[j] ELSE IF j = i THEN e ELSE s[j - 1]
  <2>1. CASE j <= i
    BY <2>1, <1>2, <1>3, <1>5, ConcatProperties
  <2>2. CASE j > i
    <3>1. InsertAt(s, i, e)[j] = back[j - i]
      BY <2>2, <1>2, <1>3, <1>5, ConcatProperties
    <3>2. back[j - i] = s[i + (j - i) - 1]  BY <2>2, <1>2
    <3>. QED  BY <2>2, <3>1, <3>2
  <2>. QED  BY <2>1, <2>2
<1>. QED  BY <1>6, <1>7

(* The search ends at the resource if it is there.                         *)
LEMMA SearchHits ==
  ASSUME NEW list \in Array, NEW i \in 1..Len(list)
  PROVE  LocateRes(list, list[i].key) = i
<1>. DEFINE key == list[i].key
            q   == LocateRes(list, key)
<1>1. key \in Pairs  BY ArrayType
<1>. HIDE DEF key
<1>2. IsPlace(list, key, q)  BY <1>1, SearchFinds
<1>3. ~Before(key, key)  BY <1>1, KeysAreOrdered
<1>. HIDE DEF q
<1>4. ~(i < q) /\ ~(i > q) /\ q \in Nat  BY <1>2, <1>3 DEF IsPlace, key
<1>5. q = i  BY <1>4
<1>. QED  BY <1>5 DEF q, key

(* The array with a resource: what was there stays, in ascending order.    *)
HasBoth(list, with, key) ==
  /\ with \in Array
  /\ \E n \in 1..Len(with) : with[n].key = key
  /\ \A j \in 1..Len(list) : \E n \in 1..Len(with) : with[n] = list[j]
  /\ \A n \in 1..Len(with) :
       \/ \E j \in 1..Len(list) : with[n] = list[j]
       \/ with[n] = [key |-> key, values |-> <<>>]

LEMMA WithResHasBoth ==
  ASSUME NEW list \in Array, NEW key \in Pairs
  PROVE  HasBoth(list, WithRes(list, key), key)
<1>. DEFINE p    == LocateRes(list, key)
            new  == [key |-> key, values |-> <<>>]
            with == WithRes(list, key)
<1>1. /\ list \in Seq(Resource) /\ Len(list) \in Nat
      /\ \A i \in 1..Len(list) : list[i].key \in Pairs
      /\ \A i, j \in 1..Len(list) : i < j => Before(list[i].key, list[j].key)
  BY ArrayType
<1>2. IsPlace(list, key, p)  BY SearchFinds
<1>3. new \in Resource /\ new.key = key
  <2>1. <<>> \in Chain  BY DEF Chain
  <2>. QED  BY <2>1 DEF Resource
<1>4. CASE IsAt(list, p, key)
  <2>1. with = list /\ p \in 1..Len(list) /\ list[p].key = key  BY <1>4 DEF WithRes, IsAt
  <2>. HIDE DEF with, p
  <2>2. HasBoth(list, with, key)  BY <2>1 DEF HasBoth
  <2>. QED  BY <2>2 DEF with
<1>5. CASE ~IsAt(list, p, key)
  <2>1. with = InsertAt(list, p, new)  BY <1>5 DEF WithRes
  <2>2. /\ p \in 1..Len(list) + 1
        /\ \A j \in 1..Len(list) : j < p => Before(list[j].key, key)
        /\ \A j \in 1..Len(list) : j >= p => Before(key, list[j].key)
    BY <1>1, <1>2, <1>5 DEF IsPlace, IsAt
  <2>. HIDE DEF p, new, with
  <2>3. /\ with \in Seq(Resource) /\ Len(with) = Len(list) + 1
        /\ \A j \in 1..Len(list) + 1 :
             with[j] = IF j < p THEN list[j] ELSE IF j = p THEN new ELSE list[j - 1]
    <3>. DEFINE ins == InsertAt(list, p, new)
    <3>1. /\ ins \in Seq(Resource) /\ Len(ins) = Len(list) + 1
          /\ \A j \in 1..Len(list) + 1 :
               ins[j] = IF j < p THEN list[j] ELSE IF j = p THEN new ELSE list[j - 1]
      BY <1>1, <1>3, <2>2, InsertAtElements
    <3>. HIDE DEF ins
    <3>2. with = ins  BY <2>1 DEF ins
    <3>. QED  BY <3>1, <3>2
  <2>4. ASSUME NEW i \in 1..Len(with), NEW j \in 1..Len(with), i < j
        PROVE  Before(with[i].key, with[j].key)
    <3>1. CASE j < p  BY <1>1, <2>2, <2>3, <2>4, <3>1
    <3>2. CASE j = p  BY <1>1, <1>3, <2>2, <2>3, <2>4, <3>2
    <3>3. CASE i < p /\ p < j
      <4>1. /\ with[i] = list[i] /\ i \in 1..Len(list)
            /\ with[j] = list[j - 1] /\ j - 1 \in 1..Len(list) /\ j - 1 >= p
        BY <1>1, <2>2, <2>3, <2>4, <3>3
      <4>2. Before(list[i].key, key) /\ Before(key, list[j - 1].key)  BY <2>2, <3>3, <4>1
      <4>3. list[i].key \in Pairs /\ list[j - 1].key \in Pairs  BY <1>1, <4>1
      <4>. QED  BY <4>1, <4>2, <4>3, KeysAreOrdered
    <3>4. CASE i = p
      <4>1. with[j] = list[j - 1] /\ j - 1 \in 1..Len(list) /\ j - 1 >= p
        BY <1>1, <2>2, <2>3, <2>4, <3>4
      <4>. QED  BY <1>3, <2>2, <2>3, <2>4, <3>4, <4>1
    <3>5. CASE i > p
      <4>1. /\ with[i] = list[i - 1] /\ i - 1 \in 1..Len(list)
            /\ with[j] = list[j - 1] /\ j - 1 \in 1..Len(list) /\ i - 1 < j - 1
        BY <1>1, <2>2, <2>3, <2>4, <3>5
      <4>. QED  BY <1>1, <4>1
    <3>. QED  BY <1>1, <2>2, <2>3, <2>4, <3>1, <3>2, <3>3, <3>4, <3>5
  <2>5. with \in Array  BY <2>3, <2>4 DEF Array, Ascending
  <2>6. with[p].key = key /\ p \in 1..Len(with)  BY <1>1, <1>3, <2>2, <2>3
  <2>7. ASSUME NEW j \in 1..Len(list) PROVE \E n \in 1..Len(with) : with[n] = list[j]
    <3>1. CASE j < p  BY <1>1, <2>3, <3>1
    <3>2. CASE j >= p
      <4>1. j + 1 \in 1..Len(with) /\ with[j + 1] = list[j]  BY <1>1, <2>2, <2>3, <3>2
      <4>. QED  BY <4>1
    <3>. QED  BY <1>1, <2>2, <3>1, <3>2
  <2>8. ASSUME NEW n \in 1..Len(with) PROVE with[n] = new \/ \E j \in 1..Len(list) : with[n] = list[j]
    <3>1. CASE n < p  BY <1>1, <2>2, <2>3, <3>1
    <3>2. CASE n = p  BY <1>1, <2>3, <3>2
    <3>3. CASE n > p
      <4>1. n - 1 \in 1..Len(list) /\ with[n] = list[n - 1]  BY <1>1, <2>2, <2>3, <3>3
      <4>. QED  BY <4>1
    <3>. QED  BY <1>1, <2>2, <2>3, <3>1, <3>2, <3>3
  <2>9. HasBoth(list, with, key)  BY <2>5, <2>6, <2>7, <2>8 DEF HasBoth, new
  <2>. QED  BY <2>9 DEF with
<1>. QED  BY <1>4, <1>5

(* Inserting at the search's result keeps every array sorted               *)
(* (mreposl.c:485-513).                                                    *)
THEOREM InsertsSorted == Spec => []InsertsInOrder
<1>1. InsertsInOrder
  <2>. SUFFICES ASSUME NEW keys \in SeqOf(SearchKeys, Cardinality(SearchKeys)), NEW k \in SearchKeys,
                       Ascending(ArrayOf(keys))
                PROVE  /\ Ascending(WithRes(ArrayOf(keys), k))
                       /\ KeysOf(WithRes(ArrayOf(keys), k)) = KeysOf(ArrayOf(keys)) \union {k}
    BY DEF InsertsInOrder
  <2>. DEFINE list == ArrayOf(keys)
              with == WithRes(list, k)
  <2>1. k \in Pairs  BY DEF Pairs
  <2>2. list \in Array
    <3>1. PICK n \in Nat : keys \in [1..n -> SearchKeys]
      <4>1. Cardinality(SearchKeys) \in Nat  BY FS_CardinalityType
      <4>. QED  BY <4>1 DEF SeqOf
    <3>2. Len(keys) = n  BY <3>1
    <3>3. \A i \in 1..n : [key |-> keys[i], values |-> <<>>] \in Resource
      <4>1. <<>> \in Chain  BY DEF Chain
      <4>. QED  BY <3>1, <4>1 DEF Resource, Pairs
    <3>4. list \in [1..n -> Resource]  BY <3>2, <3>3 DEF ArrayOf
    <3>. HIDE DEF list
    <3>5. list \in Seq(Resource)  BY <3>4
    <3>6. Ascending(list)  BY DEF list
    <3>. QED  BY <3>5, <3>6 DEF Array
  <2>. HIDE DEF list
  <2>3. HasBoth(list, with, k)  BY <2>1, <2>2, WithResHasBoth
  <2>. HIDE DEF with
  <2>4. Ascending(with)  BY <2>3 DEF HasBoth, Array
  <2>5. KeysOf(with) = KeysOf(list) \union {k}
    <3>1. ASSUME NEW n \in 1..Len(with) PROVE with[n].key \in KeysOf(list) \union {k}
      <4>1. CASE \E j \in 1..Len(list) : with[n] = list[j]  BY <4>1 DEF KeysOf
      <4>2. CASE with[n] = [key |-> k, values |-> <<>>]  BY <4>2
      <4>. QED  BY <2>3, <4>1, <4>2 DEF HasBoth
    <3>2. \A j \in 1..Len(list) : list[j].key \in KeysOf(with)
      BY <2>3 DEF HasBoth, KeysOf
    <3>3. k \in KeysOf(with)  BY <2>3 DEF HasBoth, KeysOf
    <3>. QED  BY <3>1, <3>2, <3>3 DEF KeysOf
  <2>. QED  BY <2>4, <2>5 DEF with, list
<1>. QED  BY <1>1, PTL

(* A value of a resource.                                                  *)
HoldsIn(list, k, t) ==
  \E j \in 1..Len(list) : list[j].key = k /\ \E l \in 1..Len(list[j].values) : list[j].values[l] = t

(* The array after a value was stored: the value is in front of the        *)
(* resource's chain.                                                       *)
IsStored(list, with, key, ts) ==
  /\ with \in Array
  /\ \A j \in 1..Len(list) : \E n \in 1..Len(with) :
       /\ with[n].key = list[j].key
       /\ with[n].values \in {list[j].values, Pushed(list[j].values, ts)}
  /\ \A n \in 1..Len(with) : \A l \in 1..Len(with[n].values) :
       \/ with[n].key = key /\ with[n].values[l] = ts
       \/ HoldsIn(list, with[n].key, with[n].values[l])

LEMMA PushedOnChain ==
  ASSUME NEW c \in Chain, NEW ts \in Nat, \A l \in 1..Len(c) : c[l] <= ts
  PROVE  /\ Pushed(c, ts) \in Chain /\ Len(Pushed(c, ts)) = Len(c) + 1
         /\ Pushed(c, ts)[1] = ts
         /\ \A l \in 1..Len(c) : Pushed(c, ts)[l + 1] = c[l]
         /\ \A l \in 1..Len(c) + 1 : Pushed(c, ts)[l] = IF l = 1 THEN ts ELSE c[l - 1]
<1>. DEFINE p == Pushed(c, ts)
<1>1. c \in Seq(Nat) /\ Len(c) \in Nat /\ \A i, j \in 1..Len(c) : i <= j => c[i] >= c[j]
  BY DEF Chain
<1>2. \A i \in 1..Len(c) : c[i] \in Nat  BY <1>1
<1>3. <<ts>> \in Seq(Nat) /\ Len(<<ts>>) = 1 /\ <<ts>>[1] = ts  OBVIOUS
<1>4. /\ p \in Seq(Nat) /\ Len(p) = Len(c) + 1
      /\ \A l \in 1..Len(c) + 1 : p[l] = IF l = 1 THEN ts ELSE c[l - 1]
  BY <1>1, <1>3, ConcatProperties DEF Pushed
<1>. HIDE DEF p
<1>5. \A i, j \in 1..Len(p) : i <= j => p[i] >= p[j]
  <2>. TAKE i, j \in 1..Len(p)
  <2>. HAVE i <= j
  <2>1. CASE i = 1
    <3>1. p[i] = ts  BY <1>1, <1>4, <2>1
    <3>2. p[j] = ts \/ (j - 1 \in 1..Len(c) /\ p[j] = c[j - 1])  BY <1>1, <1>4
    <3>. QED  BY <1>2, <3>1, <3>2
  <2>2. CASE i > 1
    <3>1. /\ p[i] = c[i - 1] /\ p[j] = c[j - 1]
          /\ i - 1 \in 1..Len(c) /\ j - 1 \in 1..Len(c) /\ i - 1 <= j - 1
      BY <1>1, <1>4, <2>2
    <3>. QED  BY <1>1, <3>1
  <2>. QED  BY <1>1, <1>4, <2>1, <2>2
<1>6. p \in Chain  BY <1>4, <1>5 DEF Chain
<1>. QED  BY <1>1, <1>4, <1>6 DEF p

LEMMA StoredInFront ==
  ASSUME NEW list \in Array, NEW key \in Pairs, NEW ts \in Nat,
         \A t \in Nat : HoldsIn(list, key, t) => t <= ts
  PROVE  IsStored(list, Stored(list, key, ts), key, ts)
<1>. DEFINE with == WithRes(list, key)
            i    == LocateRes(with, key)
            c    == with[i].values
            all  == Stored(list, key, ts)
<1>1. HasBoth(list, with, key)  BY WithResHasBoth
<1>. HIDE DEF with
<1>2. with \in Array  BY <1>1 DEF HasBoth
<1>3. i \in 1..Len(with) /\ with[i].key = key
  <2>1. PICK n \in 1..Len(with) : with[n].key = key  BY <1>1 DEF HasBoth
  <2>2. LocateRes(with, with[n].key) = n  BY <1>2, SearchHits
  <2>. QED  BY <2>1, <2>2
<1>4. all = [with EXCEPT ![i].values = Pushed(@, ts)]  BY DEF Stored, with
<1>. HIDE DEF i, all
<1>5. /\ with \in Seq(Resource) /\ Len(with) \in Nat /\ DOMAIN with = 1..Len(with)
      /\ \A n \in 1..Len(with) : with[n] \in Resource /\ with[n].key \in Pairs /\ with[n].values \in Chain
      /\ \A m, n \in 1..Len(with) : m < n => Before(with[m].key, with[n].key)
  BY <1>2, ArrayType
<1>6. ASSUME NEW n \in 1..Len(with), NEW l \in 1..Len(with[n].values)
      PROVE  with[n].values[l] \in Nat /\ HoldsIn(list, with[n].key, with[n].values[l])
  <2>1. with[n].values[l] \in Nat  BY <1>5 DEF Chain
  <2>2. with[n].values # <<>>  BY <1>5 DEF Chain
  <2>3. PICK j \in 1..Len(list) : with[n] = list[j]  BY <1>1, <2>2 DEF HasBoth
  <2>. QED  BY <2>1, <2>3 DEF HoldsIn
<1>7. /\ Pushed(c, ts) \in Chain /\ Len(Pushed(c, ts)) = Len(c) + 1
      /\ \A l \in 1..Len(c) + 1 : Pushed(c, ts)[l] = IF l = 1 THEN ts ELSE c[l - 1]
  <2>1. c \in Chain  BY <1>3, <1>5
  <2>2. \A l \in 1..Len(c) : c[l] <= ts  BY <1>3, <1>6
  <2>. HIDE DEF c
  <2>. QED  BY <2>1, <2>2, PushedOnChain
<1>8. /\ Len(all) = Len(with) /\ all \in Seq(Resource)
      /\ \A n \in 1..Len(with) : all[n].key = with[n].key
      /\ \A n \in 1..Len(with) : all[n].values = IF n = i THEN Pushed(c, ts) ELSE with[n].values
  <2>. DEFINE r == [key |-> with[i].key, values |-> Pushed(c, ts)]
  <2>1. with[i] \in Resource  BY <1>3, <1>5
  <2>2. [with[i] EXCEPT !.values = Pushed(@, ts)] = r  BY <2>1 DEF Resource
  <2>3. r \in Resource /\ r.key = with[i].key /\ r.values = Pushed(c, ts)  BY <1>3, <1>5, <1>7 DEF Resource
  <2>4. all = [with EXCEPT ![i] = r]  BY <1>4, <2>2
  <2>. HIDE DEF r
  <2>5. \A n \in 1..Len(with) : all[n] = IF n = i THEN r ELSE with[n]  BY <1>3, <1>5, <2>4
  <2>6. all \in Seq(Resource) /\ Len(all) = Len(with)  BY <1>3, <1>5, <2>3, <2>4
  <2>. QED  BY <2>3, <2>5, <2>6
<1>9. all \in Array
  <2>1. \A m, n \in 1..Len(all) : m < n => Before(all[m].key, all[n].key)  BY <1>5, <1>8
  <2>. QED  BY <1>8, <2>1 DEF Array, Ascending
<1>10. ASSUME NEW j \in 1..Len(list)
       PROVE  \E n \in 1..Len(all) :
                /\ all[n].key = list[j].key
                /\ all[n].values \in {list[j].values, Pushed(list[j].values, ts)}
  <2>1. PICK n \in 1..Len(with) : with[n] = list[j]  BY <1>1 DEF HasBoth
  <2>. QED  BY <1>8, <2>1
<1>11. ASSUME NEW n \in 1..Len(all), NEW l \in 1..Len(all[n].values)
       PROVE  \/ all[n].key = key /\ all[n].values[l] = ts
              \/ HoldsIn(list, all[n].key, all[n].values[l])
  <2>1. n \in 1..Len(with) /\ all[n].key = with[n].key  BY <1>8
  <2>2. CASE n = i
    <3>1. all[n].values = Pushed(c, ts) /\ all[n].key = key  BY <1>3, <1>8, <2>1, <2>2
    <3>2. Len(c) \in Nat /\ l \in 1..Len(c) + 1  BY <1>3, <1>5, <1>7, <3>1 DEF Chain
    <3>3. CASE l = 1  BY <1>7, <3>1, <3>2, <3>3
    <3>4. CASE l # 1
      <4>1. l - 1 \in 1..Len(c) /\ all[n].values[l] = c[l - 1]  BY <1>7, <3>1, <3>2, <3>4
      <4>. QED  BY <1>3, <1>6, <2>1, <2>2, <4>1
    <3>. QED  BY <3>3, <3>4
  <2>3. CASE n # i
    <3>1. all[n].values = with[n].values  BY <1>8, <2>1, <2>3
    <3>. QED  BY <1>6, <2>1, <3>1
  <2>. QED  BY <2>2, <2>3
<1>. QED  BY <1>9, <1>10, <1>11 DEF IsStored, all

-----------------------------------------------------------------------------
(* The invariant.                                                          *)

Entry     == [mid : Metrics, reslist : Array]
Delivered == [mid : Metrics, key : Keys, ts : Nat]

Types ==
  /\ header \in Seq(Entry)
  /\ now \in Nat /\ nextPrune \in Nat
  /\ pc \in [Writers -> {"idle", "schedule", "prune", "add"}]
  /\ value \in [Writers -> Delivered \union {NoValue}]
  /\ pruneTime \in [Writers -> Nat]

(* What a thread adds was sampled a moment ago, and it prunes for the time *)
(* at which it began.                                                      *)
Delivery ==
  \A w \in Writers : pc[w] # "idle" =>
    /\ value[w] \in Delivered /\ pruneTime[w] = value[w].ts
    /\ value[w].ts <= now /\ now <= value[w].ts + MaxDelay

OneAtATime ==
  \A v, w \in Writers :
    v # w /\ pc[v] # "idle" /\ pc[w] # "idle" =>
      value[v].mid # value[w].mid \/ value[v].key # value[w].key

Holds(h, m, k, t) == \E i \in 1..Len(h) : h[i].mid = m /\ HoldsIn(h[i].reslist, k, t)

(* What is stored is older than what is being added to the same resource.  *)
Newest ==
  \A m \in Metrics : \A k \in Pairs : \A t \in Nat : Holds(header, m, k, t) =>
    /\ t <= now
    /\ \A w \in Writers : pc[w] # "idle" /\ value[w].mid = m /\ value[w].key = k => t <= value[w].ts

(* The last time prune is due for: it is over, or a thread is about to do  *)
(* it, at that time or later.                                              *)
PruneIsDue ==
  /\ nextPrune <= now + PruneInterval
  /\ \/ \E w \in Writers : pc[w] = "prune" /\ pruneTime[w] + PruneInterval >= nextPrune
     \/ \A m \in Metrics : \A k \in Pairs : \A t \in Nat :
          Holds(header, m, k, t) => t > nextPrune - PruneInterval - Expiration

IInv == Types /\ Delivery /\ OneAtATime /\ Newest /\ PruneIsDue

-----------------------------------------------------------------------------
(* Pruning: what is left of a chain has not expired, and what is not has.  *)
LEMMA FreshCuts ==
  ASSUME NEW c \in Chain, NEW time \in Nat
  PROVE  /\ Fresh(c, time) \in Chain /\ Len(Fresh(c, time)) \in 0..Len(c)
         /\ \A l \in 1..Len(Fresh(c, time)) : Fresh(c, time)[l] = c[l] /\ c[l] > time - Expiration
         /\ \A l \in 1..Len(c) : c[l] > time - Expiration => l <= Len(Fresh(c, time))
<1>. DEFINE old   == {l \in 1..Len(c) : c[l] <= time - Expiration}
            first == SelectInSeq(c, LAMBDA v : v <= time - Expiration)
            f     == Fresh(c, time)
<1>1. /\ c \in Seq(Nat) /\ Len(c) \in Nat /\ \A l \in 1..Len(c) : c[l] \in Nat
      /\ \A i, j \in 1..Len(c) : i <= j => c[i] >= c[j]
      /\ Expiration \in Nat /\ time \in Nat
  BY DEF Chain
<1>2. first = IF old # {} THEN Min(old) ELSE 0  BY Zenon DEF SelectInSeq
<1>3. f = IF first = 0 THEN c ELSE SubSeq(c, 1, first - 1)  BY DEF Fresh
<1>. HIDE DEF first, f
<1>4. CASE old = {}
  <2>1. f = c  BY <1>2, <1>3, <1>4
  <2>2. \A l \in 1..Len(c) : c[l] > time - Expiration  BY <1>1, <1>4
  <2>3. f \in Chain /\ Len(f) \in 0..Len(c)  BY <1>1, <2>1
  <2>. QED  BY <1>1, <2>1, <2>2, <2>3 DEF f
<1>5. CASE old # {}
  <2>1. first \in old /\ \A l \in old : first <= l
    <3>1. PICK n \in old : \A m \in old : n <= m
      <4>1. old \subseteq Nat  BY <1>1
      <4>. HIDE DEF old
      <4>. QED  BY <1>5, <4>1, LeastNumber
    <3>2. Min(old) \in old /\ \A l \in old : Min(old) <= l  BY <3>1, Zenon DEF Min
    <3>. QED  BY <1>2, <1>5, <3>2
  <2>2. first \in 1..Len(c) /\ c[first] <= time - Expiration  BY <2>1
  <2>3. f = SubSeq(c, 1, first - 1)  BY <1>1, <1>3, <2>2
  <2>4. /\ f \in Seq(Nat) /\ Len(f) = first - 1
        /\ \A l \in 1..first - 1 : f[l] = c[l] /\ l \in 1..Len(c)
    BY <1>1, <2>2, <2>3, SubSeqProperties
  <2>5. \A l \in 1..first - 1 : c[l] > time - Expiration
    <3>. SUFFICES ASSUME NEW l \in 1..first - 1, ~(c[l] > time - Expiration) PROVE FALSE  OBVIOUS
    <3>1. l \in old /\ l < first  BY <1>1, <2>2, <2>4
    <3>. HIDE DEF old
    <3>. QED  BY <2>1, <2>2, <3>1
  <2>6. \A l \in 1..Len(c) : c[l] > time - Expiration => l <= first - 1
    <3>. SUFFICES ASSUME NEW l \in 1..Len(c), c[l] > time - Expiration, l >= first PROVE FALSE
      BY <1>1, <2>2
    <3>1. c[first] >= c[l]  BY <1>1, <2>2
    <3>. QED  BY <1>1, <2>2, <3>1
  <2>7. f \in Chain
    <3>1. ASSUME NEW i \in 1..Len(f), NEW j \in 1..Len(f), i <= j PROVE f[i] >= f[j]
      <4>1. f[i] = c[i] /\ f[j] = c[j] /\ i \in 1..Len(c) /\ j \in 1..Len(c)  BY <2>4
      <4>. QED  BY <1>1, <3>1, <4>1
    <3>. QED  BY <2>4, <3>1 DEF Chain
  <2>8. Len(f) \in 0..Len(c)  BY <1>1, <2>2, <2>4
  <2>. QED  BY <2>4, <2>5, <2>6, <2>7, <2>8 DEF f
<1>. QED  BY <1>4, <1>5

LEMMA ArrayPruned ==
  ASSUME NEW list \in Array, NEW time \in Nat
  PROVE  /\ PrunedList(list, time) \in Array /\ Len(PrunedList(list, time)) = Len(list)
         /\ \A j \in 1..Len(list) :
              /\ PrunedList(list, time)[j].key = list[j].key
              /\ PrunedList(list, time)[j].values = Fresh(list[j].values, time)
<1>. DEFINE new == PrunedList(list, time)
<1>1. /\ Len(list) \in Nat
      /\ \A j \in 1..Len(list) : list[j] \in Resource /\ list[j].key \in Pairs /\ list[j].values \in Chain
      /\ \A i, j \in 1..Len(list) : i < j => Before(list[i].key, list[j].key)
  BY ArrayType
<1>2. ASSUME NEW j \in 1..Len(list)
      PROVE  new[j] \in Resource /\ new[j].key = list[j].key /\ new[j].values = Fresh(list[j].values, time)
  <2>. DEFINE r == [key |-> list[j].key, values |-> Fresh(list[j].values, time)]
  <2>1. [list[j] EXCEPT !.values = Fresh(@, time)] = r  BY <1>1 DEF Resource
  <2>2. Fresh(list[j].values, time) \in Chain  BY <1>1, FreshCuts
  <2>3. new[j] = r  BY <2>1 DEF PrunedList
  <2>. QED  BY <1>1, <2>2, <2>3 DEF Resource
<1>3. new \in Seq(Resource) /\ Len(new) = Len(list)
  <2>1. new = [j \in 1..Len(list) |-> new[j]]  BY DEF PrunedList
  <2>2. new \in [1..Len(list) -> Resource]  BY <1>2, <2>1
  <2>. QED  BY <1>1, <2>2
<1>. HIDE DEF new
<1>4. Ascending(new)  BY <1>1, <1>2, <1>3 DEF Ascending
<1>. QED  BY <1>2, <1>3, <1>4 DEF Array, new

LEMMA HeaderPruned ==
  ASSUME header \in Seq(Entry), NEW time \in Nat
  PROVE  /\ Pruned(time) \in Seq(Entry) /\ Len(Pruned(time)) = Len(header)
         /\ \A i \in 1..Len(header) :
              /\ Pruned(time)[i].mid = header[i].mid
              /\ Len(Pruned(time)[i].reslist) = Len(header[i].reslist)
              /\ \A j \in 1..Len(header[i].reslist) :
                   /\ Pruned(time)[i].reslist[j].key = header[i].reslist[j].key
                   /\ Pruned(time)[i].reslist[j].values = Fresh(header[i].reslist[j].values, time)
<1>. DEFINE p == Pruned(time)
<1>1. Len(header) \in Nat /\ \A i \in 1..Len(header) : header[i] \in Entry  OBVIOUS
<1>2. p = [i \in 1..Len(header) |-> [header[i] EXCEPT !.reslist = PrunedList(@, time)]]  BY DEF Pruned
<1>. HIDE DEF p
<1>3. ASSUME NEW i \in 1..Len(header)
      PROVE  /\ p[i] = [mid |-> header[i].mid, reslist |-> PrunedList(header[i].reslist, time)]
             /\ header[i].mid \in Metrics /\ header[i].reslist \in Array
  <2>1. header[i] \in Entry  BY <1>1
  <2>. QED  BY <1>2, <2>1 DEF Entry
<1>4. ASSUME NEW i \in 1..Len(header)
      PROVE  /\ p[i] \in Entry /\ p[i].mid = header[i].mid
             /\ Len(p[i].reslist) = Len(header[i].reslist)
             /\ \A j \in 1..Len(header[i].reslist) :
                  /\ p[i].reslist[j].key = header[i].reslist[j].key
                  /\ p[i].reslist[j].values = Fresh(header[i].reslist[j].values, time)
  <2>1. /\ PrunedList(header[i].reslist, time) \in Array
        /\ Len(PrunedList(header[i].reslist, time)) = Len(header[i].reslist)
        /\ \A j \in 1..Len(header[i].reslist) :
             /\ PrunedList(header[i].reslist, time)[j].key = header[i].reslist[j].key
             /\ PrunedList(header[i].reslist, time)[j].values = Fresh(header[i].reslist[j].values, time)
    BY <1>3, ArrayPruned
  <2>. DEFINE new == PrunedList(header[i].reslist, time)
  <2>2. p[i] = [mid |-> header[i].mid, reslist |-> new]  BY <1>3
  <2>. HIDE DEF new
  <2>3. p[i].mid = header[i].mid /\ p[i].reslist = new  BY <2>2
  <2>4. p[i] \in Entry  BY <1>3, <2>1, <2>2 DEF Entry, new
  <2>. QED  BY <2>1, <2>3, <2>4 DEF new
<1>5. p \in Seq(Entry) /\ Len(p) = Len(header)
  <2>1. p = [i \in 1..Len(header) |-> p[i]]  BY <1>2
  <2>2. p \in [1..Len(header) -> Entry]  BY <1>4, <2>1
  <2>. QED  BY <1>1, <2>2
<1>. QED  BY <1>4, <1>5 DEF p

(* Pruning adds nothing, and what it leaves has not expired.               *)
LEMMA PrunedHolds ==
  ASSUME header \in Seq(Entry), NEW time \in Nat, NEW m, NEW k, NEW t, Holds(Pruned(time), m, k, t)
  PROVE  Holds(header, m, k, t) /\ t > time - Expiration
<1>. DEFINE p == Pruned(time)
<1>1. PICK i \in 1..Len(p) : p[i].mid = m /\ HoldsIn(p[i].reslist, k, t)  BY DEF Holds
<1>2. PICK j \in 1..Len(p[i].reslist) :
        p[i].reslist[j].key = k /\ \E l \in 1..Len(p[i].reslist[j].values) : p[i].reslist[j].values[l] = t
  BY <1>1 DEF HoldsIn
<1>3. PICK l \in 1..Len(p[i].reslist[j].values) : p[i].reslist[j].values[l] = t  BY <1>2
<1>. HIDE DEF p
<1>. DEFINE list == header[i].reslist
            c    == list[j].values
<1>4. /\ i \in 1..Len(header) /\ header[i].mid = m
      /\ j \in 1..Len(list) /\ list[j].key = k
      /\ p[i].reslist[j].values = Fresh(c, time)
  <2>1. /\ Len(p) = Len(header)
        /\ \A h \in 1..Len(header) :
             /\ p[h].mid = header[h].mid
             /\ Len(p[h].reslist) = Len(header[h].reslist)
             /\ \A n \in 1..Len(header[h].reslist) :
                  /\ p[h].reslist[n].key = header[h].reslist[n].key
                  /\ p[h].reslist[n].values = Fresh(header[h].reslist[n].values, time)
    BY HeaderPruned DEF p
  <2>2. i \in 1..Len(header) /\ header[i].mid = m  BY <1>1, <2>1
  <2>3. j \in 1..Len(list)  BY <2>1, <2>2
  <2>. QED  BY <1>2, <2>1, <2>2, <2>3
<1>5. c \in Chain
  <2>0. header[i] \in Entry  BY <1>4
  <2>1. list \in Array  BY <2>0 DEF Entry
  <2>. HIDE DEF list
  <2>. QED  BY <1>4, <2>1, ArrayType
<1>. HIDE DEF c
<1>6. l \in 1..Len(c) /\ c[l] = t /\ t > time - Expiration
  <2>1. l \in 1..Len(Fresh(c, time)) /\ Fresh(c, time)[l] = t  BY <1>3, <1>4
  <2>2. Len(Fresh(c, time)) \in 0..Len(c)  BY <1>5, FreshCuts
  <2>3. Fresh(c, time)[l] = c[l] /\ c[l] > time - Expiration  BY <1>5, <2>1, FreshCuts
  <2>4. Len(c) \in Nat  BY <1>5 DEF Chain
  <2>. QED  BY <2>1, <2>2, <2>3, <2>4
<1>7. HoldsIn(list, k, t)  BY <1>4, <1>6 DEF HoldsIn, c
<1>. QED  BY <1>4, <1>6, <1>7 DEF Holds

-----------------------------------------------------------------------------
(* Adding a value changes the list of its resource, in the metric's array. *)

LEMMA FoundIndex ==
  ASSUME header \in Seq(Entry), NEW m, LocateIndex(m) # 0
  PROVE  LocateIndex(m) \in 1..Len(header) /\ header[LocateIndex(m)].mid = m
<1>. DEFINE found == {i \in 1..Len(header) : header[i].mid = m}
<1>1. found # {} /\ LocateIndex(m) = CHOOSE i \in found : \A j \in found : i <= j
  BY DEF LocateIndex
<1>2. \E i \in found : \A j \in found : i <= j
  <2>1. found \subseteq Nat  OBVIOUS
  <2>. HIDE DEF found
  <2>. QED  BY <1>1, <2>1, LeastNumber
<1>3. LocateIndex(m) \in found
  <2>. HIDE DEF found
  <2>. QED  BY <1>1, <1>2, Zenon
<1>. QED  BY <1>3

HeaderAdded(w) ==
  /\ header' \in Seq(Entry)
  /\ \A i \in 1..Len(header) : \A j \in 1..Len(header[i].reslist) :
       \E n \in 1..Len(header'[i].reslist) :
         /\ header'[i].reslist[n].key = header[i].reslist[j].key
         /\ header'[i].reslist[n].values \in {header[i].reslist[j].values,
                                              Pushed(header[i].reslist[j].values, value[w].ts)}
  /\ \A m, k, t : Holds(header', m, k, t) =>
       \/ Holds(header, m, k, t)
       \/ m = value[w].mid /\ k = value[w].key /\ t = value[w].ts

LEMMA AddValueAdds ==
  ASSUME header \in Seq(Entry), NEW w \in Writers, value[w] \in Delivered, AddValue(w),
         \A t \in Nat : Holds(header, value[w].mid, value[w].key, t) => t <= value[w].ts
  PROVE  HeaderAdded(w)
<1>. DEFINE v    == value[w]
            with == IF LocateIndex(v.mid) = 0 THEN AddIndex(v.mid) ELSE header
            p    == IF LocateIndex(v.mid) = 0 THEN Len(with) ELSE LocateIndex(v.mid)
            list == with[p].reslist
            all  == Stored(list, v.key, v.ts)
<1>1. v.mid \in Metrics /\ v.key \in Pairs /\ v.ts \in Nat  BY DEF Delivered, Pairs
<1>2. header' = [with EXCEPT ![p].reslist = Stored(@, v.key, v.ts)]  BY DEF AddValue
<1>3. /\ with \in Seq(Entry) /\ Len(header) \in Nat /\ Len(with) \in {Len(header), Len(header) + 1}
      /\ \A i \in 1..Len(header) : with[i] = header[i]
      /\ \A i \in 1..Len(with) : i \notin 1..Len(header) => with[i] = [mid |-> v.mid, reslist |-> <<>>]
      /\ p \in 1..Len(with) /\ with[p].mid = v.mid
  <2>1. CASE LocateIndex(v.mid) = 0
    <3>. DEFINE e == [mid |-> v.mid, reslist |-> <<>>]
    <3>1. <<>> \in Array  BY DEF Array, Ascending
    <3>2. e \in Entry /\ e.mid = v.mid  BY <1>1, <3>1 DEF Entry
    <3>3. with = Append(header, e) /\ p = Len(with)  BY <2>1 DEF AddIndex
    <3>. HIDE DEF e, with, p
    <3>4. /\ with \in Seq(Entry) /\ Len(with) = Len(header) + 1 /\ Len(header) \in Nat
          /\ \A i \in 1..Len(header) : with[i] = header[i]
          /\ with[Len(header) + 1] = e
      BY <3>2, <3>3
    <3>. QED  BY <3>2, <3>3, <3>4 DEF e
  <2>2. CASE LocateIndex(v.mid) # 0
    <3>1. with = header /\ p = LocateIndex(v.mid)  BY <2>2
    <3>2. p \in 1..Len(header) /\ header[p].mid = v.mid  BY <2>2, <3>1, FoundIndex
    <3>. HIDE DEF with, p
    <3>. QED  BY <3>1, <3>2
  <2>. HIDE DEF with, p
  <2>. QED  BY <2>1, <2>2
<1>. HIDE DEF v, with, p
<1>4. \A i \in 1..Len(with) : with[i].mid \in Metrics /\ with[i].reslist \in Array
                              /\ with[i] = [mid |-> with[i].mid, reslist |-> with[i].reslist]
  <2>1. \A i \in 1..Len(with) : with[i] \in Entry  BY <1>3
  <2>. QED  BY <2>1 DEF Entry
<1>5. \A m, k, t : Holds(with, m, k, t) => Holds(header, m, k, t)
  <2>. TAKE m, k, t
  <2>. HAVE Holds(with, m, k, t)
  <2>1. PICK i \in 1..Len(with) : with[i].mid = m /\ HoldsIn(with[i].reslist, k, t)  BY DEF Holds
  <2>2. i \in 1..Len(header)
    <3>. SUFFICES ASSUME i \notin 1..Len(header) PROVE FALSE  OBVIOUS
    <3>1. with[i].reslist = <<>>  BY <1>3
    <3>. QED  BY <2>1, <3>1 DEF HoldsIn
  <2>. QED  BY <1>3, <2>1, <2>2 DEF Holds
<1>6. IsStored(list, all, v.key, v.ts)
  <2>1. list \in Array  BY <1>3, <1>4
  <2>2. \A t \in Nat : HoldsIn(list, v.key, t) => t <= v.ts
    <3>. TAKE t \in Nat
    <3>. HAVE HoldsIn(list, v.key, t)
    <3>1. Holds(with, v.mid, v.key, t)  BY <1>3 DEF Holds
    <3>2. Holds(header, v.mid, v.key, t)  BY <1>5, <3>1
    <3>. QED  BY <3>2 DEF v
  <2>. HIDE DEF list
  <2>. QED  BY <1>1, <2>1, <2>2, StoredInFront
<1>7. /\ header' \in Seq(Entry) /\ Len(header') = Len(with)
      /\ \A i \in 1..Len(with) : i # p => header'[i] = with[i]
      /\ header'[p].mid = v.mid /\ header'[p].reslist = all
  <2>. DEFINE e == [mid |-> v.mid, reslist |-> all]
  <2>1. [with[p] EXCEPT !.reslist = Stored(@, v.key, v.ts)] = e
    <3>1. with[p] = [mid |-> v.mid, reslist |-> list]  BY <1>3, <1>4
    <3>. QED  BY <3>1
  <2>2. header' = [with EXCEPT ![p] = e]  BY <1>2, <2>1
  <2>3. e \in Entry /\ e.mid = v.mid /\ e.reslist = all  BY <1>1, <1>6 DEF Entry, IsStored
  <2>. HIDE DEF e
  <2>. QED  BY <1>3, <2>2, <2>3
<1>. HIDE DEF list, all
<1>8. ASSUME NEW i \in 1..Len(header), NEW j \in 1..Len(header[i].reslist)
      PROVE  \E n \in 1..Len(header'[i].reslist) :
               /\ header'[i].reslist[n].key = header[i].reslist[j].key
               /\ header'[i].reslist[n].values \in {header[i].reslist[j].values,
                                                    Pushed(header[i].reslist[j].values, v.ts)}
  <2>1. i \in 1..Len(with) /\ with[i] = header[i]  BY <1>3
  <2>2. CASE i = p
    <3>1. header[i].reslist = list /\ header'[i].reslist = all  BY <1>7, <2>1, <2>2 DEF list
    <3>. QED  BY <1>6, <3>1 DEF IsStored
  <2>3. CASE i # p
    <3>1. header'[i] = header[i]  BY <1>7, <2>1, <2>3
    <3>. QED  BY <3>1
  <2>. QED  BY <2>2, <2>3
<1>9. ASSUME NEW m, NEW k, NEW t, Holds(header', m, k, t)
      PROVE  Holds(header, m, k, t) \/ (m = v.mid /\ k = v.key /\ t = v.ts)
  <2>1. PICK i \in 1..Len(header') : header'[i].mid = m /\ HoldsIn(header'[i].reslist, k, t)
    BY <1>9 DEF Holds
  <2>2. i \in 1..Len(with)  BY <1>7
  <2>3. CASE i = p
    <3>1. m = v.mid /\ HoldsIn(all, k, t)  BY <1>7, <2>1, <2>3
    <3>2. PICK j \in 1..Len(all) : all[j].key = k /\ \E l \in 1..Len(all[j].values) : all[j].values[l] = t
      BY <3>1 DEF HoldsIn
    <3>3. (k = v.key /\ t = v.ts) \/ HoldsIn(list, k, t)  BY <1>6, <3>2 DEF IsStored
    <3>4. HoldsIn(list, k, t) => Holds(with, m, k, t)  BY <1>3, <3>1 DEF Holds, list
    <3>. QED  BY <1>5, <3>1, <3>3, <3>4
  <2>4. CASE i # p
    <3>1. header'[i] = with[i]  BY <1>7, <2>2, <2>4
    <3>2. Holds(with, m, k, t)  BY <2>1, <2>2, <3>1 DEF Holds
    <3>. QED  BY <1>5, <3>2
  <2>. QED  BY <2>3, <2>4
<1>. QED  BY <1>7, <1>8, <1>9 DEF HeaderAdded, v

-----------------------------------------------------------------------------
(* The steps.                                                              *)

LEMMA Constants ==
  /\ Expiration \in Nat \ {0} /\ MaxDelay \in Nat /\ MaxDelay < Expiration
  /\ PruneInterval \in Nat
BY DEF PruneInterval

(* What a step leaves of the repository, and of what is being added.       *)
LEMMA StaysNewest ==
  ASSUME Newest, header' = header, now' \in Nat, now \in Nat, now <= now',
         \A w \in Writers : pc'[w] # "idle" =>
           (pc[w] # "idle" /\ value'[w] = value[w]) \/ value'[w].ts = now
  PROVE  Newest'
<1>. SUFFICES ASSUME NEW m \in Metrics, NEW k \in Pairs, NEW t \in Nat, Holds(header', m, k, t)
              PROVE  /\ t <= now'
                     /\ \A w \in Writers : pc'[w] # "idle" /\ value'[w].mid = m /\ value'[w].key = k
                                             => t <= value'[w].ts
  BY DEF Newest, Holds, HoldsIn
<1>1. Holds(header, m, k, t)  OBVIOUS
<1>2. /\ t <= now
      /\ \A w \in Writers : pc[w] # "idle" /\ value[w].mid = m /\ value[w].key = k => t <= value[w].ts
  BY <1>1 DEF Newest
<1>. QED  BY <1>2

LEMMA NothingDue ==
  ASSUME nextPrune' <= now' + PruneInterval,
         \A m \in Metrics : \A k \in Pairs : \A t \in Nat :
           Holds(header', m, k, t) => t > nextPrune' - PruneInterval - Expiration
  PROVE  PruneIsDue'
BY DEF PruneIsDue, Holds, HoldsIn

LEMMA LocalMetricAddKeepsIInv ==
  ASSUME IInv, NEW w \in Writers, NEW m \in Metrics, NEW k \in Keys, LocalMetricAdd(w, m, k)
  PROVE  IInv'
<1>. USE DEF At, Goto
<1>. DEFINE v == [mid |-> m, key |-> k, ts |-> now]
<1>1. /\ now \in Nat /\ v \in Delivered /\ v.mid = m /\ v.key = k /\ v.ts = now
      /\ pc[w] = "idle" /\ header' = header /\ now' = now /\ nextPrune' = nextPrune
  BY DEF IInv, Types, LocalMetricAdd, Delivered
<1>2. /\ value' = [value EXCEPT ![w] = v] /\ pruneTime' = [pruneTime EXCEPT ![w] = now]
      /\ \E l \in {"schedule", "add"} : pc' = [pc EXCEPT ![w] = l]
  BY DEF LocalMetricAdd
<1>3. \A u \in Writers : pc[u] # "idle" => value[u].mid # m \/ value[u].key # k
  BY DEF LocalMetricAdd
<1>. HIDE DEF v
<1>4. /\ value'[w] = v /\ pruneTime'[w] = now /\ pc'[w] \in {"schedule", "add"}
      /\ \A u \in Writers : u # w => pc'[u] = pc[u] /\ value'[u] = value[u] /\ pruneTime'[u] = pruneTime[u]
  BY <1>2 DEF IInv, Types
<1>5. Types'
  BY <1>1, <1>2 DEF IInv, Types
<1>6. Delivery'  BY <1>1, <1>4, Constants DEF IInv, Delivery
<1>7. OneAtATime'  BY <1>1, <1>3, <1>4 DEF IInv, OneAtATime
<1>8. Newest'  BY <1>1, <1>4, StaysNewest DEF IInv
<1>9. PruneIsDue'
  <2>1. CASE \E u \in Writers : pc[u] = "prune" /\ pruneTime[u] + PruneInterval >= nextPrune
    <3>1. PICK u \in Writers : pc[u] = "prune" /\ pruneTime[u] + PruneInterval >= nextPrune  BY <2>1
    <3>2. u # w  BY <1>1, <3>1
    <3>. QED  BY <1>1, <1>4, <3>1, <3>2 DEF IInv, PruneIsDue
  <2>2. CASE \A n \in Metrics : \A l \in Pairs : \A t \in Nat :
               Holds(header, n, l, t) => t > nextPrune - PruneInterval - Expiration
    <3>1. nextPrune' = nextPrune /\ now' = now /\ nextPrune <= now + PruneInterval
      BY <1>1 DEF IInv, PruneIsDue
    <3>2. \A n \in Metrics : \A l \in Pairs : \A t \in Nat :
            Holds(header', n, l, t) => t > nextPrune' - PruneInterval - Expiration
      BY <1>1, <2>2
    <3>. QED  BY <3>1, <3>2, NothingDue
  <2>. QED  BY <2>1, <2>2 DEF IInv, PruneIsDue
<1>. QED  BY <1>5, <1>6, <1>7, <1>8, <1>9 DEF IInv

LEMMA SchedulePruneKeepsIInv ==
  ASSUME IInv, NEW w \in Writers, SchedulePrune(w)
  PROVE  IInv'
<1>. USE DEF At, Goto
<1>1. /\ nextPrune' = pruneTime[w] + PruneInterval /\ pc[w] = "schedule"
      /\ pc' = [pc EXCEPT ![w] = "prune"]
      /\ UNCHANGED <<header, now, value, pruneTime>>
  BY DEF SchedulePrune
<1>2. /\ pc'[w] = "prune" /\ \A u \in Writers : u # w => pc'[u] = pc[u]
      /\ pruneTime[w] \in Nat /\ now \in Nat /\ pruneTime[w] <= now
  BY <1>1 DEF IInv, Types, Delivery
<1>3. Types'  BY <1>1, <1>2, Constants DEF IInv, Types
<1>4. Delivery'  BY <1>1, <1>2 DEF IInv, Delivery
<1>5. OneAtATime'  BY <1>1, <1>2 DEF IInv, OneAtATime
<1>6. Newest'  BY <1>1, <1>2, StaysNewest DEF IInv
<1>7. PruneIsDue'  BY <1>1, <1>2, Constants DEF PruneIsDue
<1>. QED  BY <1>3, <1>4, <1>5, <1>6, <1>7 DEF IInv

LEMMA PruneRepositoryKeepsIInv ==
  ASSUME IInv, NEW w \in Writers, PruneRepository(w)
  PROVE  IInv'
<1>. USE DEF At, Goto
<1>1. /\ header' = Pruned(pruneTime[w]) /\ pc[w] = "prune"
      /\ pc' = [pc EXCEPT ![w] = "add"]
      /\ UNCHANGED <<nextPrune, now, value, pruneTime>>
  BY DEF PruneRepository
<1>2. /\ pc'[w] = "add" /\ \A u \in Writers : u # w => pc'[u] = pc[u]
      /\ header \in Seq(Entry) /\ pruneTime[w] \in Nat /\ now \in Nat /\ nextPrune \in Nat
  BY <1>1 DEF IInv, Types
<1>3. \A m, k, t : Holds(header', m, k, t) => Holds(header, m, k, t) /\ t > pruneTime[w] - Expiration
  BY <1>1, <1>2, PrunedHolds
<1>4. Types'
  <2>1. header' \in Seq(Entry)  BY <1>1, <1>2, HeaderPruned
  <2>. QED  BY <1>1, <1>2, <2>1 DEF IInv, Types
<1>5. Delivery'  BY <1>1, <1>2 DEF IInv, Delivery
<1>6. OneAtATime'  BY <1>1, <1>2 DEF IInv, OneAtATime
<1>7. Newest'
  <2>. SUFFICES ASSUME NEW m \in Metrics, NEW k \in Pairs, NEW t \in Nat, Holds(header', m, k, t)
                PROVE  /\ t <= now
                       /\ \A u \in Writers : pc'[u] # "idle" /\ value[u].mid = m /\ value[u].key = k
                                               => t <= value[u].ts
    <3>1. now' = now /\ value' = value  BY <1>1
    <3>. QED  BY <3>1 DEF Newest, Holds, HoldsIn
  <2>1. Holds(header, m, k, t)  BY <1>3
  <2>. QED  BY <1>1, <1>2, <2>1 DEF IInv, Newest
<1>8. PruneIsDue'
  <2>. DEFINE Due(u) == pc[u] = "prune" /\ pruneTime[u] + PruneInterval >= nextPrune
  <2>0. /\ nextPrune' = nextPrune /\ nextPrune <= now + PruneInterval /\ now' = now
        /\ pruneTime' = pruneTime
    BY <1>1 DEF IInv, PruneIsDue
  <2>1. CASE \E u \in Writers : u # w /\ Due(u)
    BY <1>2, <2>0, <2>1 DEF PruneIsDue
  <2>2. CASE Due(w)
    <3>1. \A m \in Metrics : \A k \in Pairs : \A t \in Nat :
            Holds(header', m, k, t) => t > nextPrune - PruneInterval - Expiration
      BY <1>2, <1>3, <2>2, Constants
    <3>. QED  BY <2>0, <3>1 DEF PruneIsDue, Holds, HoldsIn
  <2>3. CASE \A m \in Metrics : \A k \in Pairs : \A t \in Nat :
               Holds(header, m, k, t) => t > nextPrune - PruneInterval - Expiration
    <3>1. \A m \in Metrics : \A k \in Pairs : \A t \in Nat :
            Holds(header', m, k, t) => t > nextPrune - PruneInterval - Expiration
      BY <1>3, <2>3
    <3>. QED  BY <2>0, <3>1 DEF PruneIsDue, Holds, HoldsIn
  <2>. QED  BY <2>1, <2>2, <2>3 DEF IInv, PruneIsDue
<1>. QED  BY <1>4, <1>5, <1>6, <1>7, <1>8 DEF IInv

LEMMA AddingWriterAdds ==
  ASSUME IInv, NEW w \in Writers, AddValue(w)
  PROVE  /\ HeaderAdded(w) /\ value[w] \in Delivered
         /\ value[w].mid \in Metrics /\ value[w].key \in Pairs /\ value[w].ts \in Nat
<1>1. pc[w] = "add"  BY DEF AddValue, At
<1>2. value[w] \in Delivered /\ header \in Seq(Entry)  BY <1>1 DEF IInv, Types, Delivery
<1>3. value[w].mid \in Metrics /\ value[w].key \in Pairs /\ value[w].ts \in Nat
  BY <1>2 DEF Delivered, Pairs
<1>4. \A t \in Nat : Holds(header, value[w].mid, value[w].key, t) => t <= value[w].ts
  BY <1>1, <1>3 DEF IInv, Newest
<1>. QED  BY <1>2, <1>3, <1>4, AddValueAdds

LEMMA AddValueKeepsIInv ==
  ASSUME IInv, NEW w \in Writers, AddValue(w)
  PROVE  IInv'
<1>. USE DEF At, Goto
<1>1. /\ pc[w] = "add" /\ pc' = [pc EXCEPT ![w] = "idle"]
      /\ value' = [value EXCEPT ![w] = NoValue] /\ pruneTime' = [pruneTime EXCEPT ![w] = 0]
      /\ UNCHANGED <<nextPrune, now>>
  BY DEF AddValue
<1>2. /\ pc'[w] = "idle"
      /\ \A u \in Writers : u # w => pc'[u] = pc[u] /\ value'[u] = value[u] /\ pruneTime'[u] = pruneTime[u]
      /\ now \in Nat /\ nextPrune \in Nat
  BY <1>1 DEF IInv, Types
<1>3. /\ HeaderAdded(w) /\ value[w].mid \in Metrics /\ value[w].key \in Pairs /\ value[w].ts \in Nat
      /\ value[w].ts <= now /\ now <= value[w].ts + MaxDelay
  BY <1>1, AddingWriterAdds DEF IInv, Delivery
<1>4. \A m, k, t : Holds(header', m, k, t) =>
        Holds(header, m, k, t) \/ (m = value[w].mid /\ k = value[w].key /\ t = value[w].ts)
  BY <1>3 DEF HeaderAdded
<1>5. Types'
  <2>1. header' \in Seq(Entry)  BY <1>3 DEF HeaderAdded
  <2>. QED  BY <1>1, <2>1 DEF IInv, Types
<1>6. Delivery'  BY <1>1, <1>2 DEF IInv, Delivery
<1>7. OneAtATime'  BY <1>2 DEF IInv, OneAtATime
<1>8. Newest'
  <2>. SUFFICES ASSUME NEW m \in Metrics, NEW k \in Pairs, NEW t \in Nat, Holds(header', m, k, t)
                PROVE  /\ t <= now
                       /\ \A u \in Writers : pc'[u] # "idle" /\ value'[u].mid = m /\ value'[u].key = k
                                               => t <= value'[u].ts
    BY <1>1 DEF Newest, Holds, HoldsIn
  <2>1. CASE Holds(header, m, k, t)  BY <1>2, <2>1 DEF IInv, Newest
  <2>2. CASE m = value[w].mid /\ k = value[w].key /\ t = value[w].ts
    <3>1. \A u \in Writers : u # w /\ pc[u] # "idle" => value[u].mid # m \/ value[u].key # k
      BY <1>1, <2>2 DEF IInv, OneAtATime
    <3>. QED  BY <1>2, <1>3, <2>2, <3>1
  <2>. QED  BY <1>4, <2>1, <2>2
<1>9. PruneIsDue'
  <2>0. nextPrune' = nextPrune /\ now' = now /\ nextPrune <= now + PruneInterval
    BY <1>1 DEF IInv, PruneIsDue
  <2>1. CASE \E u \in Writers : pc[u] = "prune" /\ pruneTime[u] + PruneInterval >= nextPrune
    <3>1. PICK u \in Writers : pc[u] = "prune" /\ pruneTime[u] + PruneInterval >= nextPrune  BY <2>1
    <3>2. u # w  BY <1>1, <3>1
    <3>. QED  BY <1>2, <2>0, <3>1, <3>2 DEF PruneIsDue
  <2>2. CASE \A m \in Metrics : \A k \in Pairs : \A t \in Nat :
               Holds(header, m, k, t) => t > nextPrune - PruneInterval - Expiration
    <3>1. value[w].ts > nextPrune - PruneInterval - Expiration  BY <1>2, <1>3, <2>0, Constants
    <3>2. \A m \in Metrics : \A k \in Pairs : \A t \in Nat :
            Holds(header', m, k, t) => t > nextPrune - PruneInterval - Expiration
      BY <1>4, <2>2, <3>1
    <3>. QED  BY <2>0, <3>2 DEF PruneIsDue, Holds, HoldsIn
  <2>. QED  BY <2>1, <2>2 DEF IInv, PruneIsDue
<1>. QED  BY <1>5, <1>6, <1>7, <1>8, <1>9 DEF IInv

LEMMA TickKeepsIInv ==
  ASSUME IInv, Tick
  PROVE  IInv'
<1>1. /\ now' = now + 1 /\ now \in Nat /\ nextPrune \in Nat
      /\ \A w \in Writers : pc[w] # "idle" => now < value[w].ts + MaxDelay
      /\ UNCHANGED <<header, nextPrune, pc, value, pruneTime>>
  BY DEF IInv, Types, Tick
<1>2. Types'  BY <1>1 DEF IInv, Types
<1>3. Delivery'
  <2>. SUFFICES ASSUME NEW w \in Writers, pc[w] # "idle"
                PROVE  /\ value[w] \in Delivered /\ pruneTime[w] = value[w].ts
                       /\ value[w].ts <= now + 1 /\ now + 1 <= value[w].ts + MaxDelay
    BY <1>1 DEF Delivery
  <2>1. value[w] \in Delivered /\ pruneTime[w] = value[w].ts /\ value[w].ts <= now
    BY DEF IInv, Delivery
  <2>2. value[w].ts \in Nat  BY <2>1 DEF Delivered
  <2>. QED  BY <1>1, <2>1, <2>2, Constants
<1>4. OneAtATime'  BY <1>1 DEF IInv, OneAtATime
<1>5. Newest'  BY <1>1, StaysNewest DEF IInv
<1>6. PruneIsDue'
  <2>1. nextPrune' <= now' + PruneInterval  BY <1>1, Constants DEF IInv, PruneIsDue
  <2>. QED  BY <1>1, <2>1 DEF IInv, PruneIsDue, Holds, HoldsIn
<1>. QED  BY <1>2, <1>3, <1>4, <1>5, <1>6 DEF IInv

LEMMA ShutdownKeepsIInv ==
  ASSUME IInv, LocalMetricShutdown
  PROVE  IInv'
<1>1. header' = <<>> /\ UNCHANGED <<nextPrune, now, pc, value, pruneTime>>
  BY DEF LocalMetricShutdown
<1>2. \A m, k, t : ~Holds(header', m, k, t)  BY <1>1 DEF Holds
<1>3. Types'  BY <1>1 DEF IInv, Types
<1>4. Delivery' /\ OneAtATime'  BY <1>1 DEF IInv, Delivery, OneAtATime
<1>5. Newest'
  <2>. SUFFICES ASSUME NEW m \in Metrics, NEW k \in Pairs, NEW t \in Nat, Holds(header', m, k, t)
                PROVE  /\ t <= now'
                       /\ \A w \in Writers : pc'[w] # "idle" /\ value'[w].mid = m /\ value'[w].key = k
                                               => t <= value'[w].ts
    BY DEF Newest, Holds, HoldsIn
  <2>. QED  BY <1>2
<1>6. PruneIsDue'  BY <1>1, <1>2 DEF IInv, PruneIsDue, Holds, HoldsIn
<1>. QED  BY <1>3, <1>4, <1>5, <1>6 DEF IInv

LEMMA InitIsIInv == Init => IInv
<1>. SUFFICES ASSUME Init PROVE IInv  OBVIOUS
<1>1. /\ header = <<>> /\ nextPrune = 0 /\ now = 1
      /\ pc = [w \in Writers |-> "idle"] /\ value = [w \in Writers |-> NoValue]
      /\ pruneTime = [w \in Writers |-> 0]
  BY DEF Init
<1>2. \A m, k, t : ~Holds(header, m, k, t)  BY <1>1 DEF Holds
<1>3. Types  BY <1>1 DEF Types
<1>4. Delivery /\ OneAtATime  BY <1>1 DEF Delivery, OneAtATime
<1>5. Newest  BY <1>2 DEF Newest
<1>6. PruneIsDue  BY <1>1, <1>2, Constants DEF PruneIsDue
<1>. QED  BY <1>3, <1>4, <1>5, <1>6 DEF IInv

LEMMA StutterKeepsIInv ==
  ASSUME IInv, UNCHANGED vars
  PROVE  IInv'
<1>. USE DEF vars
<1>1. Types' /\ Delivery' /\ OneAtATime'  BY DEF IInv, Types, Delivery, OneAtATime
<1>2. Newest'
  <2>1. now \in Nat /\ Newest  BY DEF IInv, Types
  <2>. QED  BY <2>1, StaysNewest
<1>3. PruneIsDue'  BY DEF IInv, PruneIsDue, Holds, HoldsIn
<1>. QED  BY <1>1, <1>2, <1>3 DEF IInv

(* Arrays are sorted and chains newest first, a value was sampled at most  *)
(* MaxDelay ago when it is stored and is newer than its resource's others, *)
(* and the prune that is due has been done or is about to be               *)
(* (mreposl.c, pruneRepository and LocalMetricAdd).                        *)
THEOREM RepositoryInvariant == Spec => []IInv
<1>1. IInv /\ [Next]_vars => IInv'
  <2>. SUFFICES ASSUME IInv, [Next]_vars PROVE IInv'  OBVIOUS
  <2>1. ASSUME NEW w \in Writers, NEW m \in Metrics, NEW k \in Keys, LocalMetricAdd(w, m, k) PROVE IInv'
    BY <2>1, LocalMetricAddKeepsIInv
  <2>2. ASSUME NEW w \in Writers, SchedulePrune(w) PROVE IInv'  BY <2>2, SchedulePruneKeepsIInv
  <2>3. ASSUME NEW w \in Writers, PruneRepository(w) PROVE IInv'  BY <2>3, PruneRepositoryKeepsIInv
  <2>4. ASSUME NEW w \in Writers, AddValue(w) PROVE IInv'  BY <2>4, AddValueKeepsIInv
  <2>5. CASE LocalMetricShutdown  BY <2>5, ShutdownKeepsIInv
  <2>6. CASE Tick  BY <2>6, TickKeepsIInv
  <2>7. CASE UNCHANGED vars  BY <2>7, StutterKeepsIInv
  <2>. QED  BY <2>1, <2>2, <2>3, <2>4, <2>5, <2>6, <2>7, Zenon DEF Next
<1>. QED  BY <1>1, InitIsIInv, PTL DEF Spec

(* When no prune is pending, nothing in the repository had expired at the  *)
(* last one, although nextPrune is read and written outside of the lock    *)
(* (mreposl.c:433-483).                                                    *)
THEOREM NothingIsOverdue == Spec => []NothingOverdue
<1>1. IInv => NothingOverdue
  <2>. SUFFICES ASSUME IInv, \A w \in Writers : pc[w] \notin {"schedule", "prune"},
                       NEW c \in Chains, NEW l \in 1..Len(c)
                PROVE  c[l] > nextPrune - PruneInterval - Expiration
    BY DEF NothingOverdue
  <2>1. PICK i \in 1..Len(header) : \E j \in 1..Len(header[i].reslist) : c = header[i].reslist[j].values
    BY DEF Chains, Reslists
  <2>2. PICK j \in 1..Len(header[i].reslist) : c = header[i].reslist[j].values  BY <2>1
  <2>3. header[i].mid \in Metrics /\ header[i].reslist \in Array
    <3>1. header[i] \in Entry  BY DEF IInv, Types
    <3>. QED  BY <3>1 DEF Entry
  <2>4. header[i].reslist[j].key \in Pairs /\ c \in Chain  BY <2>2, <2>3, ArrayType
  <2>5. c[l] \in Nat  BY <2>4 DEF Chain
  <2>6. Holds(header, header[i].mid, header[i].reslist[j].key, c[l])  BY <2>2 DEF Holds, HoldsIn
  <2>. QED  BY <2>3, <2>4, <2>5, <2>6 DEF IInv, PruneIsDue
<1>. QED  BY <1>1, RepositoryInvariant, PTL

-----------------------------------------------------------------------------
(* What has not expired is kept.                                           *)

LEMMA NumFreshKept ==
  ASSUME NEW c, NEW d, Len(c) \in Nat, Len(d) \in Nat, NEW s \in Nat,
         \A n \in 1..Len(c) : c[n] > now - Expiration => n + s \in 1..Len(d) /\ d[n + s] = c[n]
  PROVE  NumFresh(d) >= NumFresh(c)
<1>. DEFINE S == {n \in 1..Len(c) : c[n] > now - Expiration}
            T == {n \in 1..Len(d) : d[n] > now - Expiration}
            f == [n \in S |-> n + s]
<1>1. IsFiniteSet(T)
  <2>1. IsFiniteSet(1..Len(d))  BY FS_Interval
  <2>. QED  BY <2>1, FS_Subset
<1>2. f \in Injection(S, T)
  <2>1. f \in [S -> T]  OBVIOUS
  <2>2. \A m, n \in S : f[m] = f[n] => m = n  OBVIOUS
  <2>. HIDE DEF S, T, f
  <2>. QED  BY <2>1, <2>2 DEF Injection, IsInjective
<1>. HIDE DEF S, T, f
<1>3. Cardinality(S) <= Cardinality(T) /\ IsFiniteSet(S)  BY <1>1, <1>2, FS_Injection
<1>4. Cardinality(S) \in Nat /\ Cardinality(T) \in Nat  BY <1>1, <1>3, FS_CardinalityType
<1>5. NumFresh(c) = Cardinality(S) /\ NumFresh(d) = Cardinality(T)  BY DEF NumFresh, S, T
<1>. QED  BY <1>3, <1>4, <1>5

(* No step but the shutdown takes a value that has not expired, from any   *)
(* resource (mreposl.c:433-483).                                           *)
THEOREM FreshIsKept == Spec => KeepsFresh
<1>1. IInv /\ [Next]_vars => [KeepsEachFresh]_vars
  <2>. SUFFICES ASSUME IInv, [Next]_vars, header' # <<>>,
                       NEW i \in 1..Len(header), NEW j \in 1..Len(header[i].reslist)
                PROVE  \E n \in 1..Len(header'[i].reslist) :
                         /\ header'[i].reslist[n].key = header[i].reslist[j].key
                         /\ NumFresh(header'[i].reslist[n].values) >= NumFresh(header[i].reslist[j].values)
    BY DEF KeepsEachFresh
  <2>. DEFINE c == header[i].reslist[j].values
  <2>1. c \in Chain /\ Len(c) \in Nat
    <3>1. header[i] \in Entry  BY DEF IInv, Types
    <3>2. header[i].reslist \in Array  BY <3>1 DEF Entry
    <3>3. c \in Chain  BY <3>2, ArrayType
    <3>4. \A chain \in Chain : Len(chain) \in Nat  BY DEF Chain
    <3>. QED  BY <3>3, <3>4, Zenon
  <2>. HIDE DEF c
  <2>2. CASE header' = header
    <3>1. NumFresh(c) >= NumFresh(c)
      <4>1. \A n \in 1..Len(c) : c[n] > now - Expiration => n + 0 \in 1..Len(c) /\ c[n + 0] = c[n]  BY <2>1
      <4>. QED  BY <2>1, <4>1, NumFreshKept
    <3>. QED  BY <2>2, <3>1 DEF c
  <2>3. ASSUME NEW w \in Writers, PruneRepository(w)
        PROVE  \E n \in 1..Len(header'[i].reslist) :
                 /\ header'[i].reslist[n].key = header[i].reslist[j].key
                 /\ NumFresh(header'[i].reslist[n].values) >= NumFresh(c)
    <3>1. header' = Pruned(pruneTime[w]) /\ pc[w] = "prune"  BY <2>3 DEF PruneRepository, At
    <3>2. /\ header \in Seq(Entry) /\ pruneTime[w] \in Nat /\ pruneTime[w] <= now /\ now \in Nat
      BY <3>1 DEF IInv, Types, Delivery
    <3>. DEFINE d == Fresh(c, pruneTime[w])
    <3>3. /\ j \in 1..Len(header'[i].reslist) /\ header'[i].reslist[j].key = header[i].reslist[j].key
          /\ header'[i].reslist[j].values = d
      BY <3>1, <3>2, HeaderPruned DEF c
    <3>4. /\ Len(d) \in 0..Len(c)
          /\ \A l \in 1..Len(d) : d[l] = c[l]
          /\ \A l \in 1..Len(c) : c[l] > pruneTime[w] - Expiration => l <= Len(d)
      BY <2>1, <3>2, FreshCuts
    <3>. HIDE DEF d
    <3>5. \A n \in 1..Len(c) : c[n] > now - Expiration => n + 0 \in 1..Len(d) /\ d[n + 0] = c[n]
      <4>. SUFFICES ASSUME NEW n \in 1..Len(c), c[n] > now - Expiration
                    PROVE  n + 0 \in 1..Len(d) /\ d[n + 0] = c[n]
        OBVIOUS
      <4>1. c[n] \in Nat  BY <2>1 DEF Chain
      <4>2. c[n] > pruneTime[w] - Expiration  BY <3>2, <4>1, Constants
      <4>3. n <= Len(d) /\ n + 0 = n  BY <3>4, <4>2
      <4>. QED  BY <2>1, <3>4, <4>3
    <3>6. NumFresh(d) >= NumFresh(c)
      <4>1. Len(d) \in Nat  BY <2>1, <3>4
      <4>. QED  BY <2>1, <3>5, <4>1, NumFreshKept
    <3>. QED  BY <3>3, <3>6
  <2>4. ASSUME NEW w \in Writers, AddValue(w)
        PROVE  \E n \in 1..Len(header'[i].reslist) :
                 /\ header'[i].reslist[n].key = header[i].reslist[j].key
                 /\ NumFresh(header'[i].reslist[n].values) >= NumFresh(c)
    <3>1. HeaderAdded(w) /\ value[w].ts \in Nat  BY <2>4, AddingWriterAdds
    <3>2. PICK n \in 1..Len(header'[i].reslist) :
            /\ header'[i].reslist[n].key = header[i].reslist[j].key
            /\ header'[i].reslist[n].values \in {c, Pushed(c, value[w].ts)}
      BY <3>1 DEF HeaderAdded, c
    <3>3. NumFresh(c) >= NumFresh(c)
      <4>1. \A l \in 1..Len(c) : c[l] > now - Expiration => l + 0 \in 1..Len(c) /\ c[l + 0] = c[l]  BY <2>1
      <4>. QED  BY <2>1, <4>1, NumFreshKept
    <3>4. NumFresh(Pushed(c, value[w].ts)) >= NumFresh(c)
      <4>. DEFINE d == Pushed(c, value[w].ts)
      <4>1. Len(d) = Len(c) + 1 /\ \A l \in 1..Len(c) : d[l + 1] = c[l]
        <5>1. c \in Seq(Nat) /\ <<value[w].ts>> \in Seq(Nat)  BY <2>1, <3>1 DEF Chain
        <5>2. Len(<<value[w].ts>>) = 1  OBVIOUS
        <5>. QED  BY <2>1, <5>1, <5>2, ConcatProperties DEF Pushed
      <4>. HIDE DEF d
      <4>2. \A l \in 1..Len(c) : c[l] > now - Expiration => l + 1 \in 1..Len(d) /\ d[l + 1] = c[l]
        BY <2>1, <4>1
      <4>3. Len(d) \in Nat /\ 1 \in Nat  BY <2>1, <4>1
      <4>4. NumFresh(d) >= NumFresh(c)  BY <2>1, <4>2, <4>3, NumFreshKept
      <4>. QED  BY <4>4 DEF d
    <3>. QED  BY <3>2, <3>3, <3>4
  <2>5. ASSUME NEW w \in Writers, NEW m \in Metrics, NEW k \in Keys, LocalMetricAdd(w, m, k)
        PROVE  header' = header
    BY <2>5 DEF LocalMetricAdd
  <2>6. ASSUME NEW w \in Writers, SchedulePrune(w) PROVE header' = header  BY <2>6 DEF SchedulePrune
  <2>7. ~LocalMetricShutdown  BY DEF LocalMetricShutdown
  <2>8. Tick \/ UNCHANGED vars => header' = header  BY DEF Tick, vars
  <2>. QED  BY <2>2, <2>3, <2>4, <2>5, <2>6, <2>7, <2>8 DEF Next, c
<1>. QED  BY <1>1, RepositoryInvariant, PTL DEF Spec, KeepsFresh, KeepsEachFresh

-----------------------------------------------------------------------------
(* Retrieval: in a list with the newest value first, the values of a time  *)
(* range are neighbours, and the scan is followed from value to value.     *)

IsScan(values, from, to, max, f) ==
  f = [i \in 0..Len(values) |->
         IF i = 0 THEN NothingFound ELSE Looked(f[i - 1], i, values[i], from, to, max)]

(* The scan is defined.                                                    *)
LEMMA ScanExists ==
  ASSUME NEW values, Len(values) \in Nat, NEW from, NEW to, NEW max
  PROVE  \E f : IsScan(values, from, to, max, f)
<1>. DEFINE After(f, i)   == IF i = 0 THEN NothingFound ELSE Looked(f[i - 1], i, values[i], from, to, max)
            Reaches(n, f) == f = [i \in 0..n |-> After(f, i)]
            Failing       == {n \in Nat : ~ \E f : Reaches(n, f)}
<1>1. Failing = {}
  <2>. SUFFICES ASSUME Failing # {} PROVE FALSE  OBVIOUS
  <2>1. PICK n \in Failing : \A m \in Failing : n <= m
    <3>1. Failing \subseteq Nat  OBVIOUS
    <3>. HIDE DEF Failing
    <3>. QED  BY <3>1, LeastNumber
  <2>2. CASE n = 0
    <3>. DEFINE f == [i \in 0..0 |-> NothingFound]
    <3>1. \A i \in 0..0 : After(f, i) = NothingFound
      <4>1. \A i \in 0..0 : i = 0  OBVIOUS
      <4>. QED  BY <4>1
    <3>2. f = [i \in 0..0 |-> After(f, i)]  BY <3>1, Zenon
    <3>3. Reaches(0, f)  BY <3>2
    <3>. QED  BY <2>2, <3>3, Zenon
  <2>3. CASE n # 0
    <3>1. n \in Nat /\ n - 1 \in Nat /\ n - 1 \notin Failing
      <4>1. n \in Nat  OBVIOUS
      <4>2. n - 1 \in Nat /\ ~(n <= n - 1)  BY <2>3, <4>1
      <4>. HIDE DEF Failing
      <4>. QED  BY <2>1, <4>1, <4>2
    <3>2. PICK f : Reaches(n - 1, f)  BY <3>1, Zenon
    <3>. DEFINE g == [i \in 0..n |-> After(f, i)]
    <3>3. \A i \in 0..n - 1 : f[i] = After(f, i)  BY <3>2, Zenon
    <3>4. \A i \in 0..n : g[i] = After(f, i)  BY Zenon
    <3>5. \A i \in 0..n - 1 : i \in 0..n  BY <3>1
    <3>6. \A i \in 0..n - 1 : f[i] = g[i]  BY <3>3, <3>4, <3>5, Zenon
    <3>7. \A i \in 0..n : i = 0 \/ i - 1 \in 0..n - 1  BY <3>1
    <3>. HIDE DEF g
    <3>8. \A i \in 0..n : After(f, i) = After(g, i)  BY <3>6, <3>7, Zenon
    <3>9. g = [i \in 0..n |-> After(g, i)]  BY <3>8, Zenon DEF g
    <3>10. Reaches(n, g)  BY <3>9
    <3>. QED  BY <3>10, Zenon
  <2>. QED  BY <2>2, <2>3
<1>2. PICK f : Reaches(Len(values), f)  BY <1>1, Zenon
<1>. QED  BY <1>2, Zenon DEF IsScan

ScanBySteps(values, from, to, max, f) ==
  /\ Scan(values, from, to, max) = f[Len(values)]
  /\ f[0] = NothingFound
  /\ \A i \in 1..Len(values) : f[i] = Looked(f[i - 1], i, values[i], from, to, max)

(* The scan starts with nothing found and looks at one value after another.*)
LEMMA ScanSteps ==
  ASSUME NEW values, Len(values) \in Nat, NEW from, NEW to, NEW max
  PROVE  \E f : ScanBySteps(values, from, to, max, f)
<1>1. Scan(values, from, to, max) = (CHOOSE f : IsScan(values, from, to, max, f))[Len(values)]
  BY Zenon DEF Scan, IsScan
<1>2. PICK f : IsScan(values, from, to, max, f) /\ Scan(values, from, to, max) = f[Len(values)]
  BY <1>1, ScanExists, Zenon
<1>3. \A i \in 0..Len(values) :
        f[i] = IF i = 0 THEN NothingFound ELSE Looked(f[i - 1], i, values[i], from, to, max)
  BY <1>2, Zenon DEF IsScan
<1>4. 0 \in 0..Len(values) /\ \A i \in 1..Len(values) : i \in 0..Len(values) /\ i # 0  OBVIOUS
<1>5. f[0] = NothingFound  BY <1>3, <1>4, Zenon
<1>6. \A i \in 1..Len(values) : f[i] = Looked(f[i - 1], i, values[i], from, to, max)
  BY <1>3, <1>4, Zenon
<1>7. ScanBySteps(values, from, to, max, f)  BY <1>2, <1>5, <1>6, Zenon DEF ScanBySteps
<1>. QED  BY <1>7, Zenon

(* In a list with the newest value first, the values newer than a time are *)
(* at its beginning.                                                       *)
NewestFirst(values) == \A i, j \in 1..Len(values) : i < j => values[i] >= values[j]

LEMMA NewerFirst ==
  ASSUME NEW values \in Seq(Nat), NewestFirst(values), NEW time \in Int
  PROVE  /\ NumNewer(values, time) \in 0..Len(values)
         /\ \A i \in 1..Len(values) : values[i] > time <=> i <= NumNewer(values, time)
<1>. DEFINE n == Len(values)
            Bounds == {k \in Nat : k <= n /\ \A i \in 1..n : i > k => ~(values[i] > time)}
<1>1. n \in Nat /\ \A i \in 1..n : values[i] \in Nat  OBVIOUS
<1>2. \A i, j \in 1..n : i < j => values[i] >= values[j]  BY DEF NewestFirst
<1>3. PICK k \in Bounds : \A m \in Bounds : k <= m
  <2>1. n \in Bounds  BY <1>1
  <2>2. Bounds \subseteq Nat  OBVIOUS
  <2>. HIDE DEF Bounds
  <2>. QED  BY <2>1, <2>2, LeastNumber
<1>4. k \in 0..n /\ \A i \in 1..n : i > k => ~(values[i] > time)  BY <1>1, <1>3
<1>5. \A i \in 1..n : i <= k => values[i] > time
  <2>. SUFFICES ASSUME NEW i \in 1..n, i <= k PROVE values[i] > time  OBVIOUS
  <2>1. k \in 1..n /\ k - 1 \in Nat /\ k - 1 <= n /\ ~(k <= k - 1)  BY <1>1, <1>4
  <2>2. k - 1 \notin Bounds  BY <1>3, <2>1
  <2>3. PICK j \in 1..n : j > k - 1 /\ values[j] > time  BY <2>1, <2>2
  <2>4. j = k  BY <1>4, <2>1, <2>3
  <2>5. i = k \/ values[i] >= values[k]  BY <1>2, <2>1
  <2>6. values[i] \in Nat /\ values[k] \in Nat  BY <1>1, <2>1
  <2>. QED  BY <2>3, <2>4, <2>5, <2>6
<1>. HIDE DEF n
<1>6. {i \in 1..n : values[i] > time} = 1..k
  <2>1. \A i \in 1..n : values[i] > time <=> i <= k  BY <1>1, <1>4, <1>5
  <2>2. \A i : i \in 1..k <=> i \in 1..n /\ i <= k  BY <1>1, <1>4
  <2>. QED  BY <2>1, <2>2
<1>7. Cardinality(1..k) = k  BY <1>1, <1>4, FS_Interval
<1>8. NumNewer(values, time) = k  BY <1>6, <1>7 DEF NumNewer, n
<1>. QED  BY <1>1, <1>4, <1>5, <1>8 DEF n

FoundType == [first : Nat, num : Nat, over : BOOLEAN]

(* One more value, read case by case.                                      *)
LEMMA LooksOn ==
  ASSUME NEW s \in FoundType, NEW i \in Nat, NEW ts \in Int, NEW from \in Nat, NEW to \in Int, NEW max \in Nat,
         NEW t, t = Looked(s, i, ts, from, to, max)
  PROVE  /\ t \in FoundType
         /\ s.over \/ ~(from <= ts \/ (max = 2 /\ s.num = 1)) =>
              t.first = s.first /\ t.num = s.num /\ t.over
         /\ ~s.over /\ (from <= ts \/ (max = 2 /\ s.num = 1)) =>
              /\ to < ts => t = s
              /\ ~(to < ts) /\ s.num < max =>
                   /\ t.first = IF s.first = 0 THEN i ELSE s.first
                   /\ t.num = s.num + 1
                   /\ t.over <=> from = 0 /\ s.num + 1 = max
              /\ ~(to < ts) /\ ~(s.num < max) =>
                   t.first = (IF s.first = 0 THEN i ELSE s.first + 1) /\ t.num = s.num /\ ~t.over
<1>1. s.first \in Nat /\ s.num \in Nat /\ s.over \in BOOLEAN  BY DEF FoundType
<1>2. CASE s.over \/ ~(from <= ts \/ (max = 2 /\ s.num = 1))
  <2>1. t = [s EXCEPT !.over = TRUE]  BY <1>2, Zenon DEF Looked, GoesOn
  <2>. QED  BY <1>2, <2>1 DEF FoundType
<1>3. CASE ~s.over /\ (from <= ts \/ (max = 2 /\ s.num = 1)) /\ to < ts
  <2>1. t = s  BY <1>3, Zenon DEF Looked, GoesOn
  <2>. QED  BY <1>3, <2>1
<1>4. CASE ~s.over /\ (from <= ts \/ (max = 2 /\ s.num = 1)) /\ ~(to < ts) /\ s.num < max
  <2>. DEFINE begin == IF s.first = 0 THEN i ELSE s.first
              over  == from = 0 /\ s.num + 1 = max
  <2>1. t = [first |-> begin, num |-> s.num + 1, over |-> over]  BY <1>4, Zenon DEF Looked, GoesOn
  <2>2. begin \in Nat /\ over \in BOOLEAN /\ s.num + 1 \in Nat  BY <1>1
  <2>3. t \in FoundType /\ t.first = begin /\ t.num = s.num + 1 /\ t.over = over
    <3>. HIDE DEF begin, over
    <3>. QED  BY <2>1, <2>2 DEF FoundType
  <2>. QED  BY <1>4, <2>3
<1>5. CASE ~s.over /\ (from <= ts \/ (max = 2 /\ s.num = 1)) /\ ~(to < ts) /\ ~(s.num < max)
  <2>1. t = [s EXCEPT !.first = IF @ = 0 THEN i ELSE @ + 1]  BY <1>5, Zenon DEF Looked, GoesOn
  <2>. QED  BY <1>1, <1>5, <2>1 DEF FoundType
<1>. QED  BY <1>2, <1>3, <1>4, <1>5, Zenon

(* What the scan has found after i values, if the values of the range are  *)
(* those after the first a up to the first b: k of them, and maybe the one *)
(* before them in time.                                                    *)
Seen(i, a, b)         == IF i <= a THEN 0 ELSE IF i <= b THEN i - a ELSE b - a
Other(i, a, b, max)   == i > b /\ b - a = 1 /\ max = 2

AsExpected(s, i, a, b, from, max) ==
  /\ s \in FoundType
  /\ Seen(i, a, b) = 0 => s.first = 0
  /\ Seen(i, a, b) > 0 =>
       s.first = IF Seen(i, a, b) > max /\ from > 0 THEN a + 1 + (Seen(i, a, b) - max) ELSE a + 1
  /\ s.num = IF Other(i, a, b, max) THEN 2 ELSE IF Seen(i, a, b) > max THEN max ELSE Seen(i, a, b)
  /\ i <= b => (s.over <=> from = 0 /\ Seen(i, a, b) >= max)
  /\ i > b => (s.over <=> ~Other(i, a, b, max) \/ i > b + 1)

(* One more value keeps what was found as expected.                        *)
LEMMA LookedAsExpected ==
  ASSUME NEW n \in Nat, NEW b \in 0..n, NEW a \in 0..b, NEW from \in Nat, NEW to \in Int, NEW max \in Nat \ {0},
         from = 0 => b = n, NEW i \in 1..n, NEW ts \in Int,
         ts > to <=> i <= a, ts >= from <=> i <= b,
         NEW s, AsExpected(s, i - 1, a, b, from, max)
  PROVE  AsExpected(Looked(s, i, ts, from, to, max), i, a, b, from, max)
<1>. DEFINE t == Looked(s, i, ts, from, to, max)
<1>0. s \in FoundType /\ s.first \in Nat /\ s.num \in Nat /\ s.over \in BOOLEAN  BY DEF AsExpected, FoundType
<1>1. /\ t \in FoundType
      /\ s.over \/ ~(from <= ts \/ (max = 2 /\ s.num = 1)) =>
           t.first = s.first /\ t.num = s.num /\ t.over
      /\ ~s.over /\ (from <= ts \/ (max = 2 /\ s.num = 1)) =>
           /\ to < ts => t = s
           /\ ~(to < ts) /\ s.num < max =>
                /\ t.first = IF s.first = 0 THEN i ELSE s.first
                /\ t.num = s.num + 1
                /\ t.over <=> from = 0 /\ s.num + 1 = max
           /\ ~(to < ts) /\ ~(s.num < max) =>
                t.first = (IF s.first = 0 THEN i ELSE s.first + 1) /\ t.num = s.num /\ ~t.over
  BY <1>0, LooksOn
<1>2. (to < ts <=> i <= a) /\ (from <= ts <=> i <= b)  OBVIOUS
<1>. HIDE DEF t
<1>3. CASE i <= a
  <2>1. Seen(i - 1, a, b) = 0 /\ Seen(i, a, b) = 0  BY <1>3 DEF Seen
  <2>2. s.first = 0 /\ s.num = 0 /\ ~s.over  BY <1>3, <2>1 DEF AsExpected, Other
  <2>3. t = s  BY <1>1, <1>2, <1>3, <2>2
  <2>4. AsExpected(t, i, a, b, from, max)  BY <1>0, <1>3, <2>1, <2>2, <2>3 DEF AsExpected, Other
  <2>. QED  BY <2>4 DEF t
<1>4. CASE i > a /\ i <= b
  <2>. DEFINE k == i - a
  <2>0. k \in Nat \ {0} /\ k - 1 \in Nat  BY <1>4
  <2>1. Seen(i - 1, a, b) = k - 1 /\ Seen(i, a, b) = k /\ ~Other(i, a, b, max) /\ ~Other(i - 1, a, b, max)
    BY <1>4 DEF Seen, Other
  <2>2. /\ k - 1 = 0 => s.first = 0
        /\ k - 1 > 0 => s.first = IF k - 1 > max /\ from > 0 THEN a + 1 + (k - 1 - max) ELSE a + 1
        /\ s.num = IF k - 1 > max THEN max ELSE k - 1
        /\ s.over <=> from = 0 /\ k - 1 >= max
    BY <1>4, <2>1 DEF AsExpected
  <2>3. from <= ts /\ ~(to < ts)  BY <1>2, <1>4
  <2>4. /\ t.first = IF k > max /\ from > 0 THEN a + 1 + (k - max) ELSE a + 1
        /\ t.num = IF k > max THEN max ELSE k
        /\ t.over <=> from = 0 /\ k >= max
    <3>0. i = a + k  BY <1>4
    <3>. HIDE DEF k
    <3>1. CASE from = 0 /\ k > max  BY <1>0, <1>1, <2>0, <2>2, <2>3, <3>0, <3>1
    <3>2. CASE k <= max  BY <1>0, <1>1, <2>0, <2>2, <2>3, <3>0, <3>2
    <3>3. CASE from > 0 /\ k > max /\ k - 1 = max  BY <1>0, <1>1, <2>0, <2>2, <2>3, <3>0, <3>3
    <3>4. CASE from > 0 /\ k > max /\ k - 1 > max  BY <1>0, <1>1, <2>0, <2>2, <2>3, <3>0, <3>4
    <3>. QED  BY <2>0, <3>1, <3>2, <3>3, <3>4
  <2>5. AsExpected(t, i, a, b, from, max)  BY <1>1, <1>4, <2>0, <2>1, <2>4 DEF AsExpected
  <2>. QED  BY <2>5 DEF t
<1>5. CASE i > b
  <2>1. /\ Seen(i - 1, a, b) = b - a /\ Seen(i, a, b) = b - a /\ b - a \in Nat /\ from > 0
        /\ ~(from <= ts) /\ ~(to < ts)
    BY <1>2, <1>5 DEF Seen
  <2>2. /\ b - a = 0 => s.first = 0
        /\ b - a > 0 => s.first = IF b - a > max THEN a + 1 + (b - a - max) ELSE a + 1
    BY <2>1 DEF AsExpected
  <2>3. CASE b - a = 1 /\ max = 2
    <3>1. Other(i, a, b, max) /\ (Other(i - 1, a, b, max) <=> i > b + 1)  BY <1>5, <2>3 DEF Other
    <3>2. CASE i = b + 1
      <4>1. s.num = 1 /\ ~s.over /\ s.first = a + 1  BY <2>1, <2>2, <2>3, <3>1, <3>2 DEF AsExpected
      <4>2. t.num = 2 /\ ~t.over /\ t.first = a + 1  BY <1>1, <2>1, <2>3, <4>1
      <4>3. AsExpected(t, i, a, b, from, max)  BY <1>1, <1>5, <2>1, <2>3, <3>1, <3>2, <4>2 DEF AsExpected
      <4>. QED  BY <4>3 DEF t
    <3>3. CASE i > b + 1
      <4>1. s.num = 2 /\ s.first = a + 1  BY <2>1, <2>2, <2>3, <3>1, <3>3 DEF AsExpected
      <4>2. t.num = 2 /\ t.over /\ t.first = a + 1  BY <1>1, <2>1, <2>3, <4>1
      <4>3. AsExpected(t, i, a, b, from, max)  BY <1>1, <1>5, <2>1, <2>3, <3>1, <3>3, <4>2 DEF AsExpected
      <4>. QED  BY <4>3 DEF t
    <3>. QED  BY <1>5, <3>2, <3>3
  <2>4. CASE ~(b - a = 1 /\ max = 2)
    <3>1. ~Other(i, a, b, max) /\ ~Other(i - 1, a, b, max)  BY <2>4 DEF Other
    <3>2. s.num = IF b - a > max THEN max ELSE b - a  BY <2>1, <3>1 DEF AsExpected
    <3>3. ~(max = 2 /\ s.num = 1)  BY <2>1, <2>4, <3>2
    <3>4. t.first = s.first /\ t.num = s.num /\ t.over  BY <1>1, <2>1, <3>3
    <3>5. AsExpected(t, i, a, b, from, max)  BY <1>1, <1>5, <2>1, <2>2, <3>1, <3>2, <3>4 DEF AsExpected
    <3>. QED  BY <3>5 DEF t
  <2>. QED  BY <2>3, <2>4
<1>. QED  BY <1>3, <1>4, <1>5

(* At the end of the list, what was found is as expected.                  *)
LEMMA ScanFinds ==
  ASSUME NEW values \in Seq(Nat), NewestFirst(values),
         NEW from \in Nat, NEW to \in Int, from <= to, NEW max \in Nat \ {0},
         NEW a, a = NumNewer(values, to), NEW b, b = NumNewer(values, from - 1)
  PROVE  /\ b \in 0..Len(values) /\ a \in 0..b
         /\ AsExpected(Scan(values, from, to, max), Len(values), a, b, from, max)
<1>. DEFINE n == Len(values)
<1>1. n \in Nat /\ \A i \in 1..n : values[i] \in Nat  OBVIOUS
<1>2. /\ a \in 0..n /\ b \in 0..n
      /\ \A i \in 1..n : values[i] > to <=> i <= a
      /\ \A i \in 1..n : values[i] > from - 1 <=> i <= b
  <2>1. from - 1 \in Int  OBVIOUS
  <2>. QED  BY <2>1, NewerFirst
<1>. HIDE DEF n
<1>3. \A i \in 1..n : values[i] >= from <=> i <= b  BY <1>1, <1>2
<1>4. a <= b
  <2>. SUFFICES ASSUME a > b PROVE FALSE  BY <1>1, <1>2
  <2>1. a \in 1..n  BY <1>1, <1>2
  <2>2. values[a] > to /\ ~(values[a] >= from) /\ values[a] \in Nat  BY <1>1, <1>2, <1>3, <2>1
  <2>. QED  BY <2>2
<1>5. from = 0 => b = n
  <2>. SUFFICES ASSUME from = 0, n > b PROVE FALSE  BY <1>1, <1>2
  <2>1. n \in 1..n /\ values[n] >= from  BY <1>1, <1>2
  <2>. QED  BY <1>2, <1>3, <2>1
<1>6. PICK f : /\ Scan(values, from, to, max) = f[n] /\ f[0] = NothingFound
               /\ \A i \in 1..n : f[i] = Looked(f[i - 1], i, values[i], from, to, max)
  <2>1. Len(values) \in Nat  OBVIOUS
  <2>2. \E f : ScanBySteps(values, from, to, max, f)
    BY <2>1, ScanSteps
  <2>. QED  BY <2>2, Zenon DEF n, ScanBySteps
<1>. DEFINE Failing == {i \in Nat : i <= n /\ ~AsExpected(f[i], i, a, b, from, max)}
<1>7. Failing = {}
  <2>. SUFFICES ASSUME Failing # {} PROVE FALSE  OBVIOUS
  <2>1. PICK i \in Failing : \A j \in Failing : i <= j
    <3>1. Failing \subseteq Nat  OBVIOUS
    <3>. HIDE DEF Failing
    <3>. QED  BY <3>1, LeastNumber
  <2>2. CASE i = 0
    <3>1. Seen(0, a, b) = 0 /\ ~Other(0, a, b, max)  BY <1>2 DEF Seen, Other
    <3>2. NothingFound \in FoundType /\ NothingFound.first = 0 /\ NothingFound.num = 0 /\ NothingFound.over = FALSE
      BY DEF NothingFound, FoundType
    <3>3. AsExpected(NothingFound, 0, a, b, from, max)  BY <1>2, <3>1, <3>2 DEF AsExpected
    <3>. QED  BY <1>6, <2>1, <2>2, <3>3
  <2>3. CASE i # 0
    <3>1. i \in 1..n /\ i - 1 \in Nat /\ i - 1 <= n /\ ~(i <= i - 1)  BY <1>1, <2>3
    <3>2. i - 1 \notin Failing
      <4>. HIDE DEF Failing
      <4>. QED  BY <2>1, <3>1
    <3>3. AsExpected(f[i - 1], i - 1, a, b, from, max)  BY <3>1, <3>2
    <3>4. f[i] = Looked(f[i - 1], i, values[i], from, to, max)  BY <1>6, <3>1
    <3>5. AsExpected(Looked(f[i - 1], i, values[i], from, to, max), i, a, b, from, max)
      <4>1. a \in 0..b /\ values[i] \in Int  BY <1>1, <1>2, <1>4, <3>1
      <4>2. values[i] > to <=> i <= a  BY <1>2, <3>1
      <4>3. values[i] >= from <=> i <= b  BY <1>3, <3>1
      <4>. QED  BY <1>1, <1>2, <1>5, <3>1, <3>3, <4>1, <4>2, <4>3, LookedAsExpected
    <3>. QED  BY <2>1, <3>4, <3>5
  <2>. QED  BY <2>2, <2>3
<1>8. AsExpected(f[n], n, a, b, from, max)  BY <1>1, <1>7
<1>. QED  BY <1>1, <1>2, <1>4, <1>6, <1>8 DEF n

(* What is retrieved is what the reference says.                           *)
LEMMA RetrievesReference ==
  ASSUME NEW values \in Seq(Nat), NewestFirst(values),
         NEW from \in Nat, NEW to \in Int, from <= to, NEW max \in Nat \ {0},
         NEW found, found = Scan(values, from, to, max)
  PROVE  (IF found.num = 0 THEN <<>> ELSE SubSeq(values, found.first, found.first + found.num - 1))
           = Reference(values, from, to, max)
<1>. DEFINE n == Len(values)
            a == NumNewer(values, to)
            b == NumNewer(values, from - 1)
            reference == Reference(values, from, to, max)
<1>1. n \in Nat /\ b \in 0..n /\ a \in 0..b  BY ScanFinds
<1>2. AsExpected(found, n, a, b, from, max)  BY ScanFinds
<1>3. reference =
        CASE b - (a + 1) + 1 >= max /\ from = 0 -> SubSeq(values, a + 1, a + 1 + max - 1)
          [] b - (a + 1) + 1 >= max /\ from > 0 -> SubSeq(values, b - max + 1, b)
          [] b - (a + 1) + 1 = 1 /\ max = 2     -> SubSeq(values, b, IF b < n THEN b + 1 ELSE b)
          [] OTHER                -> SubSeq(values, a + 1, b)
  BY Zenon DEF Reference
<1>. HIDE DEF a, b, reference
<1>4. b - (a + 1) + 1 = b - a /\ a + 1 + max - 1 = a + max  BY <1>1
<1>5. /\ b - a >= max /\ from = 0 => reference = SubSeq(values, a + 1, a + max)
      /\ b - a >= max /\ from > 0 => reference = SubSeq(values, b - max + 1, b)
      /\ b - a = 1 /\ max = 2 => reference = SubSeq(values, b, IF b < n THEN b + 1 ELSE b)
      /\ ~(b - a >= max) /\ ~(b - a = 1 /\ max = 2) => reference = SubSeq(values, a + 1, b)
  <2>. HIDE DEF n
  <2>1. ASSUME b - a >= max, from = 0 PROVE reference = SubSeq(values, a + 1, a + max)
    <3>1. b - (a + 1) + 1 >= max /\ from = 0 /\ ~(from > 0) /\ ~(b - (a + 1) + 1 = 1 /\ max = 2)
      BY <1>1, <1>4, <2>1
    <3>2. reference = SubSeq(values, a + 1, a + 1 + max - 1)  BY <1>3, <3>1, Zenon
    <3>. QED  BY <1>4, <3>2
  <2>2. ASSUME b - a >= max, from > 0 PROVE reference = SubSeq(values, b - max + 1, b)
    <3>1. b - (a + 1) + 1 >= max /\ from > 0 /\ ~(from = 0) /\ ~(b - (a + 1) + 1 = 1 /\ max = 2)
      BY <1>1, <1>4, <2>2
    <3>. QED  BY <1>3, <3>1, Zenon
  <2>3. ASSUME b - a = 1, max = 2 PROVE reference = SubSeq(values, b, IF b < n THEN b + 1 ELSE b)
    <3>1. b - (a + 1) + 1 = 1 /\ ~(b - (a + 1) + 1 >= max)  BY <1>4, <2>3
    <3>. QED  BY <1>3, <2>3, <3>1
  <2>4. ASSUME ~(b - a >= max), ~(b - a = 1 /\ max = 2) PROVE reference = SubSeq(values, a + 1, b)
    <3>1. ~(b - (a + 1) + 1 >= max) /\ ~(b - (a + 1) + 1 = 1 /\ max = 2)  BY <1>4, <2>4
    <3>. QED  BY <1>3, <3>1
  <2>. QED  BY <2>1, <2>2, <2>3, <2>4
<1>6. /\ found.num \in Nat /\ found.first \in Nat
      /\ Seen(n, a, b) = b - a /\ (Other(n, a, b, max) <=> n > b /\ b - a = 1 /\ max = 2)
  <2>1. Seen(n, a, b) = b - a  BY <1>1 DEF Seen
  <2>. QED  BY <1>2, <2>1 DEF AsExpected, FoundType, Other
<1>7. /\ found.num = IF n > b /\ b - a = 1 /\ max = 2 THEN 2 ELSE IF b - a > max THEN max ELSE b - a
      /\ b - a > 0 => found.first = IF b - a > max /\ from > 0 THEN a + 1 + (b - a - max) ELSE a + 1
  BY <1>1, <1>2, <1>6 DEF AsExpected
<1>. HIDE DEF n
<1>8. CASE b - a >= max /\ from = 0
  <2>1. found.num = max /\ found.first = a + 1  BY <1>1, <1>7, <1>8
  <2>2. found.num # 0 /\ found.first + found.num - 1 = a + max  BY <1>1, <2>1
  <2>. QED  BY <1>5, <1>8, <2>1, <2>2 DEF reference
<1>9. CASE b - a >= max /\ from > 0
  <2>1. found.num = max /\ found.first = b - max + 1  BY <1>1, <1>7, <1>9
  <2>2. found.num # 0 /\ found.first + found.num - 1 = b  BY <1>1, <2>1
  <2>. QED  BY <1>5, <1>9, <2>1, <2>2 DEF reference
<1>10. CASE b - a = 1 /\ max = 2
  <2>1. found.num = (IF b < n THEN 2 ELSE 1) /\ found.first = a + 1  BY <1>1, <1>7, <1>10
  <2>2. found.num # 0 /\ found.first = b /\ found.first + found.num - 1 = (IF b < n THEN b + 1 ELSE b)
    BY <1>1, <1>10, <2>1
  <2>. QED  BY <1>5, <1>10, <2>2 DEF reference
<1>11. CASE ~(b - a >= max) /\ ~(b - a = 1 /\ max = 2)
  <2>1. found.num = b - a /\ (b # a => found.first = a + 1)  BY <1>1, <1>7, <1>11
  <2>2. CASE b = a
    <3>1. SubSeq(values, a + 1, b) = <<>> /\ found.num = 0  BY <1>1, <2>1, <2>2
    <3>. QED  BY <1>5, <1>11, <3>1 DEF reference
  <2>3. CASE b # a
    <3>1. found.num # 0 /\ found.first = a + 1 /\ found.first + found.num - 1 = b  BY <1>1, <2>1, <2>3
    <3>. QED  BY <1>5, <1>11, <3>1 DEF reference
  <2>. QED  BY <2>2, <2>3
<1>. QED  BY <1>1, <1>8, <1>9, <1>10, <1>11

(* Retrieval returns, for every list that the repository holds or that is  *)
(* sorted, and for every range and maximum, the values that the comment    *)
(* of _MetricRetrieveNoLock promises (see RetrievesRange).                 *)
THEOREM RetrievalIsRight == Spec => []RetrievesRange
<1>1. ASSUME IInv PROVE RetrievesRange
  <2>. SUFFICES ASSUME NEW c \in Lists, NEW from \in 0..MaxTime, NEW to \in -1..MaxTime,
                       NEW maxnum \in 0..3, to <= 0 \/ from <= to
                PROVE  MetricRetrieve(c, from, to, maxnum)
                         = Reference(c, from, Upto(from, to, maxnum), Atmost(maxnum))
    BY DEF RetrievesRange
  <2>1. c \in Seq(Nat) /\ NewestFirst(c)
    <3>1. CASE c \in Chains
      <4>1. PICK i \in 1..Len(header) : \E j \in 1..Len(header[i].reslist) : c = header[i].reslist[j].values
        BY <3>1 DEF Chains, Reslists
      <4>2. PICK j \in 1..Len(header[i].reslist) : c = header[i].reslist[j].values  BY <4>1
      <4>3. header[i] \in Entry  BY <1>1 DEF IInv, Types
      <4>4. c \in Chain  BY <4>2, <4>3, ArrayType DEF Entry
      <4>. QED  BY <4>4 DEF Chain, NewestFirst
    <3>2. CASE c \in SeqOf(1..MaxTime, MaxLength) /\ IsSorted(c, LAMBDA x, y : x >= y)
      <4>1. c \in UNION {[1..m -> 1..MaxTime] : m \in 0..MaxLength}  BY <3>2 DEF SeqOf
      <4>2. PICK m \in 0..MaxLength : c \in [1..m -> 1..MaxTime]  BY <4>1
      <4>3. m \in Nat  BY <4>2
      <4>4. c \in Seq(Nat)
        <5>1. \A i \in 1..m : c[i] \in Nat  BY <4>2
        <5>. QED  BY <4>2, <4>3, <5>1
      <4>5. NewestFirst(c)  BY <3>2 DEF IsSorted, NewestFirst
      <4>. QED  BY <4>4, <4>5
    <3>. QED  BY <3>1, <3>2, Zenon DEF Lists
  <2>2. Upto(from, to, maxnum) \in Int /\ from <= Upto(from, to, maxnum)  BY DEF Upto, Forever
  <2>3. Atmost(maxnum) \in Nat \ {0}  BY DEF Atmost, Unlimited
  <2>4. from \in Nat  OBVIOUS
  <2>. QED  BY <2>1, <2>2, <2>3, <2>4, RetrievesReference DEF MetricRetrieve
<1>. QED  BY <1>1, RepositoryInvariant, PTL
=============================================================================
