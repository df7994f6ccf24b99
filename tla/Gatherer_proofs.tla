--------------------------- MODULE Gatherer_proofs --------------------------
(***************************************************************************)
(* Proofs about the metric list of mlist.c, for any set of blocks, any     *)
(* intervals, either synchronisation level and any number of clients, and  *)
(* about the gatherer of gather.c and its threads of mretr.c, for any      *)
(* plugins and metrics, any number of retriever threads, any intervals and *)
(* any times at which plugins come and go.                                 *)
(***************************************************************************)
EXTENDS Gatherer, FiniteSetTheorems, SequenceTheorems, TLAPS

-----------------------------------------------------------------------------
(* Sequences: what taking out and putting in an element does.              *)

NoDuplicates(s) == \A i, j \in 1 .. Len(s) : s[i] = s[j] => i = j

(* InsertAt of the community modules: the elements after i move up.        *)
LEMMA InsertAtElements ==
  ASSUME NEW S, NEW s \in Seq(S), NEW e \in S, NEW i \in 1 .. Len(s) + 1
  PROVE  /\ InsertAt(s, i, e) \in Seq(S)
         /\ Len(InsertAt(s, i, e)) = Len(s) + 1
         /\ \A j \in 1 .. Len(s) + 1 :
              InsertAt(s, i, e)[j] = IF j < i THEN s[j] ELSE IF j = i THEN e ELSE s[j - 1]
<1>. DEFINE front == SubSeq(s, 1, i - 1)
            back  == SubSeq(s, i, Len(s))
<1>1. /\ front \in Seq(S) /\ Len(front) = i - 1
      /\ \A j \in 1 .. i - 1 : front[j] = s[j]
  BY SubSeqProperties
<1>2. /\ back \in Seq(S) /\ Len(back) = Len(s) - i + 1
      /\ \A j \in 1 .. Len(s) - i + 1 : back[j] = s[i + j - 1]
  BY SubSeqProperties
<1>3. InsertAt(s, i, e) = (front \o <<e>>) \o back  BY DEF InsertAt
<1>. HIDE DEF front, back
<1>4. <<e>> \in Seq(S) /\ Len(<<e>>) = 1 /\ <<e>>[1] = e  OBVIOUS
<1>5. /\ front \o <<e>> \in Seq(S) /\ Len(front \o <<e>>) = i
      /\ \A j \in 1 .. i : (front \o <<e>>)[j] = IF j < i THEN s[j] ELSE e
  BY <1>1, <1>4, ConcatProperties
<1>6. /\ InsertAt(s, i, e) \in Seq(S)
      /\ Len(InsertAt(s, i, e)) = Len(s) + 1
  <2>1. Len(s) \in Nat  OBVIOUS
  <2>2. /\ (front \o <<e>>) \o back \in Seq(S)
        /\ Len((front \o <<e>>) \o back) = Len(front \o <<e>>) + Len(back)
    BY <1>2, <1>5, ConcatProperties
  <2>3. i + (Len(s) - i + 1) = Len(s) + 1  BY <2>1
  <2>4. Len(InsertAt(s, i, e)) = i + (Len(s) - i + 1)  BY <2>2, <1>2, <1>3, <1>5
  <2>. QED  BY <2>2, <2>3, <2>4, <1>3
<1>7. ASSUME NEW j \in 1 .. Len(s) + 1
      PROVE  InsertAt(s, i, e)[j] = IF j < i THEN s[j] ELSE IF j = i THEN e ELSE s[j - 1]
  <2>1. CASE j <= i
    BY <2>1, <1>2, <1>3, <1>5, ConcatProperties
  <2>2. CASE j > i
    <3>1. InsertAt(s, i, e)[j] = back[j - i]
      BY <2>2, <1>2, <1>3, <1>5, ConcatProperties
    <3>2. back[j - i] = s[i + (j - i) - 1]  BY <2>2, <1>2
    <3>. QED  BY <2>2, <3>1, <3>2
  <2>. QED  BY <2>1, <2>2
<1>. QED  BY <1>6, <1>7

(* RemoveAt: the elements after i move down.                               *)
LEMMA RemoveAtElements ==
  ASSUME NEW S, NEW s \in Seq(S), NEW i \in 1 .. Len(s)
  PROVE  /\ RemoveAt(s, i) \in Seq(S)
         /\ Len(RemoveAt(s, i)) = Len(s) - 1
         /\ \A j \in 1 .. Len(s) - 1 :
              RemoveAt(s, i)[j] = IF j < i THEN s[j] ELSE s[j + 1]
<1>. DEFINE front == SubSeq(s, 1, i - 1)
            back  == SubSeq(s, i + 1, Len(s))
<1>1. /\ front \in Seq(S) /\ Len(front) = i - 1
      /\ \A j \in 1 .. i - 1 : front[j] = s[j]
  BY SubSeqProperties
<1>2. /\ back \in Seq(S) /\ Len(back) = Len(s) - i
      /\ \A j \in 1 .. Len(s) - i : back[j] = s[(i + 1) + j - 1]
  BY SubSeqProperties
<1>3. RemoveAt(s, i) = front \o back  BY DEF RemoveAt
<1>. HIDE DEF front, back
<1>4. /\ front \o back \in Seq(S)
      /\ Len(front \o back) = Len(front) + Len(back)
      /\ \A j \in 1 .. Len(front) + Len(back) :
           (front \o back)[j] = IF j <= Len(front) THEN front[j] ELSE back[j - Len(front)]
  BY <1>1, <1>2, ConcatProperties
<1>5. Len(front) + Len(back) = Len(s) - 1  BY <1>1, <1>2
<1>6. ASSUME NEW j \in 1 .. Len(s) - 1
      PROVE  (front \o back)[j] = IF j < i THEN s[j] ELSE s[j + 1]
  <2>1. CASE j < i
    BY <2>1, <1>1, <1>4, <1>5
  <2>2. CASE j >= i
    <3>1. (front \o back)[j] = back[j - (i - 1)]  BY <2>2, <1>1, <1>4, <1>5
    <3>2. back[j - (i - 1)] = s[(i + 1) + (j - (i - 1)) - 1]  BY <2>2, <1>2
    <3>. QED  BY <2>2, <3>1, <3>2
  <2>3. j < i \/ j >= i  OBVIOUS
  <2>. QED  BY <2>1, <2>2, <2>3
<1>7. RemoveAt(s, i) \in Seq(S) /\ Len(RemoveAt(s, i)) = Len(s) - 1
  BY <1>3, <1>4, <1>5
<1>8. ASSUME NEW j \in 1 .. Len(s) - 1
      PROVE  RemoveAt(s, i)[j] = IF j < i THEN s[j] ELSE s[j + 1]
  BY <1>3, <1>6
<1>. QED  BY <1>7, <1>8

(* Inserting adds one element to the set, and no duplicate if it is new.   *)
LEMMA InsertAtSet ==
  ASSUME NEW S, NEW s \in Seq(S), NEW e \in S, NEW i \in 1 .. Len(s) + 1,
         NoDuplicates(s), e \notin ToSet(s)
  PROVE  /\ ToSet(InsertAt(s, i, e)) = ToSet(s) \union {e}
         /\ NoDuplicates(InsertAt(s, i, e))
<1>. DEFINE r == InsertAt(s, i, e)
<1>1. /\ r \in Seq(S) /\ Len(r) = Len(s) + 1
      /\ \A j \in 1 .. Len(s) + 1 : r[j] = IF j < i THEN s[j] ELSE IF j = i THEN e ELSE s[j - 1]
  BY InsertAtElements
<1>. HIDE DEF r
<1>2. ToSet(r) \subseteq ToSet(s) \union {e}
  BY <1>1 DEF ToSet
<1>3. ASSUME NEW k \in 1 .. Len(s) PROVE s[k] \in ToSet(r)
  <2>1. CASE k < i  BY <2>1, <1>1 DEF ToSet
  <2>2. CASE k >= i
    <3>1. k + 1 \in 1 .. Len(r) /\ r[k + 1] = s[k]  BY <2>2, <1>1
    <3>. QED  BY <3>1, <1>1 DEF ToSet
  <2>. QED  BY <2>1, <2>2
<1>4. e \in ToSet(r)
  BY <1>1 DEF ToSet
<1>5. NoDuplicates(r)
  <2>1. \A k \in 1 .. Len(s) : s[k] # e  BY DEF ToSet
  <2>2. SUFFICES ASSUME NEW j \in 1 .. Len(s) + 1, NEW k \in 1 .. Len(s) + 1, j < k
                 PROVE  r[j] # r[k]
    BY <1>1 DEF NoDuplicates
  <2>3. \A m, n \in 1 .. Len(s) : s[m] = s[n] => m = n  BY DEF NoDuplicates
  <2>4. CASE k < i   BY <2>2, <2>3, <2>4, <1>1
  <2>5. CASE k = i   BY <2>1, <2>2, <2>5, <1>1
  <2>6. CASE j = i
    <3>1. r[j] = e /\ r[k] = s[k - 1] /\ k - 1 \in 1 .. Len(s)  BY <2>2, <2>6, <1>1
    <3>. QED  BY <3>1, <2>1
  <2>7. CASE j < i /\ k > i
    <3>1. r[j] = s[j] /\ r[k] = s[k - 1] /\ k - 1 \in 1 .. Len(s) /\ j \in 1 .. Len(s) /\ j # k - 1
      BY <2>2, <2>7, <1>1
    <3>. QED  BY <3>1, <2>3
  <2>8. CASE j > i
    <3>1. /\ r[j] = s[j - 1] /\ r[k] = s[k - 1] /\ j - 1 # k - 1
          /\ k - 1 \in 1 .. Len(s) /\ j - 1 \in 1 .. Len(s)
      BY <2>2, <2>8, <1>1
    <3>. QED  BY <3>1, <2>3
  <2>. QED  BY <2>2, <2>4, <2>5, <2>6, <2>7, <2>8
<1>6. ToSet(s) \subseteq ToSet(r)  BY <1>3 DEF ToSet
<1>. QED  BY <1>2, <1>4, <1>5, <1>6 DEF r

(* Removing takes one element from the set of a list without duplicates.   *)
LEMMA RemoveAtSet ==
  ASSUME NEW S, NEW s \in Seq(S), NEW i \in 1 .. Len(s), NoDuplicates(s)
  PROVE  /\ ToSet(RemoveAt(s, i)) = ToSet(s) \ {s[i]}
         /\ NoDuplicates(RemoveAt(s, i))
<1>. DEFINE r == RemoveAt(s, i)
<1>1. /\ r \in Seq(S) /\ Len(r) = Len(s) - 1
      /\ \A j \in 1 .. Len(s) - 1 : r[j] = IF j < i THEN s[j] ELSE s[j + 1]
  BY RemoveAtElements
<1>. HIDE DEF r
<1>2. ToSet(r) \subseteq ToSet(s) \ {s[i]}
  BY <1>1 DEF ToSet, NoDuplicates
<1>3. ASSUME NEW k \in 1 .. Len(s), k # i PROVE s[k] \in ToSet(r)
  <2>1. CASE k < i  BY <2>1, <1>1 DEF ToSet
  <2>2. CASE k > i
    <3>1. k - 1 \in 1 .. Len(r) /\ r[k - 1] = s[k]  BY <2>2, <1>1
    <3>. QED  BY <3>1, <1>1 DEF ToSet
  <2>. QED  BY <1>3, <2>1, <2>2
<1>4. NoDuplicates(r)
  BY <1>1 DEF NoDuplicates
<1>5. ToSet(s) \ {s[i]} \subseteq ToSet(r)  BY <1>3 DEF ToSet
<1>. QED  BY <1>2, <1>4, <1>5 DEF r

-----------------------------------------------------------------------------
(* Due times are natural numbers later than the time they are made from.   *)

(* FirstDue and FollowingDue, for any interval and any time.               *)
LEMMA DueTimes ==
  ASSUME NEW b \in Blocks, NEW t \in Nat
  PROVE  FirstDue(b, t) \in Nat /\ FollowingDue(b, t) \in Nat
<1>1. Interval[b] \in Nat \ {0}  BY IntervalAssumption
<1>2. t % Interval[b] \in 0 .. Interval[b] - 1  BY <1>1
<1>. QED  BY <1>1, <1>2, SyncLevelAssumption DEF FirstDue, FollowingDue

-----------------------------------------------------------------------------
(* The inductive invariant.  NeverLeftLocked needs BlocksAccountedFor: the *)
(* error return of ML_Relocate is unreachable because a held block is in   *)
(* the list or deleted; and that needs ChainHasNoDuplicates, or ML_Remove  *)
(* would leave a second link to a block it deallocates.                    *)
Inv ==
  /\ TypeOK
  /\ ChainHasNoDuplicates
  /\ BlocksAccountedFor
  /\ NeverLeftLocked

(* The empty list after ML_Init.                                           *)
LEMMA InitInv == MLInit => Inv
<1>. SUFFICES ASSUME MLInit PROVE Inv  OBVIOUS
<1>1. TypeOK  BY DEF MLInit, TypeOK, ProcessingStates
<1>2. ChainHasNoDuplicates /\ NeverLeftLocked
  BY DEF MLInit, ChainHasNoDuplicates, NeverLeftLocked
<1>3. BlocksAccountedFor  BY DEF MLInit, BlocksAccountedFor, Linked, ToSet
<1>. QED  BY <1>1, <1>2, <1>3 DEF Inv

(* What the calls do to the links.                                         *)

LEMMA InsertLinks ==
  ASSUME Inv, NEW b \in Blocks, ML_Insert(b)
  PROVE  /\ chain' \in Seq(Blocks) /\ NoDuplicates(chain')
         /\ ToSet(chain') = ToSet(chain) \union {b}
<1>. USE DEF Inv
<1>1. chain \in Seq(Blocks) /\ NoDuplicates(chain) /\ b \notin ToSet(chain)
  BY DEF TypeOK, ChainHasNoDuplicates, NoDuplicates, BlocksAccountedFor, Linked, ML_Insert
<1>2. PICK p \in 1 .. Len(chain) + 1 : chain' = InsertAt(chain, p, b)
  BY DEF ML_Insert
<1>. QED  BY <1>1, <1>2, InsertAtElements, InsertAtSet

LEMMA RemoveLinks ==
  ASSUME Inv, NEW b \in Blocks, ML_Remove(b)
  PROVE  /\ chain' \in Seq(Blocks) /\ NoDuplicates(chain')
         /\ ToSet(chain') = ToSet(chain) \ {b}
         /\ b \in ToSet(chain)
<1>. USE DEF Inv
<1>1. chain \in Seq(Blocks) /\ NoDuplicates(chain)
  BY DEF TypeOK, ChainHasNoDuplicates, NoDuplicates
<1>2. PICK i \in 1 .. Len(chain) : chain[i] = b /\ chain' = RemoveAt(chain, i)
  BY DEF ML_Remove
<1>3. b \in ToSet(chain)  BY <1>1, <1>2 DEF ToSet
<1>. QED  BY <1>1, <1>2, <1>3, RemoveAtElements, RemoveAtSet

LEMMA RelocateLinks ==
  ASSUME Inv, NEW b \in Blocks, RelocateLinked(b)
  PROVE  /\ chain' \in Seq(Blocks) /\ NoDuplicates(chain')
         /\ ToSet(chain') = ToSet(chain)
         /\ b \in ToSet(chain)
<1>. USE DEF Inv
<1>1. chain \in Seq(Blocks) /\ NoDuplicates(chain)
  BY DEF TypeOK, ChainHasNoDuplicates, NoDuplicates
<1>2. PICK i \in 1 .. Len(chain) :
        /\ chain[i] = b
        /\ \E p \in 1 .. Len(chain) : chain' = InsertAt(RemoveAt(chain, i), p, b)
  BY DEF RelocateLinked
<1>. DEFINE rest == RemoveAt(chain, i)
<1>3. /\ rest \in Seq(Blocks) /\ Len(rest) = Len(chain) - 1
      /\ ToSet(rest) = ToSet(chain) \ {b} /\ NoDuplicates(rest)
  BY <1>1, <1>2, RemoveAtElements, RemoveAtSet
<1>4. PICK p \in 1 .. Len(chain) : chain' = InsertAt(rest, p, b)  BY <1>2
<1>. HIDE DEF rest
<1>5. p \in 1 .. Len(rest) + 1  BY <1>1, <1>3
<1>6. chain' \in Seq(Blocks)  BY <1>3, <1>4, <1>5, InsertAtElements
<1>7. ToSet(chain') = ToSet(rest) \union {b} /\ NoDuplicates(chain')
  BY <1>3, <1>4, <1>5, InsertAtSet
<1>8. b \in ToSet(chain)  BY <1>1, <1>2 DEF ToSet
<1>. QED  BY <1>3, <1>6, <1>7, <1>8

(* Inserting a free block: MakeMB and ML_Relocate.                         *)
LEMMA InsertInv == ASSUME Inv, NEW b \in Blocks, ML_Insert(b) PROVE Inv'
<1>. USE DEF Inv
<1>1. chain' \in Seq(Blocks)  BY InsertLinks
<1>2. ToSet(chain') = ToSet(chain) \union {b} /\ NoDuplicates(chain')  BY InsertLinks
<1>3. TypeOK'  BY <1>1, DueTimes DEF ML_Insert, TypeOK, ProcessingStates
<1>4. BlocksAccountedFor'
  BY <1>2 DEF ML_Insert, BlocksAccountedFor, Linked, TypeOK
<1>. QED
  BY <1>2, <1>3, <1>4 DEF ChainHasNoDuplicates, NoDuplicates, NeverLeftLocked, ML_Insert

(* Unlinking a block: ML_Remove.                                           *)
LEMMA RemoveInv == ASSUME Inv, NEW b \in Blocks, ML_Remove(b) PROVE Inv'
<1>. USE DEF Inv
<1>1. chain' \in Seq(Blocks)  BY RemoveLinks
<1>2. ToSet(chain') = ToSet(chain) \ {b} /\ NoDuplicates(chain')  BY RemoveLinks
<1>3. TypeOK'  BY <1>1 DEF ML_Remove, TypeOK, ProcessingStates
<1>4. b \in ToSet(chain)  BY RemoveLinks
<1>5. BlocksAccountedFor'
  BY <1>2, <1>4 DEF ML_Remove, BlocksAccountedFor, Linked, TypeOK
<1>. QED
  BY <1>2, <1>3, <1>5 DEF ChainHasNoDuplicates, NoDuplicates, NeverLeftLocked, ML_Remove

(* Giving a block back: ML_Relocate.                                       *)
LEMMA RelocateInv == ASSUME Inv, NEW b \in Blocks, ML_Relocate(b) PROVE Inv'
<1>. USE DEF Inv
<1>1. /\ chain \in Seq(Blocks) /\ NoDuplicates(chain)
      /\ b \in held /\ processingState[b] \in {"IN_PROGRESS", "DELETED"}
  BY DEF TypeOK, ChainHasNoDuplicates, NoDuplicates, BlocksAccountedFor, ML_Relocate
<1>2. CASE RelocateDeleted(b)
  <2>1. TypeOK'  BY <1>2 DEF ML_Relocate, RelocateDeleted, TypeOK, ProcessingStates
  <2>2. BlocksAccountedFor'
    BY <1>2 DEF ML_Relocate, RelocateDeleted, BlocksAccountedFor, Linked, TypeOK
  <2>. QED
    BY <1>2, <2>1, <2>2 DEF RelocateDeleted, ChainHasNoDuplicates, NeverLeftLocked
<1>3. CASE RelocateLinked(b)
  <2>1. chain' \in Seq(Blocks)  BY <1>3, RelocateLinks
  <2>2. NoDuplicates(chain')  BY <1>3, RelocateLinks
  <2>3. b \in ToSet(chain)  BY <1>3, RelocateLinks
  <2>4. ToSet(chain') = ToSet(chain)  BY <1>3, RelocateLinks
  <2>5. TypeOK'
    BY <1>3, <2>1 DEF ML_Relocate, RelocateLinked, TypeOK, ProcessingStates
  <2>6. processingState[b] = "IN_PROGRESS"
    BY <1>1, <1>3 DEF RelocateLinked
  <2>7. BlocksAccountedFor'
    BY <1>3, <2>3, <2>4, <2>6
       DEF ML_Relocate, RelocateLinked, BlocksAccountedFor, Linked, TypeOK
  <2>. QED
    BY <1>3, <2>2, <2>5, <2>7
       DEF RelocateLinked, ChainHasNoDuplicates, NoDuplicates, NeverLeftLocked
<1>4. CASE RelocateNotFound(b)
  BY <1>1, <1>4 DEF RelocateNotFound, BlocksAccountedFor
<1>. QED  BY <1>2, <1>3, <1>4 DEF ML_Relocate

(* Selecting and reserving a block leave the list as it is.                *)
LEMMA SelectInv ==
  ASSUME Inv, NEW b \in Blocks, NEW t \in 0 .. now,
         ML_SelectNextDue(b, t) \/ ML_ReserveNextDue(b, t)
  PROVE  Inv'
<1>. USE DEF Inv
<1>1. t \in Nat  BY DEF TypeOK
<1>2. chain' = chain /\ mlmutex' = mlmutex
  BY DEF ML_SelectNextDue, ML_ReserveNextDue
<1>3. TypeOK'
  <2>1. CASE ML_SelectNextDue(b, t)
    BY <1>1, <2>1, DueTimes DEF ML_SelectNextDue, TypeOK, ProcessingStates
  <2>2. CASE ML_ReserveNextDue(b, t)
    BY <2>2 DEF ML_ReserveNextDue, TypeOK, ProcessingStates
  <2>. QED  BY <2>1, <2>2
<1>4. BlocksAccountedFor'
  <2>1. CASE ML_SelectNextDue(b, t)
    BY <2>1 DEF ML_SelectNextDue, IsDue, BlocksAccountedFor, Linked, TypeOK
  <2>2. CASE ML_ReserveNextDue(b, t)
    BY <2>2 DEF ML_ReserveNextDue, IsLater, BlocksAccountedFor, Linked, TypeOK
  <2>. QED  BY <2>1, <2>2
<1>. QED  BY <1>2, <1>3, <1>4 DEF ChainHasNoDuplicates, NeverLeftLocked

(* ML_Reset and ML_Finish, when no client holds a block.                   *)
LEMMA ResetInv == ASSUME Inv, held = {}, ML_Reset \/ ML_Finish PROVE Inv'
<1>. USE DEF Inv
<1>1. CASE ML_Reset
  <2>1. TypeOK'  BY <1>1, DueTimes DEF ML_Reset, TypeOK, ProcessingStates
  <2>2. BlocksAccountedFor'
    BY <1>1 DEF ML_Reset, BlocksAccountedFor, Linked, TypeOK
  <2>. QED
    BY <1>1, <2>1, <2>2 DEF ML_Reset, ChainHasNoDuplicates, NeverLeftLocked
<1>2. CASE ML_Finish
  <2>1. TypeOK'  BY <1>2 DEF ML_Finish, TypeOK, ProcessingStates
  <2>2. ToSet(chain') = {} /\ NoDuplicates(chain')
    BY <1>2 DEF ML_Finish, ToSet, NoDuplicates
  <2>3. BlocksAccountedFor'
    BY <1>2, <2>2 DEF ML_Finish, BlocksAccountedFor, Linked, TypeOK
  <2>. QED
    BY <1>2, <2>1, <2>2, <2>3
       DEF ML_Finish, ChainHasNoDuplicates, NoDuplicates, NeverLeftLocked
<1>. QED  BY <1>1, <1>2

(* Every call of the list keeps the invariant: one lemma per call.         *)
LEMMA NextInv == Inv /\ [MLNext]_mlvars => Inv'
<1>. SUFFICES ASSUME Inv, [MLNext]_mlvars PROVE Inv'  OBVIOUS
<1>1. CASE Tick
  BY <1>1 DEF Tick, Inv, TypeOK, ChainHasNoDuplicates, BlocksAccountedFor, Linked,
              NeverLeftLocked
<1>2. CASE UNCHANGED mlvars
  BY <1>2 DEF mlvars, Inv, TypeOK, ChainHasNoDuplicates, BlocksAccountedFor, Linked,
              NeverLeftLocked
<1>3. ASSUME NEW t \in 0 .. now, ML_NothingDue(t) PROVE Inv'
  BY <1>2, <1>3 DEF ML_NothingDue
<1>. QED
  BY <1>1, <1>2, <1>3, InsertInv, RemoveInv, RelocateInv, SelectInv, ResetInv DEF MLNext

(* The invariant of the metric list (mlist.c): its types, no double link,  *)
(* every block linked, held or free and never two of these, no error       *)
(* return that leaves the list locked.                                     *)
THEOREM Safety == MLSpec => []Inv
BY InitInv, NextInv, PTL DEF MLSpec

(* No leak, no use after free, no double link (mlist.c): every block is in *)
(* the list, or with the client that will deallocate it, or free.          *)
THEOREM AccountedFor == MLSpec => []BlocksAccountedFor
<1>1. Inv => BlocksAccountedFor  BY DEF Inv
<1>. QED  BY Safety, <1>1, PTL

(* ML_Relocate never returns with the list locked (mlist.c:184-185).       *)
THEOREM Unlocked == MLSpec => []NeverLeftLocked
<1>1. Inv => NeverLeftLocked  BY DEF Inv
<1>. QED  BY Safety, <1>1, PTL

-----------------------------------------------------------------------------
(* One sample in each interval.                                            *)

LEMMA Division ==
  ASSUME NEW i \in Nat \ {0}, NEW s \in Nat
  PROVE  s = i * (s \div i) + (s % i) /\ s % i \in 0 .. i - 1 /\ s \div i \in Nat
OBVIOUS

LEMMA Multiples ==
  ASSUME NEW i \in Nat \ {0}, NEW p \in Nat, NEW q \in Nat
  PROVE  /\ i * p \in Nat
         /\ p <= q => i * p <= i * q
         /\ i * p < i * q => p < q
OBVIOUS

(* A later first due time is not before, and what is due then is sampled   *)
(* in a later interval.                                                    *)
LEMMA LaterDue ==
  ASSUME SyncLevel = 1, NEW b \in Blocks, NEW s \in Nat, NEW t \in Nat
  PROVE  /\ s <= t => FollowingDue(b, s) <= FirstDue(b, t)
         /\ FollowingDue(b, s) <= t => s \div Interval[b] < t \div Interval[b]
<1>. DEFINE i == Interval[b]  p == s \div i  q == t \div i
            l == i * p        u == i * q     e == s % i     f == t % i
<1>1. i \in Nat \ {0}  BY IntervalAssumption
<1>2. FollowingDue(b, s) = s + i - e /\ FirstDue(b, t) = t - f + i  BY DEF FollowingDue, FirstDue
<1>3. s = l + e /\ e \in 0 .. i - 1 /\ p \in Nat  BY <1>1, Division
<1>4. t = u + f /\ f \in 0 .. i - 1 /\ q \in Nat  BY <1>1, Division
<1>5. ASSUME s <= t PROVE p <= q
  <2>. SUFFICES ASSUME q < p PROVE FALSE  BY <1>3, <1>4
  <2>. HIDE DEF p, q, i, e, f
  <2>1. u + i <= l
    <3>1. q + 1 <= p /\ q + 1 \in Nat  BY <1>3, <1>4
    <3>2. i * (q + 1) <= i * p  BY <1>1, <1>3, <3>1, Multiples
    <3>3. i * (q + 1) = i * q + i  BY <1>1, <1>4
    <3>. QED  BY <3>2, <3>3
  <2>2. l \in Nat /\ u \in Nat  BY <1>1, <1>3, <1>4, Multiples
  <2>. HIDE DEF l, u
  <2>. QED  BY <1>1, <1>3, <1>4, <1>5, <2>1, <2>2
<1>6. l \in Nat /\ u \in Nat
  <2>. HIDE DEF p, q, i
  <2>. QED  BY <1>1, <1>3, <1>4, Multiples
<1>7. s <= t => FollowingDue(b, s) <= FirstDue(b, t)
  <2>1. s <= t => l <= u
    <3>. HIDE DEF p, q, i
    <3>. QED  BY <1>1, <1>3, <1>4, <1>5, Multiples
  <2>. HIDE DEF l, u, e, f, i
  <2>. QED  BY <1>1, <1>2, <1>3, <1>4, <1>6, <2>1
<1>8. FollowingDue(b, s) <= t => p < q
  <2>1. FollowingDue(b, s) <= t => l < u
    <3>. HIDE DEF l, u, e, f, i
    <3>. QED  BY <1>1, <1>2, <1>3, <1>4, <1>6
  <2>. HIDE DEF p, q, i
  <2>. QED  BY <1>1, <1>3, <1>4, <2>1, Multiples
<1>. QED  BY <1>7, <1>8

(* A linked block that was selected is not due before the interval of that *)
(* selection is over.                                                      *)
DueInLaterInterval ==
  SyncLevel = 1 =>
    \A b \in Blocks :
      /\ sampledAt[b] <= now
      /\ sampledAt[b] # -1 /\ Linked(b) => FollowingDue(b, sampledAt[b]) <= nextSampleDue[b]

LEMMA DueInLaterIntervalInv == Inv /\ DueInLaterInterval /\ [MLNext]_mlvars => DueInLaterInterval'
<1>. SUFFICES ASSUME Inv, DueInLaterInterval, [MLNext]_mlvars, SyncLevel = 1,
                     NEW b \in Blocks
              PROVE  /\ sampledAt'[b] <= now'
                     /\ sampledAt'[b] # -1 /\ b \in ToSet(chain') =>
                          FollowingDue(b, sampledAt'[b]) <= nextSampleDue'[b]
  BY DEF DueInLaterInterval, FollowingDue, Linked
<1>1. TypeOK /\ chain \in Seq(Blocks) /\ NoDuplicates(chain)
  BY DEF Inv, TypeOK, ChainHasNoDuplicates, NoDuplicates
<1>2. /\ sampledAt[b] <= now
      /\ sampledAt[b] # -1 /\ b \in ToSet(chain) => FollowingDue(b, sampledAt[b]) <= nextSampleDue[b]
  BY DEF DueInLaterInterval, Linked
<1>3. sampledAt[b] # -1 => sampledAt[b] \in Nat /\ FollowingDue(b, sampledAt[b]) <= FirstDue(b, now)
  BY <1>1, <1>2, LaterDue DEF TypeOK
<1>4. CASE Tick  BY <1>1, <1>2, <1>4 DEF Tick, TypeOK
<1>5. CASE UNCHANGED mlvars  BY <1>2, <1>5 DEF mlvars
<1>6. ASSUME NEW c \in Blocks, ML_Insert(c)
      PROVE  /\ sampledAt'[b] <= now'
             /\ sampledAt'[b] # -1 /\ b \in ToSet(chain') =>
                  FollowingDue(b, sampledAt'[b]) <= nextSampleDue'[b]
  <2>1. ToSet(chain') = ToSet(chain) \union {c}  BY <1>6, InsertLinks
  <2>2. /\ nextSampleDue' = [nextSampleDue EXCEPT ![c] = FirstDue(c, now)]
        /\ sampledAt' = sampledAt /\ now' = now
    BY <1>6 DEF ML_Insert
  <2>. QED  BY <1>1, <1>2, <1>3, <2>1, <2>2 DEF TypeOK
<1>7. ASSUME NEW c \in Blocks, ML_Remove(c)
      PROVE  /\ sampledAt'[b] <= now'
             /\ sampledAt'[b] # -1 /\ b \in ToSet(chain') =>
                  FollowingDue(b, sampledAt'[b]) <= nextSampleDue'[b]
  <2>1. ToSet(chain') = ToSet(chain) \ {c}  BY <1>1, <1>7, RemoveLinks DEF Inv
  <2>. QED  BY <1>2, <1>7, <2>1 DEF ML_Remove
<1>8. ASSUME NEW c \in Blocks, ML_Relocate(c)
      PROVE  /\ sampledAt'[b] <= now'
             /\ sampledAt'[b] # -1 /\ b \in ToSet(chain') =>
                  FollowingDue(b, sampledAt'[b]) <= nextSampleDue'[b]
  <2>1. ToSet(chain') = ToSet(chain)
    <3>1. CASE RelocateLinked(c)  BY <1>1, <3>1, RelocateLinks DEF Inv
    <3>2. CASE ~RelocateLinked(c)
      BY <1>8, <3>2 DEF ML_Relocate, RelocateDeleted, RelocateNotFound
    <3>. QED  BY <3>1, <3>2
  <2>. QED  BY <1>2, <1>8, <2>1 DEF ML_Relocate
<1>9. ASSUME NEW c \in Blocks, NEW t \in 0 .. now, ML_SelectNextDue(c, t)
      PROVE  /\ sampledAt'[b] <= now'
             /\ sampledAt'[b] # -1 /\ b \in ToSet(chain') =>
                  FollowingDue(b, sampledAt'[b]) <= nextSampleDue'[b]
  <2>1. /\ nextSampleDue' = [nextSampleDue EXCEPT ![c] = FollowingDue(c, t)]
        /\ sampledAt' = [sampledAt EXCEPT ![c] = t] /\ chain' = chain /\ now' = now
    BY <1>9 DEF ML_SelectNextDue
  <2>2. t \in Nat /\ t <= now  BY <1>1 DEF TypeOK
  <2>3. FollowingDue(c, t) \in Nat  BY <2>2, DueTimes
  <2>4. CASE b = c  BY <1>1, <2>1, <2>2, <2>3, <2>4 DEF TypeOK
  <2>5. CASE b # c  BY <1>1, <1>2, <2>1, <2>5 DEF TypeOK
  <2>. QED  BY <2>4, <2>5
<1>10. ASSUME NEW c \in Blocks, NEW t \in 0 .. now, ML_ReserveNextDue(c, t) \/ ML_NothingDue(t)
       PROVE  UNCHANGED <<chain, nextSampleDue, sampledAt, now>>
  BY <1>10 DEF ML_ReserveNextDue, ML_NothingDue, mlvars
<1>11. CASE ML_Reset  BY <1>1, <1>2, <1>3, <1>11 DEF ML_Reset, Linked
<1>12. CASE ML_Finish
  <2>1. ToSet(chain') = {}  BY <1>12 DEF ML_Finish, ToSet
  <2>. QED  BY <1>2, <1>12, <2>1 DEF ML_Finish
<1>13. ASSUME NEW t \in 0 .. now, ML_NothingDue(t) PROVE UNCHANGED mlvars
  BY <1>13 DEF ML_NothingDue
<1>. QED  BY <1>2, <1>4, <1>5, <1>6, <1>7, <1>8, <1>9, <1>10, <1>11, <1>12, <1>13 DEF MLNext

(* A metric is selected at most once in each of its intervals, when they   *)
(* are aligned with the wall clock (mlist.c:126-131, 159-169), whichever   *)
(* client asks, and across ML_Reset and reloading.                         *)
THEOREM SampledOncePerInterval == MLSpec => OneSamplePerInterval
<1>1. MLInit => DueInLaterInterval  BY DEF MLInit, DueInLaterInterval
<1>2. Inv /\ DueInLaterInterval /\ [MLNext]_mlvars =>
        [SyncLevel = 1 =>
           \A b \in Blocks : sampledAt'[b] # sampledAt[b] /\ sampledAt[b] # -1 =>
             sampledAt[b] \div Interval[b] < sampledAt'[b] \div Interval[b]]_mlvars
  <2>. SUFFICES ASSUME Inv, DueInLaterInterval, MLNext, SyncLevel = 1, NEW b \in Blocks,
                       sampledAt'[b] # sampledAt[b], sampledAt[b] # -1
                PROVE  sampledAt[b] \div Interval[b] < sampledAt'[b] \div Interval[b]
    BY DEF mlvars
  <2>1. PICK t \in 0 .. now : ML_SelectNextDue(b, t)
    <3>1. ASSUME NEW c \in Blocks, NEW t \in 0 .. now, ML_SelectNextDue(c, t) PROVE b = c
      BY <3>1 DEF ML_SelectNextDue, Inv, TypeOK
    <3>2. sampledAt' # sampledAt  OBVIOUS
    <3>. QED
      BY <3>1, <3>2 DEF MLNext, Tick, ML_Insert, ML_Remove, ML_Relocate, ML_ReserveNextDue,
                        ML_NothingDue, ML_Reset, ML_Finish, mlvars
  <2>2. sampledAt'[b] = t /\ t \in Nat /\ sampledAt[b] \in Nat
    BY <2>1 DEF ML_SelectNextDue, Inv, TypeOK
  <2>3. nextSampleDue[b] <= t /\ Linked(b)
    BY <2>1 DEF ML_SelectNextDue, IsDue, Inv, BlocksAccountedFor
  <2>4. FollowingDue(b, sampledAt[b]) <= t
    <3>1. FollowingDue(b, sampledAt[b]) <= nextSampleDue[b]  BY <2>3 DEF DueInLaterInterval
    <3>2. FollowingDue(b, sampledAt[b]) \in Nat /\ nextSampleDue[b] \in Nat
      BY <2>2, DueTimes DEF Inv, TypeOK
    <3>. QED  BY <2>2, <2>3, <3>1, <3>2
  <2>. QED  BY <2>2, <2>4, LaterDue
<1>. QED  BY Safety, <1>1, <1>2, DueInLaterIntervalInv, PTL DEF MLSpec, OneSamplePerInterval

-----------------------------------------------------------------------------
(* The inductive invariant.                                                *)

Holding == {"sample", "running", "relocate"}
Working == Holding \union {"loop", "time", "select", "sleep", "sleeping", "nap", "napping"}
Labels  == Working \union {"none", "enter", "signal", "exited"}

(* The retrievers that have entered their loop and not left it.            *)
Active == {r \in Retrievers : rpc[r] \in Working}

GathererTypes ==
  /\ control \in {"none", "live"}
  /\ retrieverNum \in Nat
  /\ retrieverCmd \in {"REGULAR", "WAKEUP", "STOPALL"}
  /\ cpc \in {"none", "start", "main", "mainwait", "stop", "stopwait", "exited"}
  /\ rpc \in [Retrievers -> Labels]
  /\ mb \in [Retrievers -> Blocks \union {NoBlock}]
  /\ currentTime \in [Retrievers -> Nat]
  /\ sampling \in BOOLEAN /\ terminating \in BOOLEAN
  /\ loaded \in Seq(Plugins)
  /\ registered \subseteq Blocks
  /\ gpc \in {"idle", "joining", "adding", "notifying", "removing", "unregistering"}
  /\ plugin \in Plugins \union {NoPlugin}
  /\ todo \in Seq(Blocks)

(* The control structure lives from gather_start to the join of the        *)
(* controller, which ends only when it has stopped all retrievers.         *)
Phases ==
  /\ sampling <=> control = "live"
  /\ control = "live" <=> cpc # "none"
  /\ cpc = "start" => \A r \in Retrievers : rpc[r] = "none"
  /\ cpc \in {"stopwait", "exited"} => retrieverCmd = "STOPALL"
  /\ cpc = "exited" => retrieverNum = 0
  /\ gpc = "joining" => sampling
  /\ terminating /\ sampling => gpc = "joining"
  /\ ~HotPlug /\ sampling => gpc \in {"idle", "joining"}
  /\ gpc \in {"idle", "joining"} <=> plugin = NoPlugin

(* retrieverNum counts the retrievers at work.                             *)
Counted ==
  /\ control = "live" => retrieverNum = Cardinality(Active)
  /\ control = "none" => Active = {}

(* A block that is held has its own retriever, and the retriever knows it. *)
Holders ==
  /\ \A r \in Retrievers : IF rpc[r] \in Holding THEN mb[r] \in held ELSE mb[r] = NoBlock
  /\ \A b \in held : \E r \in Retrievers : mb[r] = b
  /\ \A r, s \in Retrievers : mb[r] = mb[s] /\ mb[r] # NoBlock => r = s

TimesPassed == \A r \in Retrievers : currentTime[r] <= now

(* The blocks of the plugin that comes or goes, and those of the others.   *)
Mine(b)  == plugin # NoPlugin /\ b \in ToSet(PluginBlocks[plugin])
Owned(b) == \E p \in ToSet(loaded) \ {plugin} : b \in ToSet(PluginBlocks[p])

(* The loops of metricplugin_add and metricplugin_remove: what is done has *)
(* left todo.                                                              *)
Progress ==
  /\ NoDuplicates(loaded)
  /\ plugin # NoPlugin =>
       plugin \in ToSet(loaded) /\ NoDuplicates(todo) /\ ToSet(todo) \subseteq ToSet(PluginBlocks[plugin])
  /\ gpc = "unregistering" => todo # <<>>
  /\ \A b \in Blocks :
       /\ ~Mine(b) => (b \in registered <=> Owned(b))
       /\ gpc \in {"adding", "notifying"} /\ Mine(b) => (b \in registered <=> b \notin ToSet(todo))
       /\ gpc \in {"removing", "unregistering"} /\ Mine(b) /\ b \in registered => b \in ToSet(todo)

(* The schedule and the registry agree but for the metric whose block was  *)
(* just removed.                                                           *)
Agreement ==
  \A b \in Blocks :
    IF gpc = "unregistering" /\ b = Head(todo) THEN ~Linked(b) ELSE Linked(b) <=> b \in registered

(* Without hot plugging no metric is unregistered while it is sampled.     *)
RunningIsRegistered ==
  ~HotPlug => \A r \in Retrievers : rpc[r] = "running" => mb[r] \in registered

ThreadsInv == Phases /\ Counted /\ Holders /\ TimesPassed /\ RunningIsRegistered

GInv == Inv /\ GathererTypes /\ ThreadsInv /\ Progress /\ Agreement
-----------------------------------------------------------------------------
(* Sequences and sets.                                                     *)

(* A loop over a list takes its elements one by one.                       *)
LEMMA HeadAndTail ==
  ASSUME NEW S, NEW s \in Seq(S), s # <<>>, NoDuplicates(s)
  PROVE  /\ Head(s) \in ToSet(s) /\ Head(s) \in S
         /\ Tail(s) \in Seq(S) /\ NoDuplicates(Tail(s))
         /\ ToSet(Tail(s)) = ToSet(s) \ {Head(s)}
<1>1. /\ Len(s) \in Nat \ {0} /\ Head(s) = s[1] /\ s[1] \in S
      /\ Tail(s) \in Seq(S) /\ Len(Tail(s)) = Len(s) - 1
      /\ \A i \in 1 .. Len(s) - 1 : Tail(s)[i] = s[i + 1]
  OBVIOUS
<1>2. NoDuplicates(Tail(s))  BY <1>1 DEF NoDuplicates
<1>3. ToSet(Tail(s)) \subseteq ToSet(s) \ {s[1]}  BY <1>1 DEF NoDuplicates, ToSet
<1>4. ASSUME NEW i \in 1 .. Len(s), s[i] # s[1] PROVE s[i] \in ToSet(Tail(s))
  <2>1. i - 1 \in 1 .. Len(s) - 1 /\ Tail(s)[i - 1] = s[i]  BY <1>1, <1>4
  <2>2. DOMAIN Tail(s) = 1 .. Len(s) - 1  BY <1>1
  <2>. QED  BY <2>1, <2>2 DEF ToSet
<1>5. ToSet(s) \ {s[1]} \subseteq ToSet(Tail(s))  BY <1>4 DEF ToSet
<1>6. Head(s) \in ToSet(s)  BY <1>1 DEF ToSet
<1>. QED  BY <1>1, <1>2, <1>3, <1>5, <1>6

LEMMA AppendNew ==
  ASSUME NEW S, NEW s \in Seq(S), NEW e \in S, NoDuplicates(s), e \notin ToSet(s)
  PROVE  /\ Append(s, e) \in Seq(S) /\ NoDuplicates(Append(s, e))
         /\ ToSet(Append(s, e)) = ToSet(s) \union {e}
<1>. DEFINE r == Append(s, e)
<1>1. /\ r \in Seq(S) /\ Len(r) = Len(s) + 1 /\ r[Len(s) + 1] = e
      /\ \A i \in 1 .. Len(s) : r[i] = s[i]
      /\ Len(s) \in Nat
  OBVIOUS
<1>. HIDE DEF r
<1>2. ToSet(r) \subseteq ToSet(s) \union {e}
  <2>. SUFFICES ASSUME NEW i \in 1 .. Len(r) PROVE r[i] \in ToSet(s) \union {e}  BY DEF ToSet
  <2>1. CASE i = Len(s) + 1  BY <1>1, <2>1
  <2>2. CASE i \in 1 .. Len(s)  BY <1>1, <2>2 DEF ToSet
  <2>. QED  BY <1>1, <2>1, <2>2
<1>3. ToSet(s) \union {e} \subseteq ToSet(r)
  <2>1. Len(s) + 1 \in 1 .. Len(r) /\ \A i \in 1 .. Len(s) : i \in 1 .. Len(r)  BY <1>1
  <2>. QED  BY <1>1, <2>1 DEF ToSet
<1>4. NoDuplicates(r)
  <2>1. \A i \in 1 .. Len(s) : s[i] # e  BY DEF ToSet
  <2>. QED  BY <1>1, <2>1 DEF NoDuplicates
<1>. QED  BY <1>1, <1>2, <1>3, <1>4 DEF r

(* No two definitions share a block.                                       *)
LEMMA BlocksOfPlugins ==
  /\ \A p \in Plugins :
       /\ PluginBlocks[p] \in Seq(Blocks) /\ NoDuplicates(PluginBlocks[p])
       /\ ToSet(PluginBlocks[p]) \subseteq Blocks
  /\ \A p, q \in Plugins : \A b \in ToSet(PluginBlocks[p]) : b \in ToSet(PluginBlocks[q]) => p = q
<1>1. \A p \in Plugins : PluginBlocks[p] \in Seq(Blocks)  BY PluginBlocksAssumption
<1>2. \A p \in Plugins : NoDuplicates(PluginBlocks[p])
  BY PluginBlocksAssumption DEF NoDuplicates
<1>3. \A p \in Plugins : ToSet(PluginBlocks[p]) \subseteq Blocks  BY <1>1 DEF ToSet
<1>4. \A p, q \in Plugins : \A b \in ToSet(PluginBlocks[p]) : b \in ToSet(PluginBlocks[q]) => p = q
  BY PluginBlocksAssumption DEF ToSet
<1>. QED  BY <1>1, <1>2, <1>3, <1>4

(* There are finitely many retrievers, so those at work can be counted.    *)
LEMMA ActiveIsFinite ==
  /\ IsFiniteSet(Active) /\ Cardinality(Active) \in Nat
  /\ Cardinality(Active) = 0 <=> Active = {}
<1>1. Active \in SUBSET Retrievers  BY DEF Active
<1>2. IsFiniteSet(Active)  BY <1>1, RetrieversAssumption, FS_Subset
<1>. QED  BY <1>2, FS_CardinalityType, FS_EmptySet

(* While the gatherer does not sample, no retriever is at work.            *)
LEMMA Quiet ==
  ASSUME GInv, ~sampling
  PROVE  control = "none" /\ cpc = "none" /\ Active = {} /\ held = {}
<1>1. control = "none" /\ cpc = "none"  BY DEF GInv, ThreadsInv, Phases, GathererTypes
<1>2. Active = {}  BY <1>1 DEF GInv, ThreadsInv, Counted
<1>3. \A r \in Retrievers : mb[r] = NoBlock
  BY <1>2 DEF GInv, ThreadsInv, Holders, Active, Working
<1>4. \A b \in held : b \in Blocks  BY DEF GInv, Inv, TypeOK
<1>5. held = {}  BY <1>3, <1>4, NoBlockAssumption DEF GInv, ThreadsInv, Holders
<1>. QED  BY <1>1, <1>2, <1>5

(* A retriever that is about to select leaves a client's place free.       *)
LEMMA RoomToSelect ==
  ASSUME GInv, NEW r \in Retrievers, rpc[r] = "select"
  PROVE  Cardinality(held) < MaxClients
<1>. DEFINE others == Retrievers \ {r}
            f == [b \in held |-> CHOOSE q \in Retrievers : mb[q] = b]
<1>1. \A b \in held : b # NoBlock /\ \E q \in Retrievers : mb[q] = b
  BY NoBlockAssumption DEF GInv, Inv, TypeOK, ThreadsInv, Holders
<1>2. \A b \in held : f[b] \in Retrievers /\ mb[f[b]] = b  BY <1>1
<1>3. mb[r] = NoBlock  BY DEF GInv, ThreadsInv, Holders, Holding
<1>4. f \in [held -> others]  BY <1>1, <1>2, <1>3
<1>5. f \in Injection(held, others)
  <2>. HIDE DEF f
  <2>1. \A a, b \in held : f[a] = f[b] => a = b  BY <1>2
  <2>. QED  BY <1>4, <2>1 DEF Injection, IsInjective
<1>6. IsFiniteSet(others) /\ Cardinality(others) = Cardinality(Retrievers) - 1
  BY RetrieversAssumption, FS_RemoveElement
<1>7. IsFiniteSet(held) /\ Cardinality(held) <= Cardinality(others)
  BY <1>5, <1>6, FS_Injection
<1>8. Cardinality(held) \in Nat /\ Cardinality(Retrievers) \in Nat
  BY <1>7, RetrieversAssumption, FS_CardinalityType
<1>. QED  BY <1>6, <1>7, <1>8, RetrieversAssumption, MaxClientsAssumption

-----------------------------------------------------------------------------
(* The gatherer uses the metric list as MLSpec says.                       *)

LEMMA ListStep == GInv /\ [Next]_vars => [MLNext]_mlvars
<1>. SUFFICES ASSUME GInv, [Next]_vars PROVE [MLNext]_mlvars  OBVIOUS
<1>0. \A r \in Retrievers : currentTime[r] \in 0 .. now
  BY DEF GInv, GathererTypes, ThreadsInv, TimesPassed, Inv, TypeOK
<1>1. CASE UNCHANGED vars  BY <1>1 DEF vars
<1>2. CASE Request
  <2>1. CASE gather_start
    <3>1. held = {}  BY <2>1, Quiet DEF gather_start
    <3>. QED  BY <2>1, <3>1 DEF gather_start, MLNext
  <2>2. CASE ~gather_start
    BY <1>2, <2>2 DEF Request, gather_init, gather_stop, gather_terminate, StopSampling,
                      metricplugin_add, metricplugin_remove, BeginRemove
  <2>. QED  BY <2>1, <2>2
<1>3. CASE ControlThread
  <2>1. CASE AddMetric
    <3>1. Head(todo) \in Blocks  BY <2>1 DEF AddMetric, GInv, GathererTypes
    <3>. QED  BY <2>1, <3>1 DEF AddMetric, MLNext
  <2>2. CASE RemoveBlock
    <3>1. Head(todo) \in Blocks  BY <2>2 DEF RemoveBlock, GInv, GathererTypes
    <3>. QED  BY <2>2, <3>1 DEF RemoveBlock, MLNext
  <2>3. CASE TerminateDone
    <3>1. held = {}  BY <2>3, Quiet DEF TerminateDone
    <3>. QED  BY <2>3, <3>1 DEF TerminateDone, MLNext
  <2>4. CASE ~AddMetric /\ ~RemoveBlock /\ ~TerminateDone
    BY <1>3, <2>4 DEF ControlThread, gather_stop_joined, RejectMetric, NotifyRetriever, AddDone,
                      UnregisterMetric, UnloadPlugin, TerminateRemoves, BeginRemove
  <2>. QED  BY <2>1, <2>2, <2>3, <2>4
<1>4. CASE ControllerThread  BY <1>4 DEF ControllerThread, Controller, chvars, mlvars
<1>5. ASSUME NEW r \in Retrievers, RetrieverThread(r) PROVE [MLNext]_mlvars
  <2>1. CASE SampleBegin(r) \/ SampleEnd(r)  BY <2>1 DEF SampleBegin, SampleEnd
  <2>2. ASSUME NEW b \in Blocks, SelectDue(r, b) PROVE [MLNext]_mlvars
    <3>1. Cardinality(held) < MaxClients  BY <2>2, RoomToSelect DEF SelectDue, At
    <3>. QED  BY <1>0, <2>2, <3>1 DEF SelectDue, MLNext
  <2>3. ASSUME NEW b \in Blocks, SelectLater(r, b) PROVE [MLNext]_mlvars
    BY <1>0, <2>3 DEF SelectLater, MLNext
  <2>4. CASE SelectNothing(r)  BY <2>4 DEF SelectNothing, ML_NothingDue
  <2>5. CASE Relocate(r)
    <3>1. mb[r] \in Blocks
      BY <2>5 DEF Relocate, At, GInv, ThreadsInv, Holders, Holding, Inv, TypeOK
    <3>. QED  BY <2>5, <3>1 DEF Relocate, MLNext
  <2>6. CASE \/ Enter(r) \/ Continue(r) \/ SignalController(r) \/ UseFreedControl(r)
             \/ ReadTime(r) \/ Sleep(r) \/ SleepEnds(r) \/ Nap(r)
    BY <2>6 DEF Enter, Continue, LoopHead, SignalController, UseFreedControl, ReadTime, Sleep,
                SleepEnds, Nap, chvars, mlvars
  <2>. QED  BY <1>5, <2>1, <2>2, <2>3, <2>4, <2>5, <2>6 DEF RetrieverThread, RetrieverStep
<1>6. CASE SpuriousWakeup  BY <1>6 DEF SpuriousWakeup, chvars, mlvars
<1>7. CASE Clock  BY <1>7 DEF Clock, MLNext
<1>. QED  BY <1>1, <1>2, <1>3, <1>4, <1>5, <1>6, <1>7 DEF Next

-----------------------------------------------------------------------------
(* The steps keep the invariant.  That of the list (Inv) is kept because   *)
(* each is a step of the list's specification (ListStep).                  *)

(* Steps that leave the plugins and their metrics as they are.             *)
LEMMA PluginsUnchanged ==
  ASSUME Progress, Agreement, UNCHANGED <<loaded, registered, plugin, todo>>,
         ToSet(chain') = ToSet(chain),
         \/ gpc' = gpc
         \/ gpc \in {"idle", "joining"} /\ gpc' \in {"idle", "joining"}
         \/ gpc = "notifying" /\ gpc' = "adding"
  PROVE  Progress' /\ Agreement'
<1>1. \A b \in Blocks : Mine(b)' = Mine(b) /\ Owned(b)' = Owned(b) /\ Linked(b)' = Linked(b)
  BY DEF Mine, Owned, Linked
<1>2. Progress'  BY <1>1 DEF Progress
<1>3. Agreement'  BY <1>1 DEF Agreement
<1>. QED  BY <1>2, <1>3

(* A retriever moves on without taking or giving back a block and without  *)
(* entering or leaving its loop.                                           *)
LEMMA RetrieverMoves ==
  ASSUME GInv, NEW r \in Retrievers,
         UNCHANGED <<control, cpc, retrieverNum, gvars, chain, held, mb, now>>,
         rpc' = [rpc EXCEPT ![r] = rpc'[r]], rpc'[r] \in Labels, rpc[r] # "none",
         rpc'[r] \in Holding <=> rpc[r] \in Holding,
         rpc'[r] \in Working <=> rpc[r] \in Working,
         rpc'[r] = "running" => mb[r] \in registered,
         retrieverCmd' \in {retrieverCmd, Noticed(retrieverCmd)},
         currentTime' \in {currentTime, [currentTime EXCEPT ![r] = now]}
  PROVE  GathererTypes' /\ ThreadsInv' /\ Progress' /\ Agreement'
<1>. USE DEF GInv, ThreadsInv
<1>1. now \in Nat  BY DEF Inv, TypeOK
<1>2. rpc \in [Retrievers -> Labels] /\ currentTime \in [Retrievers -> Nat]  BY DEF GathererTypes
<1>3. GathererTypes'
  <2>1. rpc' \in [Retrievers -> Labels]  BY <1>2
  <2>2. currentTime' \in [Retrievers -> Nat]  BY <1>1, <1>2
  <2>3. retrieverCmd' \in {"REGULAR", "WAKEUP", "STOPALL"}  BY DEF GathererTypes, Noticed
  <2>. QED  BY <2>1, <2>2, <2>3 DEF GathererTypes, gvars
<1>4. Active' = Active  BY <1>2 DEF Active
<1>5. Phases'
  <2>1. cpc # "start"  BY DEF Phases
  <2>2. retrieverCmd = "STOPALL" => retrieverCmd' = "STOPALL"  BY DEF Noticed
  <2>. QED  BY <2>1, <2>2 DEF Phases, gvars
<1>6. Counted'  BY <1>4 DEF Counted
<1>7. Holders'  BY <1>2 DEF Holders
<1>8. TimesPassed'  BY <1>1, <1>2 DEF TimesPassed
<1>9. RunningIsRegistered'  BY <1>2 DEF RunningIsRegistered, gvars
<1>10. Progress' /\ Agreement'  BY PluginsUnchanged DEF gvars
<1>. QED  BY <1>3, <1>5, <1>6, <1>7, <1>8, <1>9, <1>10

(* Entering or leaving the loop goes with the count.                       *)
LEMMA LoopHeadInv ==
  ASSUME GInv, NEW r \in Retrievers, Enter(r) \/ Continue(r), UNCHANGED gvars
  PROVE  GathererTypes' /\ ThreadsInv' /\ Progress' /\ Agreement'
<1>. USE DEF GInv, ThreadsInv
<1>. DEFINE n == IF rpc[r] = "enter" THEN retrieverNum + 1 ELSE retrieverNum
<1>1. /\ control = "live" /\ LoopHead(r, n)
      /\ rpc[r] = "enter" \/ rpc[r] = "loop"
  BY DEF Enter, Continue, At
<1>2. /\ UNCHANGED <<control, cpc, gvars, chain, held, mb, currentTime, now>>
      /\ retrieverCmd' = Noticed(retrieverCmd)
      /\ \/ /\ retrieverCmd' = "REGULAR" /\ retrieverNum' = n
            /\ rpc' = [rpc EXCEPT ![r] = "time"]
         \/ /\ retrieverCmd' # "REGULAR" /\ retrieverNum' = n - 1
            /\ rpc' = [rpc EXCEPT ![r] = "signal"]
  BY <1>1 DEF LoopHead, Goto, rlocals, chvars
<1>3. rpc \in [Retrievers -> Labels] /\ retrieverNum \in Nat  BY DEF GathererTypes
<1>4. retrieverNum = Cardinality(Active)  BY <1>1 DEF Counted
<1>5. retrieverNum' = Cardinality(Active')
  <2>1. r \in Active <=> rpc[r] = "loop"  BY <1>1 DEF Active, Working, Holding
  <2>2. CASE retrieverCmd' = "REGULAR"
    <3>1. Active' = Active \union {r}  BY <1>2, <1>3, <2>2 DEF Active, Working, Holding
    <3>. QED  BY <1>1, <1>2, <1>4, <2>1, <2>2, <3>1, ActiveIsFinite, FS_AddElement
  <2>3. CASE retrieverCmd' # "REGULAR"
    <3>1. Active' = Active \ {r}  BY <1>2, <1>3, <2>3 DEF Active, Working, Holding
    <3>2. Cardinality(Active \ {r}) = IF r \in Active THEN Cardinality(Active) - 1 ELSE Cardinality(Active)
      BY ActiveIsFinite, FS_RemoveElement
    <3>. QED  BY <1>1, <1>2, <1>3, <1>4, <2>1, <2>3, <3>1, <3>2
  <2>. QED  BY <2>2, <2>3
<1>6. Cardinality(Active') \in Nat
  <2>1. Active' \in SUBSET Retrievers  BY DEF Active
  <2>. QED  BY <2>1, RetrieversAssumption, FS_Subset, FS_CardinalityType
<1>7. GathererTypes'
  <2>1. rpc' \in [Retrievers -> Labels]  BY <1>2, <1>3 DEF Labels, Working
  <2>2. retrieverCmd' \in {"REGULAR", "WAKEUP", "STOPALL"}  BY <1>2 DEF GathererTypes, Noticed
  <2>. QED  BY <1>2, <1>5, <1>6, <2>1, <2>2 DEF GathererTypes, gvars
<1>8. Phases'
  <2>1. cpc # "start"  BY <1>1 DEF Phases
  <2>2. retrieverCmd = "STOPALL" => retrieverCmd' = "STOPALL"  BY <1>2 DEF Noticed
  <2>3. ASSUME cpc = "exited" PROVE retrieverNum' = 0
    <3>1. retrieverNum = 0 /\ retrieverCmd' = "STOPALL"  BY <2>2, <2>3 DEF Phases
    <3>2. Active = {}  BY <1>4, <3>1, ActiveIsFinite
    <3>3. rpc[r] = "enter"  BY <1>1, <3>2 DEF Active, Working
    <3>. QED  BY <1>2, <3>1, <3>3
  <2>. QED  BY <1>2, <2>1, <2>2, <2>3 DEF Phases, gvars
<1>9. Counted'  BY <1>1, <1>2, <1>5 DEF Counted
<1>10. Holders'
  <2>1. \A q \in Retrievers : rpc'[q] \in Holding <=> rpc[q] \in Holding
    BY <1>1, <1>2, <1>3 DEF Holding
  <2>. QED  BY <1>2, <2>1 DEF Holders
<1>11. TimesPassed' /\ RunningIsRegistered'
  BY <1>2, <1>3 DEF TimesPassed, RunningIsRegistered, gvars
<1>12. Progress' /\ Agreement'  BY <1>2, PluginsUnchanged DEF gvars
<1>. QED  BY <1>7, <1>8, <1>9, <1>10, <1>11, <1>12

(* A retriever takes a block nobody holds.                                 *)
LEMMA SelectDueInv ==
  ASSUME GInv, NEW r \in Retrievers, NEW b \in Blocks, SelectDue(r, b), UNCHANGED gvars
  PROVE  GathererTypes' /\ ThreadsInv' /\ Progress' /\ Agreement'
<1>. USE DEF GInv, ThreadsInv
<1>1. /\ UNCHANGED <<control, cpc, retrieverNum, retrieverCmd, gvars, chain, currentTime, now>>
      /\ rpc[r] = "select" /\ rpc' = [rpc EXCEPT ![r] = "sample"]
      /\ mb' = [mb EXCEPT ![r] = b] /\ held' = held \union {b}
  BY DEF SelectDue, ML_SelectNextDue, At, Goto, mcvars
<1>2. rpc \in [Retrievers -> Labels] /\ mb \in [Retrievers -> Blocks \union {NoBlock}]
  BY DEF GathererTypes
<1>3. b \notin held  BY DEF SelectDue, ML_SelectNextDue, IsDue, Inv, BlocksAccountedFor
<1>4. GathererTypes'
  <2>1. rpc' \in [Retrievers -> Labels]  BY <1>1, <1>2 DEF Labels, Working, Holding
  <2>2. mb' \in [Retrievers -> Blocks \union {NoBlock}]  BY <1>1, <1>2
  <2>. QED  BY <1>1, <2>1, <2>2 DEF GathererTypes, gvars
<1>5. Active' = Active  BY <1>1, <1>2 DEF Active, Working, Holding
<1>6. Phases'
  <2>1. cpc # "start"  BY <1>1 DEF Phases
  <2>. QED  BY <1>1, <2>1 DEF Phases, gvars
<1>7. Counted'  BY <1>1, <1>5 DEF Counted
<1>8. Holders'
  <2>1. \A q \in Retrievers : mb[q] # b
    <3>1. \A q \in Retrievers : mb[q] \in held \/ mb[q] = NoBlock  BY DEF Holders
    <3>. QED  BY <1>3, <3>1, NoBlockAssumption
  <2>2. \A q \in Retrievers : q # r => rpc'[q] = rpc[q] /\ mb'[q] = mb[q]  BY <1>1, <1>2
  <2>3. rpc'[r] = "sample" /\ mb'[r] = b /\ mb[r] = NoBlock
    BY <1>1, <1>2 DEF Holders, Holding
  <2>4. \A q \in Retrievers : IF rpc'[q] \in Holding THEN mb'[q] \in held' ELSE mb'[q] = NoBlock
    BY <1>1, <2>2, <2>3 DEF Holders, Holding
  <2>5. \A c \in held' : \E q \in Retrievers : mb'[q] = c
    <3>. SUFFICES ASSUME NEW c \in held PROVE \E q \in Retrievers : mb'[q] = c
      BY <1>1, <2>3
    <3>1. PICK q \in Retrievers : mb[q] = c  BY DEF Holders
    <3>2. q # r  BY <2>3, <3>1, NoBlockAssumption DEF Inv, TypeOK
    <3>. QED  BY <2>2, <3>1, <3>2
  <2>6. \A p, q \in Retrievers : mb'[p] = mb'[q] /\ mb'[p] # NoBlock => p = q
    BY <2>1, <2>2, <2>3 DEF Holders
  <2>. QED  BY <2>4, <2>5, <2>6 DEF Holders
<1>9. TimesPassed'  BY <1>1 DEF TimesPassed
<1>10. RunningIsRegistered'
  <2>1. \A q \in Retrievers : rpc'[q] = "running" => rpc[q] = "running" /\ mb'[q] = mb[q]
    BY <1>1, <1>2
  <2>. QED  BY <1>1, <2>1 DEF RunningIsRegistered, gvars
<1>11. Progress' /\ Agreement'  BY <1>1, PluginsUnchanged DEF gvars
<1>. QED  BY <1>4, <1>6, <1>7, <1>8, <1>9, <1>10, <1>11

(* A retriever gives its block back; the others keep theirs.               *)
LEMMA RelocateStepInv ==
  ASSUME GInv, NEW r \in Retrievers, Relocate(r), UNCHANGED gvars
  PROVE  GathererTypes' /\ ThreadsInv' /\ Progress' /\ Agreement'
<1>. USE DEF GInv, ThreadsInv
<1>1. /\ UNCHANGED <<control, cpc, retrieverNum, retrieverCmd, gvars, currentTime, now>>
      /\ rpc[r] = "relocate" /\ rpc' = [rpc EXCEPT ![r] = "loop"]
      /\ mb' = [mb EXCEPT ![r] = NoBlock] /\ held' = held \ {mb[r]}
      /\ ML_Relocate(mb[r])
  BY DEF Relocate, ML_Relocate, At, Goto, mcvars
<1>2. rpc \in [Retrievers -> Labels] /\ mb \in [Retrievers -> Blocks \union {NoBlock}]
  BY DEF GathererTypes
<1>3. mb[r] \in held /\ mb[r] \in Blocks /\ mb[r] # NoBlock
  BY <1>1, NoBlockAssumption DEF Holders, Holding, Inv, TypeOK
<1>4. ToSet(chain') = ToSet(chain)
  <2>1. ~RelocateNotFound(mb[r])
    BY <1>3 DEF RelocateNotFound, Inv, BlocksAccountedFor, TypeOK
  <2>2. CASE RelocateLinked(mb[r])  BY <1>3, <2>2, RelocateLinks
  <2>3. CASE RelocateDeleted(mb[r])  BY <2>3 DEF RelocateDeleted
  <2>. QED  BY <1>1, <2>1, <2>2, <2>3 DEF ML_Relocate
<1>5. GathererTypes'
  <2>1. rpc' \in [Retrievers -> Labels]  BY <1>1, <1>2 DEF Labels, Working, Holding
  <2>2. mb' \in [Retrievers -> Blocks \union {NoBlock}]  BY <1>1, <1>2
  <2>. QED  BY <1>1, <2>1, <2>2 DEF GathererTypes, gvars
<1>6. Active' = Active  BY <1>1, <1>2 DEF Active, Working, Holding
<1>7. Phases'
  <2>1. cpc # "start"  BY <1>1 DEF Phases
  <2>. QED  BY <1>1, <2>1 DEF Phases, gvars
<1>8. Counted'  BY <1>1, <1>6 DEF Counted
<1>9. Holders'
  <2>1. \A q \in Retrievers : q # r => rpc'[q] = rpc[q] /\ mb'[q] = mb[q] /\ mb[q] # mb[r]
    BY <1>1, <1>2, <1>3 DEF Holders
  <2>2. rpc'[r] = "loop" /\ mb'[r] = NoBlock  BY <1>1, <1>2
  <2>3. \A q \in Retrievers : IF rpc'[q] \in Holding THEN mb'[q] \in held' ELSE mb'[q] = NoBlock
    BY <1>1, <2>1, <2>2 DEF Holders, Holding
  <2>4. \A c \in held' : \E q \in Retrievers : mb'[q] = c
    BY <1>1, <2>1 DEF Holders
  <2>5. \A p, q \in Retrievers : mb'[p] = mb'[q] /\ mb'[p] # NoBlock => p = q
    BY <2>1, <2>2 DEF Holders
  <2>. QED  BY <2>3, <2>4, <2>5 DEF Holders
<1>10. TimesPassed'  BY <1>1 DEF TimesPassed
<1>11. RunningIsRegistered'
  <2>1. \A q \in Retrievers : rpc'[q] = "running" => rpc[q] = "running" /\ mb'[q] = mb[q]
    BY <1>1, <1>2
  <2>. QED  BY <1>1, <2>1 DEF RunningIsRegistered, gvars
<1>12. Progress' /\ Agreement'  BY <1>1, <1>4, PluginsUnchanged DEF gvars
<1>. QED  BY <1>5, <1>7, <1>8, <1>9, <1>10, <1>11, <1>12

LEMMA RetrieverInv ==
  ASSUME GInv, NEW r \in Retrievers, RetrieverThread(r)
  PROVE  GathererTypes' /\ ThreadsInv' /\ Progress' /\ Agreement'
<1>1. rpc \in [Retrievers -> Labels]  BY DEF GInv, GathererTypes
<1>2. CASE UseFreedControl(r) /\ UNCHANGED gvars
  <2>1. rpc[r] \notin Working
    BY <1>2 DEF GInv, ThreadsInv, Counted, Active, UseFreedControl
  <2>2. /\ UNCHANGED <<control, cpc, retrieverNum, gvars, chain, held, mb, now>>
        /\ rpc' = [rpc EXCEPT ![r] = "exited"] /\ retrieverCmd' = retrieverCmd /\ currentTime' = currentTime
        /\ rpc[r] # "none"
    BY <1>2 DEF UseFreedControl, Goto, Gone, mcvars, rlocals, chvars
  <2>. QED  BY <1>1, <2>1, <2>2, RetrieverMoves DEF Labels, Working, Holding
<1>3. CASE (Enter(r) \/ Continue(r)) /\ UNCHANGED gvars  BY <1>3, LoopHeadInv
<1>4. CASE Relocate(r) /\ UNCHANGED gvars  BY <1>4, RelocateStepInv
<1>5. CASE (\E b \in Blocks : SelectDue(r, b)) /\ UNCHANGED gvars  BY <1>5, SelectDueInv
<1>6. CASE (\E b \in Blocks : SelectLater(r, b)) /\ UNCHANGED gvars
  <2>1. /\ UNCHANGED <<control, cpc, retrieverNum, gvars, chain, held, mb, now>>
        /\ rpc[r] = "select" /\ rpc' = [rpc EXCEPT ![r] = "nap"]
        /\ retrieverCmd' = retrieverCmd /\ currentTime' = currentTime
    BY <1>6 DEF SelectLater, ML_ReserveNextDue, At, Goto, mcvars
  <2>. QED  BY <1>1, <2>1, RetrieverMoves DEF Labels, Working, Holding
<1>7. CASE (SignalController(r) \/ ReadTime(r) \/ SelectNothing(r)) /\ UNCHANGED gvars
  <2>1. /\ UNCHANGED <<control, cpc, retrieverNum, gvars, chain, held, mb, now>>
        /\ \/ rpc[r] = "signal" /\ rpc' = [rpc EXCEPT ![r] = "exited"]
           \/ rpc[r] = "time" /\ rpc' = [rpc EXCEPT ![r] = "select"]
           \/ rpc[r] = "select" /\ rpc' = [rpc EXCEPT ![r] = "sleep"]
        /\ retrieverCmd' = retrieverCmd
        /\ currentTime' \in {currentTime, [currentTime EXCEPT ![r] = now]}
    BY <1>7 DEF SignalController, ReadTime, SelectNothing, ML_NothingDue, At, Goto,
                mcvars, rlocals, chvars, mlvars
  <2>. QED  BY <1>1, <2>1, RetrieverMoves DEF Labels, Working, Holding
<1>8. CASE (Sleep(r) \/ SleepEnds(r) \/ Nap(r)) /\ UNCHANGED gvars
  <2>1. /\ UNCHANGED <<control, cpc, retrieverNum, gvars, chain, held, mb, now>>
        /\ rpc[r] \in {"sleep", "sleeping", "nap", "napping"}
        /\ \E label \in {"sleeping", "napping", "loop"} : rpc' = [rpc EXCEPT ![r] = label]
        /\ retrieverCmd' \in {retrieverCmd, Noticed(retrieverCmd)}
        /\ currentTime' = currentTime
    BY <1>8 DEF Sleep, SleepEnds, Nap, At, Goto, rlocals, chvars
  <2>. QED  BY <1>1, <2>1, RetrieverMoves DEF Labels, Working, Holding
<1>9. CASE SampleBegin(r) \/ SampleEnd(r)
  <2>1. /\ UNCHANGED <<control, cpc, retrieverNum, gvars, chain, held, mb, now>>
        /\ rpc[r] \in {"sample", "running"}
        /\ \/ rpc' = [rpc EXCEPT ![r] = "relocate"]
           \/ rpc' = [rpc EXCEPT ![r] = "running"] /\ mb[r] \in registered
        /\ retrieverCmd' = retrieverCmd /\ currentTime' = currentTime
    BY <1>9 DEF SampleBegin, SampleEnd, At, Goto, mcvars, rlocals, mlvars
  <2>. QED  BY <1>1, <2>1, RetrieverMoves DEF Labels, Working, Holding
<1>. QED  BY <1>2, <1>3, <1>4, <1>5, <1>6, <1>7, <1>8, <1>9 DEF RetrieverThread, RetrieverStep

(* The controller starts the retrievers, passes wakeups on, and ends when  *)
(* the count is zero.                                                      *)
LEMMA ControllerInv ==
  ASSUME GInv, ControllerThread
  PROVE  GathererTypes' /\ ThreadsInv' /\ Progress' /\ Agreement'
<1>. USE DEF GInv, ThreadsInv
<1>1. UNCHANGED <<control, retrieverNum, gvars, chain, held, mb, currentTime, now>>
  BY DEF ControllerThread, Controller, StartRetrievers, ControllerMain, ControllerWokenUp,
         ControllerStop, ControllerStopWokenUp, mcvars, rlocals, chvars
<1>2. Progress' /\ Agreement'  BY <1>1, PluginsUnchanged DEF gvars
<1>3. TimesPassed'  BY <1>1 DEF TimesPassed
<1>4. CASE StartRetrievers
  <2>1. /\ cpc = "start" /\ cpc' = "main" /\ retrieverCmd' = retrieverCmd
        /\ rpc' = [r \in Retrievers |-> "enter"]
        /\ \A r \in Retrievers : rpc[r] = "none"
    BY <1>4 DEF StartRetrievers, mcvars, Phases
  <2>2. GathererTypes'  BY <1>1, <2>1 DEF GathererTypes, Labels, gvars
  <2>3. Phases'  BY <1>1, <2>1 DEF Phases, gvars
  <2>4. Active = {} /\ Active' = {}  BY <2>1 DEF Active, Working, Holding
  <2>5. Counted'  BY <1>1, <2>4 DEF Counted
  <2>6. Holders'  BY <1>1, <2>1 DEF Holders, Holding
  <2>7. RunningIsRegistered'  BY <2>1 DEF RunningIsRegistered
  <2>. QED  BY <1>2, <1>3, <2>2, <2>3, <2>5, <2>6, <2>7
<1>5. CASE ControllerMain \/ ControllerWokenUp \/ ControllerStop \/ ControllerStopWokenUp
  <2>1. /\ rpc' = rpc
        /\ \/ cpc \in {"main", "mainwait"} /\ cpc' \in {"mainwait", "stop"}
              /\ retrieverCmd' \in {retrieverCmd, "WAKEUP"}
           \/ cpc \in {"stop", "stopwait"} /\ retrieverCmd' = "STOPALL"
              /\ \/ cpc' = "stopwait"
                 \/ cpc' = "exited" /\ retrieverNum = 0
    BY <1>5 DEF ControllerMain, ControllerWokenUp, ControllerStop, ControllerStopWokenUp, MainLoop,
                TerminationLoop, rlocals, Phases
  <2>2. GathererTypes'  BY <1>1, <2>1 DEF GathererTypes, gvars
  <2>3. Phases'  BY <1>1, <2>1 DEF Phases, gvars
  <2>4. Active' = Active  BY <2>1 DEF Active
  <2>5. Counted'  BY <1>1, <2>4 DEF Counted
  <2>6. Holders' /\ RunningIsRegistered'
    BY <1>1, <2>1 DEF Holders, RunningIsRegistered, gvars
  <2>. QED  BY <1>2, <1>3, <2>2, <2>3, <2>5, <2>6
<1>. QED  BY <1>4, <1>5 DEF ControllerThread, Controller

(* The clock and the ends of waits touch nothing the invariant speaks of.  *)
LEMMA EnvironmentInv ==
  ASSUME GInv, Clock \/ (SpuriousWakeup /\ UNCHANGED gvars) \/ UNCHANGED vars
  PROVE  GathererTypes' /\ ThreadsInv' /\ Progress' /\ Agreement'
<1>. USE DEF GInv, ThreadsInv
<1>1. /\ UNCHANGED <<control, retrieverNum, retrieverCmd, cpc, rpc, gvars, chain, held, mb, currentTime>>
      /\ now' \in {now, now + 1}
  BY DEF Clock, Tick, SpuriousWakeup, vars, mlvars, mrvars, mcvars, rlocals, chvars
<1>2. Progress' /\ Agreement'  BY <1>1, PluginsUnchanged DEF gvars
<1>3. TimesPassed'  BY <1>1 DEF TimesPassed, GathererTypes, Inv, TypeOK
<1>4. GathererTypes' /\ Phases'  BY <1>1 DEF GathererTypes, Phases, gvars
<1>5. Counted' /\ Holders' /\ RunningIsRegistered'
  BY <1>1 DEF Counted, Active, Holders, RunningIsRegistered, gvars
<1>. QED  BY <1>2, <1>3, <1>4, <1>5

(* The control thread's calls that start, stop and wake up the threads.    *)
LEMMA SamplingInv ==
  ASSUME GInv,
         gather_start \/ gather_stop \/ (gather_terminate /\ StopSampling) \/ gather_stop_joined
           \/ NotifyRetriever
  PROVE  GathererTypes' /\ ThreadsInv' /\ Progress' /\ Agreement'
<1>. USE DEF GInv, ThreadsInv
<1>1. /\ UNCHANGED <<initialized, loaded, registered, plugin, todo, chain, held, mb, currentTime, now>>
      /\ \/ gpc = "idle" /\ gpc' \in {"idle", "joining"}
         \/ gpc = "joining" /\ gpc' = "idle"
         \/ gpc = "notifying" /\ gpc' = "adding"
  BY DEF gather_start, gather_stop, gather_terminate, StopSampling, gather_stop_joined,
         NotifyRetriever, Idle, ML_Reset, MR_Init, MR_FinishRequest, MR_FinishJoin, MR_Wakeup,
         rlocals, mlvars
<1>2. Progress' /\ Agreement'  BY <1>1, PluginsUnchanged
<1>3. TimesPassed'  BY <1>1 DEF TimesPassed
<1>4. CASE gather_start
  <2>1. /\ ~sampling /\ sampling' = TRUE /\ gpc' = gpc /\ terminating' = FALSE
        /\ control' = "live" /\ retrieverNum' = 0 /\ retrieverCmd' = "REGULAR" /\ cpc' = "start"
        /\ rpc' = [r \in Retrievers |-> "none"]
        /\ gpc = "idle"
    BY <1>4 DEF gather_start, MR_Init, Idle
  <2>2. GathererTypes'  BY <1>1, <2>1 DEF GathererTypes, Labels
  <2>3. Phases'  BY <1>1, <2>1 DEF Phases
  <2>4. Active' = {}  BY <2>1 DEF Active, Working, Holding
  <2>5. Counted'  BY <2>1, <2>4, FS_EmptySet DEF Counted
  <2>6. \A r \in Retrievers : rpc[r] \notin Holding
    BY <2>1, Quiet DEF Active, Working
  <2>7. Holders'  BY <1>1, <2>1, <2>6 DEF Holders, Holding
  <2>8. RunningIsRegistered'  BY <2>1 DEF RunningIsRegistered
  <2>. QED  BY <1>2, <1>3, <2>2, <2>3, <2>5, <2>7, <2>8
<1>5. CASE gather_stop_joined
  <2>1. /\ cpc = "exited" /\ cpc' = "none" /\ control' = "none" /\ sampling' = FALSE
        /\ gpc = "joining" /\ gpc' = "idle"
        /\ UNCHANGED <<retrieverNum, retrieverCmd, rpc, terminating>>
    BY <1>5 DEF gather_stop_joined, MR_FinishJoin
  <2>2. GathererTypes'  BY <1>1, <2>1 DEF GathererTypes
  <2>3. Phases'  BY <1>1, <2>1 DEF Phases
  <2>4. Active = {}
    <3>1. retrieverNum = 0 /\ control = "live"  BY <2>1 DEF Phases
    <3>. QED  BY <3>1, ActiveIsFinite DEF Counted
  <2>5. Counted'  BY <2>1, <2>4 DEF Counted, Active
  <2>6. Holders' /\ RunningIsRegistered'  BY <1>1, <2>1 DEF Holders, RunningIsRegistered
  <2>. QED  BY <1>2, <1>3, <2>2, <2>3, <2>5, <2>6
<1>6. CASE gather_stop \/ (gather_terminate /\ StopSampling) \/ NotifyRetriever
  <2>1. /\ UNCHANGED <<control, retrieverNum, retrieverCmd, cpc, rpc, sampling>>
        /\ \/ sampling /\ gpc = "idle" /\ gpc' = "joining" /\ terminating' \in BOOLEAN
           \/ gpc = "notifying" /\ gpc' = "adding" /\ terminating' = terminating
    BY <1>6 DEF gather_stop, gather_terminate, StopSampling, NotifyRetriever, Idle,
                MR_FinishRequest, MR_Wakeup, GathererTypes
  <2>2. GathererTypes'  BY <1>1, <2>1 DEF GathererTypes
  <2>3. Phases'  BY <1>1, <2>1 DEF Phases
  <2>4. Counted' /\ Holders' /\ RunningIsRegistered'
    BY <1>1, <2>1 DEF Counted, Active, Holders, RunningIsRegistered
  <2>. QED  BY <1>2, <1>3, <2>2, <2>3, <2>4
<1>. QED  BY <1>4, <1>5, <1>6

(* Steps of metricplugin_add and metricplugin_remove and of the begin and  *)
(* end of gather_terminate: what they mean for the threads.                *)
LEMMA ThreadsUnchanged ==
  ASSUME GInv, UNCHANGED <<mrvars, held, now, sampling>>,
         gpc # "joining", gpc' # "joining", gpc' = "idle" <=> plugin' = NoPlugin,
         terminating' => terminating \/ ~sampling,
         ~HotPlug /\ sampling => gpc' = "idle" /\ registered \subseteq registered'
  PROVE  ThreadsInv'
<1>. USE DEF GInv, ThreadsInv
<1>1. UNCHANGED <<control, retrieverNum, retrieverCmd, cpc, rpc, mb, currentTime>>
  BY DEF mrvars, mcvars
<1>2. Phases'  BY <1>1 DEF Phases
<1>3. Counted' /\ Holders' /\ TimesPassed'
  BY <1>1 DEF Counted, Active, Holders, TimesPassed
<1>4. RunningIsRegistered'
  <2>1. CASE sampling  BY <1>1, <2>1 DEF RunningIsRegistered
  <2>2. CASE ~sampling
    <3>1. \A r \in Retrievers : rpc[r] # "running"
      BY <2>2, Quiet DEF Active, Working, Holding
    <3>. QED  BY <1>1, <3>1 DEF RunningIsRegistered
  <2>. QED  BY <2>1, <2>2
<1>. QED  BY <1>2, <1>3, <1>4

(* A plugin is linked; none of its metrics is known yet.                   *)
LEMMA PluginAddInv ==
  ASSUME GInv, NEW p \in Plugins, metricplugin_add(p)
  PROVE  GathererTypes' /\ ThreadsInv' /\ Progress' /\ Agreement'
<1>. USE DEF GInv
<1>1. /\ UNCHANGED <<sampling, registered, terminating, chain, held, now, mrvars>>
      /\ gpc = "idle" /\ gpc' = "adding" /\ plugin' = p /\ todo' = PluginBlocks[p]
      /\ p \notin ToSet(loaded) /\ loaded' = Append(loaded, p)
      /\ HotPlug \/ ~sampling
      /\ plugin = NoPlugin /\ p # NoPlugin
  BY PluginBlocksAssumption
     DEF metricplugin_add, Idle, HotPlugAllowed, mlvars, ThreadsInv, Phases
<1>2. /\ loaded' \in Seq(Plugins) /\ NoDuplicates(loaded')
      /\ ToSet(loaded') = ToSet(loaded) \union {p}
  BY <1>1, AppendNew DEF GathererTypes, Progress
<1>3. ToSet(loaded) \subseteq Plugins  BY DEF GathererTypes, ToSet
<1>4. GathererTypes'
  BY <1>1, <1>2, BlocksOfPlugins DEF GathererTypes, mrvars, mcvars
<1>5. ThreadsInv'  BY <1>1, ThreadsUnchanged
<1>6. \A b \in Blocks : Linked(b)' = Linked(b) /\ ~Mine(b) /\ (Mine(b)' <=> b \in ToSet(PluginBlocks[p]))
  BY <1>1 DEF Linked, Mine
<1>7. ToSet(loaded') \ {p} = ToSet(loaded) \ {NoPlugin}
  BY <1>1, <1>2, <1>3, PluginBlocksAssumption
<1>8. \A b \in Blocks : Owned(b)' = Owned(b)  BY <1>1, <1>7 DEF Owned
<1>9. Progress'
  <2>1. \A b \in Blocks : b \in registered <=> Owned(b)  BY <1>6 DEF Progress
  <2>2. \A b \in Blocks : Mine(b)' => ~Owned(b)
    BY <1>1, <1>3, <1>6, BlocksOfPlugins DEF Owned
  <2>3. p \in ToSet(loaded') /\ NoDuplicates(todo') /\ ToSet(todo') \subseteq ToSet(PluginBlocks[p])
    BY <1>1, <1>2, BlocksOfPlugins
  <2>4. \A b \in Blocks : Mine(b)' => (b \in registered' <=> b \notin ToSet(todo'))
    BY <1>1, <1>6, <2>1, <2>2
  <2>5. \A b \in Blocks : ~Mine(b)' => (b \in registered' <=> Owned(b)')
    BY <1>1, <1>8, <2>1
  <2>. QED  BY <1>1, <1>2, <2>3, <2>4, <2>5 DEF Progress
<1>10. Agreement'  BY <1>1, <1>6 DEF Agreement
<1>. QED  BY <1>4, <1>5, <1>9, <1>10

(* One metric is registered and scheduled.                                 *)
LEMMA AddMetricInv ==
  ASSUME GInv, AddMetric
  PROVE  GathererTypes' /\ ThreadsInv' /\ Progress' /\ Agreement'
<1>. USE DEF GInv
<1>. DEFINE b == Head(todo)
<1>1. /\ UNCHANGED <<sampling, loaded, plugin, terminating, held, now, mrvars>>
      /\ gpc = "adding" /\ gpc' \in {"adding", "notifying"} /\ todo # <<>>
      /\ ML_Insert(b) /\ registered' = registered \union {b} /\ todo' = Tail(todo)
      /\ plugin # NoPlugin
  BY DEF AddMetric, ML_Insert, ThreadsInv, Phases
<1>2. /\ b \in ToSet(todo) /\ b \in Blocks
      /\ todo' \in Seq(Blocks) /\ NoDuplicates(todo') /\ ToSet(todo') = ToSet(todo) \ {b}
  BY <1>1, HeadAndTail DEF GathererTypes, Progress
<1>3. ToSet(chain') = ToSet(chain) \union {b}  BY <1>1, <1>2, InsertLinks
<1>. HIDE DEF b
<1>4. GathererTypes'  BY <1>1, <1>2 DEF GathererTypes, mrvars, mcvars
<1>5. ThreadsInv'
  <2>1. HotPlug \/ ~sampling  BY <1>1, HotPlugAssumption DEF ThreadsInv, Phases
  <2>. QED  BY <1>1, <2>1, ThreadsUnchanged
<1>6. \A c \in Blocks : Mine(c)' = Mine(c) /\ Owned(c)' = Owned(c)  BY <1>1 DEF Mine, Owned
<1>7. Mine(b)  BY <1>1, <1>2 DEF Mine, Progress
<1>8. Progress'  BY <1>1, <1>2, <1>6, <1>7 DEF Progress
<1>9. Agreement'  BY <1>1, <1>3 DEF Agreement, Linked
<1>. QED  BY <1>4, <1>5, <1>8, <1>9

LEMMA AddDoneInv ==
  ASSUME GInv, AddDone
  PROVE  GathererTypes' /\ ThreadsInv' /\ Progress' /\ Agreement'
<1>. USE DEF GInv
<1>1. /\ UNCHANGED <<sampling, loaded, registered, todo, terminating, chain, held, now, mrvars>>
      /\ gpc = "adding" /\ gpc' = "idle" /\ todo = <<>>
      /\ plugin \in Plugins /\ plugin # NoPlugin /\ plugin' = NoPlugin
  BY DEF AddDone, mlvars, ThreadsInv, Phases, GathererTypes
<1>2. GathererTypes'  BY <1>1 DEF GathererTypes, mrvars, mcvars
<1>3. ThreadsInv'  BY <1>1, ThreadsUnchanged
<1>4. ToSet(todo) = {}  BY <1>1 DEF ToSet
<1>5. \A b \in Blocks : ~Mine(b)' /\ Linked(b)' = Linked(b)  BY <1>1 DEF Mine, Linked
<1>6. \A b \in Blocks : Owned(b)' <=> Owned(b) \/ Mine(b)
  <2>1. plugin \in ToSet(loaded) /\ NoPlugin \notin ToSet(loaded)
    BY <1>1, PluginBlocksAssumption DEF Progress, GathererTypes, ToSet
  <2>. QED  BY <1>1, <2>1 DEF Owned, Mine
<1>7. Progress'
  <2>1. \A b \in Blocks : Mine(b) => b \in registered  BY <1>1, <1>4 DEF Progress
  <2>. QED  BY <1>1, <1>5, <1>6, <2>1 DEF Progress
<1>8. Agreement'  BY <1>1, <1>5 DEF Agreement
<1>. QED  BY <1>2, <1>3, <1>7, <1>8

(* The removal of a loaded plugin begins, whether its metrics are all      *)
(* there, or only some of them after a rejected definition.                *)
LEMMA BeginRemoveInv ==
  ASSUME GInv, NEW p \in Plugins, BeginRemove(p), UNCHANGED terminating,
         gpc = "idle" \/ (gpc = "adding" /\ p = plugin),
         HotPlug \/ ~sampling
  PROVE  GathererTypes' /\ ThreadsInv' /\ Progress' /\ Agreement'
<1>. USE DEF GInv
<1>1. /\ UNCHANGED <<sampling, loaded, registered, chain, held, now, mrvars>>
      /\ gpc' = "removing" /\ plugin' = p /\ todo' = PluginBlocks[p]
      /\ p \in ToSet(loaded) /\ p # NoPlugin
      /\ plugin = NoPlugin \/ plugin = p
  BY PluginBlocksAssumption DEF BeginRemove, mlvars, ThreadsInv, Phases
<1>2. GathererTypes'  BY <1>1, BlocksOfPlugins DEF GathererTypes, mrvars, mcvars
<1>3. ThreadsInv'  BY <1>1, ThreadsUnchanged
<1>4. \A b \in Blocks : /\ Linked(b)' = Linked(b)
                        /\ Mine(b)' <=> b \in ToSet(PluginBlocks[p])
                        /\ Mine(b) => Mine(b)'
  BY <1>1 DEF Linked, Mine
<1>5. \A b \in Blocks : ~Mine(b)' => (Owned(b)' <=> Owned(b))
  <2>1. NoPlugin \notin ToSet(loaded)  BY PluginBlocksAssumption DEF GathererTypes, ToSet
  <2>. QED  BY <1>1, <1>4, <2>1 DEF Owned
<1>6. Progress'
  <2>1. NoDuplicates(todo') /\ ToSet(todo') \subseteq ToSet(PluginBlocks[p])  BY <1>1, BlocksOfPlugins
  <2>2. \A b \in Blocks : Mine(b)' => b \in ToSet(todo')  BY <1>1, <1>4
  <2>. QED  BY <1>1, <1>4, <1>5, <2>1, <2>2 DEF Progress
<1>7. Agreement'  BY <1>1, <1>4 DEF Agreement
<1>. QED  BY <1>2, <1>3, <1>6, <1>7

LEMMA RemoveBlockInv ==
  ASSUME GInv, RemoveBlock
  PROVE  GathererTypes' /\ ThreadsInv' /\ Progress' /\ Agreement'
<1>. USE DEF GInv
<1>. DEFINE b == Head(todo)
<1>1. /\ UNCHANGED <<sampling, loaded, registered, plugin, todo, terminating, held, now, mrvars>>
      /\ gpc = "removing" /\ gpc' = "unregistering" /\ todo # <<>>
      /\ IF Linked(b) THEN ML_Remove(b) ELSE UNCHANGED mlvars
      /\ plugin # NoPlugin
  BY DEF RemoveBlock, ML_Remove, mlvars, ThreadsInv, Phases
<1>2. b \in Blocks  BY <1>1 DEF GathererTypes
<1>3. ToSet(chain') = ToSet(chain) \ {b}
  <2>1. CASE Linked(b)  BY <1>1, <1>2, <2>1, RemoveLinks
  <2>2. CASE ~Linked(b)  BY <1>1, <2>2 DEF mlvars, Linked
  <2>. QED  BY <2>1, <2>2
<1>4. Head(todo') = b  BY <1>1
<1>. HIDE DEF b
<1>5. GathererTypes'  BY <1>1 DEF GathererTypes, mrvars, mcvars
<1>6. ThreadsInv'
  <2>1. HotPlug \/ ~sampling  BY <1>1, HotPlugAssumption DEF ThreadsInv, Phases
  <2>. QED  BY <1>1, <2>1, ThreadsUnchanged
<1>7. \A c \in Blocks : Mine(c)' = Mine(c) /\ Owned(c)' = Owned(c)  BY <1>1 DEF Mine, Owned
<1>8. Progress'  BY <1>1, <1>7 DEF Progress
<1>9. Agreement'  BY <1>1, <1>3, <1>4 DEF Agreement, Linked
<1>. QED  BY <1>5, <1>6, <1>8, <1>9

LEMMA UnregisterInv ==
  ASSUME GInv, UnregisterMetric
  PROVE  GathererTypes' /\ ThreadsInv' /\ Progress' /\ Agreement'
<1>. USE DEF GInv
<1>. DEFINE b == Head(todo)
<1>1. /\ UNCHANGED <<sampling, loaded, plugin, terminating, chain, held, now, mrvars>>
      /\ gpc = "unregistering" /\ gpc' = "removing" /\ todo # <<>>
      /\ registered' = registered \ {b} /\ todo' = Tail(todo)
      /\ plugin # NoPlugin
  BY DEF UnregisterMetric, mlvars, ThreadsInv, Phases, Progress
<1>2. /\ b \in ToSet(todo) /\ b \in Blocks
      /\ todo' \in Seq(Blocks) /\ NoDuplicates(todo') /\ ToSet(todo') = ToSet(todo) \ {b}
  BY <1>1, HeadAndTail DEF GathererTypes, Progress
<1>3. GathererTypes'  BY <1>1, <1>2 DEF GathererTypes, mrvars, mcvars
<1>4. ThreadsInv'
  <2>1. HotPlug \/ ~sampling  BY <1>1, HotPlugAssumption DEF ThreadsInv, Phases
  <2>. QED  BY <1>1, <2>1, ThreadsUnchanged
<1>5. \A c \in Blocks : Mine(c)' = Mine(c) /\ Owned(c)' = Owned(c)  BY <1>1 DEF Mine, Owned
<1>6. Mine(b)  BY <1>1, <1>2 DEF Mine, Progress
<1>. HIDE DEF b
<1>7. Progress'  BY <1>1, <1>2, <1>5, <1>6 DEF Progress
<1>8. Agreement'
  <2>1. \A c \in Blocks : IF c = b THEN ~Linked(c) ELSE Linked(c) <=> c \in registered
    BY <1>1 DEF Agreement, b
  <2>. QED  BY <1>1, <2>1 DEF Agreement, Linked
<1>. QED  BY <1>3, <1>4, <1>7, <1>8

(* The plugin is unloaded when none of its metrics is left.                *)
LEMMA UnloadInv ==
  ASSUME GInv, UnloadPlugin
  PROVE  GathererTypes' /\ ThreadsInv' /\ Progress' /\ Agreement'
<1>. USE DEF GInv
<1>1. /\ UNCHANGED <<sampling, registered, todo, terminating, chain, held, now, mrvars>>
      /\ gpc = "removing" /\ gpc' = "idle" /\ todo = <<>>
      /\ plugin \in Plugins /\ plugin # NoPlugin /\ plugin' = NoPlugin
  BY DEF UnloadPlugin, mlvars, ThreadsInv, Phases, GathererTypes
<1>2. /\ loaded' \in Seq(Plugins) /\ NoDuplicates(loaded')
      /\ ToSet(loaded') = ToSet(loaded) \ {plugin}
  <2>1. PICK i \in 1 .. Len(loaded) : loaded[i] = plugin /\ loaded' = RemoveAt(loaded, i)
    BY DEF UnloadPlugin
  <2>. QED  BY <2>1, RemoveAtElements, RemoveAtSet DEF GathererTypes, Progress
<1>3. GathererTypes'  BY <1>1, <1>2 DEF GathererTypes, mrvars, mcvars
<1>4. ThreadsInv'  BY <1>1, ThreadsUnchanged
<1>5. ToSet(todo) = {}  BY <1>1 DEF ToSet
<1>6. \A b \in Blocks : ~Mine(b)' /\ Linked(b)' = Linked(b)  BY <1>1 DEF Mine, Linked
<1>7. \A b \in Blocks : Owned(b)' <=> Owned(b)
  <2>1. NoPlugin \notin ToSet(loaded)  BY PluginBlocksAssumption DEF GathererTypes, ToSet
  <2>. QED  BY <1>1, <1>2, <2>1 DEF Owned
<1>8. \A b \in Blocks : Mine(b) => b \notin registered /\ ~Owned(b)
  <2>1. ToSet(loaded) \subseteq Plugins  BY DEF GathererTypes, ToSet
  <2>. QED  BY <1>1, <1>5, <2>1, BlocksOfPlugins DEF Progress, Mine, Owned
<1>9. Progress'  BY <1>1, <1>2, <1>6, <1>7, <1>8 DEF Progress
<1>10. Agreement'  BY <1>1, <1>6 DEF Agreement
<1>. QED  BY <1>3, <1>4, <1>9, <1>10

(* gather_init, and gather_terminate when it begins without sampling and   *)
(* when, with no plugin left, it deletes a list that is empty already.     *)
LEMMA InitAndTerminateInv ==
  ASSUME GInv, gather_init \/ (gather_terminate /\ ~sampling) \/ TerminateDone
  PROVE  GathererTypes' /\ ThreadsInv' /\ Progress' /\ Agreement'
<1>. USE DEF GInv
<1>1. /\ UNCHANGED <<sampling, loaded, registered, gpc, plugin, todo, held, now, mrvars>>
      /\ gpc = "idle" /\ plugin = NoPlugin /\ terminating' \in BOOLEAN
      /\ terminating' => terminating \/ ~sampling
  <2>1. gpc = "idle" => plugin = NoPlugin  BY DEF ThreadsInv, Phases
  <2>2. terminating \in BOOLEAN  BY DEF GathererTypes
  <2>3. CASE gather_init  BY <2>1, <2>2, <2>3 DEF gather_init, Idle, mlvars
  <2>4. CASE gather_terminate /\ ~sampling
    BY <2>1, <2>4 DEF gather_terminate, StopSampling, Idle, mlvars
  <2>5. CASE TerminateDone  BY <2>1, <2>5 DEF TerminateDone, ML_Finish
  <2>. QED  BY <2>3, <2>4, <2>5
<1>2. ToSet(chain') = ToSet(chain)
  <2>1. CASE gather_init \/ (gather_terminate /\ ~sampling)
    BY <2>1 DEF gather_init, gather_terminate, StopSampling, mlvars
  <2>2. CASE TerminateDone
    <3>1. loaded = <<>> /\ chain' = <<>>  BY <2>2 DEF TerminateDone, ML_Finish
    <3>2. \A b \in Blocks : ~Mine(b) /\ ~Owned(b)  BY <1>1, <3>1 DEF Mine, Owned, ToSet
    <3>3. \A b \in Blocks : ~Linked(b)  BY <1>1, <3>2 DEF Progress, Agreement
    <3>4. ToSet(chain) \subseteq Blocks  BY DEF Inv, TypeOK, ToSet
    <3>. QED  BY <3>1, <3>3, <3>4 DEF Linked, ToSet
  <2>. QED  BY <2>1, <2>2
<1>3. GathererTypes'  BY <1>1 DEF GathererTypes, mrvars, mcvars
<1>4. ThreadsInv'  BY <1>1, ThreadsUnchanged
<1>5. Progress' /\ Agreement'  BY <1>1, <1>2, PluginsUnchanged
<1>. QED  BY <1>3, <1>4, <1>5

LEMMA GInitInv == Init => GInv
<1>. SUFFICES ASSUME Init PROVE GInv  OBVIOUS
<1>. USE DEF Init, MRInit
<1>1. Inv  BY InitInv
<1>2. GathererTypes
  <2>1. rpc \in [Retrievers -> Labels]  BY DEF Labels
  <2>2. loaded \in Seq(Plugins) /\ todo \in Seq(Blocks)  OBVIOUS
  <2>. QED  BY <2>1, <2>2 DEF GathererTypes
<1>3. Active = {}  BY DEF Active, Working, Holding
<1>4. ThreadsInv
  BY <1>3 DEF ThreadsInv, Phases, Counted, Holders, Holding, TimesPassed, RunningIsRegistered, MLInit
<1>5. NoDuplicates(loaded) /\ ToSet(loaded) = {} /\ ToSet(chain) = {}
  BY DEF NoDuplicates, ToSet, MLInit
<1>6. Progress /\ Agreement
  BY <1>5 DEF Progress, Agreement, Mine, Owned, Linked
<1>. QED  BY <1>1, <1>2, <1>4, <1>6 DEF GInv

LEMMA GNextInv == GInv /\ [Next]_vars => GInv'
<1>. SUFFICES ASSUME GInv, [Next]_vars PROVE GInv'  OBVIOUS
<1>1. Inv'  BY ListStep, NextInv DEF GInv
<1>2. GathererTypes' /\ ThreadsInv' /\ Progress' /\ Agreement'
  <2>1. CASE Clock \/ (SpuriousWakeup /\ UNCHANGED gvars) \/ UNCHANGED vars
    BY <2>1, EnvironmentInv
  <2>2. CASE ControllerThread  BY <2>2, ControllerInv
  <2>3. ASSUME NEW r \in Retrievers, RetrieverThread(r)
        PROVE  GathererTypes' /\ ThreadsInv' /\ Progress' /\ Agreement'
    BY <2>3, RetrieverInv
  <2>4. CASE gather_start \/ gather_stop \/ gather_stop_joined \/ NotifyRetriever
    BY <2>4, SamplingInv
  <2>5. CASE gather_init \/ TerminateDone  BY <2>5, InitAndTerminateInv
  <2>6. CASE gather_terminate
    <3>1. StopSampling \/ ~sampling  BY <2>6 DEF gather_terminate
    <3>. QED  BY <2>6, <3>1, SamplingInv, InitAndTerminateInv
  <2>7. ASSUME NEW p \in Plugins, metricplugin_add(p)
        PROVE  GathererTypes' /\ ThreadsInv' /\ Progress' /\ Agreement'
    BY <2>7, PluginAddInv
  <2>8. ASSUME NEW p \in Plugins, metricplugin_remove(p)
        PROVE  GathererTypes' /\ ThreadsInv' /\ Progress' /\ Agreement'
    BY <2>8, BeginRemoveInv DEF metricplugin_remove, Idle, HotPlugAllowed, BeginRemove
  <2>9. CASE AddMetric \/ AddDone  BY <2>9, AddMetricInv, AddDoneInv
  <2>10. CASE RejectMetric
    <3>1. /\ gpc = "adding" /\ BeginRemove(plugin)
          /\ plugin \in Plugins /\ (HotPlug \/ ~sampling) /\ terminating' = terminating
      BY <2>10, HotPlugAssumption
         DEF RejectMetric, BeginRemove, GInv, GathererTypes, ThreadsInv, Phases
    <3>. QED  BY <3>1, BeginRemoveInv
  <2>11. CASE TerminateRemoves
    <3>1. /\ terminating /\ gpc = "idle" /\ BeginRemove(Head(loaded)) /\ Head(loaded) \in Plugins
          /\ terminating' = terminating
      BY <2>11 DEF TerminateRemoves, BeginRemove, GInv, GathererTypes
    <3>2. ~sampling  BY <3>1 DEF GInv, ThreadsInv, Phases
    <3>. QED  BY <3>1, <3>2, BeginRemoveInv
  <2>12. CASE RemoveBlock \/ UnregisterMetric \/ UnloadPlugin
    BY <2>12, RemoveBlockInv, UnregisterInv, UnloadInv
  <2>. QED
    BY <2>1, <2>2, <2>3, <2>4, <2>5, <2>6, <2>7, <2>8, <2>9, <2>10, <2>11, <2>12
       DEF Next, Request, ControlThread
<1>. QED  BY <1>1, <1>2 DEF GInv

-----------------------------------------------------------------------------
(* The theorems.                                                           *)

(* What the control thread, the controller and the retrievers of gather.c  *)
(* and mretr.c know of each other, in every state (GInv).                  *)
THEOREM GathererInvariant == Spec => []GInv
BY GInitInv, GNextInv, PTL DEF Spec

(* The gatherer implements the protocol of the metric list: every call its *)
(* threads make is one that MLSpec allows.  ML_Reset of gather_start and   *)
(* ML_Finish of gather_terminate find no block in a retriever's hands, and *)
(* a retriever relocates the block it selected.                            *)
THEOREM ImplementsListProtocol == Spec => UsesListProperly
<1>1. Init => MLInit  BY DEF Init
<1>. QED  BY <1>1, ListStep, GathererInvariant, PTL DEF Spec, UsesListProperly, MLSpec

(* So what was proved of the list holds in the gatherer: no block leaks or *)
(* is used when it is free, and ML_Relocate never leaves the list locked.  *)
THEOREM ListIsSafe == Spec => [](BlocksAccountedFor /\ NeverLeftLocked)
<1>1. GInv => BlocksAccountedFor /\ NeverLeftLocked  BY DEF GInv, Inv
<1>. QED  BY <1>1, GathererInvariant, PTL

(* No retriever samples a metric twice in one of its intervals, when they  *)
(* are aligned with the wall clock, over stops, starts and reloadings.     *)
THEOREM RetrieversSampleOnce == Spec => OneSamplePerInterval
BY ImplementsListProtocol, SampledOncePerInterval, PTL DEF UsesListProperly

(* After gather_stop no retriever reads the list, runs a sampler or holds  *)
(* a block: MR_Finish (mretr.c:91) joins a controller that has waited for  *)
(* the count of retrievers to become zero.                                 *)
THEOREM StoppedIsQuiet == Spec => []StoppedMeansQuiet
<1>1. ASSUME GInv PROVE StoppedMeansQuiet
  <2>. SUFFICES ASSUME ~sampling
                PROVE  /\ \A r \in Retrievers : rpc[r] \in Gone \union {"enter", "signal"}
                       /\ held = {}
    BY DEF StoppedMeansQuiet
  <2>1. \A r \in Retrievers : rpc[r] \in Labels \ Working
    BY <1>1, Quiet DEF Active, GInv, GathererTypes
  <2>. QED  BY <1>1, <2>1, Quiet DEF Labels, Gone
<1>. QED  BY <1>1, GathererInvariant, PTL

(* Between two requests a metric is scheduled exactly when it is in the    *)
(* registry, and in the registry exactly when its plugin is loaded,        *)
(* whatever was added, rejected or removed while the retrievers ran.       *)
THEOREM ScheduleIsRegistry == Spec => []ScheduleMatchesRegistry
<1>1. ASSUME GInv PROVE ScheduleMatchesRegistry
  <2>. SUFFICES ASSUME gpc = "idle", NEW b \in Blocks
                PROVE  /\ Linked(b) <=> b \in registered
                       /\ b \in registered <=> \E p \in ToSet(loaded) : b \in ToSet(PluginBlocks[p])
    BY DEF ScheduleMatchesRegistry
  <2>1. plugin = NoPlugin /\ NoPlugin \notin ToSet(loaded)
    BY <1>1, PluginBlocksAssumption DEF GInv, ThreadsInv, Phases, GathererTypes, ToSet
  <2>2. ~Mine(b) /\ (Owned(b) <=> \E p \in ToSet(loaded) : b \in ToSet(PluginBlocks[p]))
    BY <2>1 DEF Mine, Owned
  <2>. QED  BY <1>1, <2>2 DEF GInv, Progress, Agreement
<1>. QED  BY <1>1, GathererInvariant, PTL

(* No retriever runs a sampler of an unloaded plugin, when plugins come    *)
(* and go only while sampling is off.                                      *)
THEOREM SamplersAreLoaded == Spec => []SamplerIsLoaded
<1>1. ASSUME GInv PROVE SamplerIsLoaded
  <2>. SUFFICES ASSUME ~HotPlug, NEW r \in Retrievers, rpc[r] = "running"
                PROVE  \E p \in ToSet(loaded) : mb[r] \in ToSet(PluginBlocks[p])
    BY DEF SamplerIsLoaded
  <2>1. sampling  BY <1>1, Quiet DEF Active, Working, Holding
  <2>2. plugin = NoPlugin  BY <1>1, <2>1 DEF GInv, ThreadsInv, Phases
  <2>3. mb[r] \in registered /\ mb[r] \in Blocks
    BY <1>1 DEF GInv, ThreadsInv, RunningIsRegistered, GathererTypes
  <2>. QED  BY <1>1, <2>2, <2>3 DEF GInv, Progress, Mine, Owned
<1>. QED  BY <1>1, GathererInvariant, PTL
-----------------------------------------------------------------------------
(* The order of the list.                                                  *)

(* All metrics have one interval.                                          *)
SameInterval == \A a, b \in Blocks : Interval[a] = Interval[b]

(* A single client has at most one block in its hands.                     *)
OneInHand == held = {} \/ \E b \in Blocks : held = {b}

(* In the list c a block of W is not due later than any that follows it.   *)
OrderedBy(c, W, due) ==
  \A i, j \in 1 .. Len(c) : i < j /\ c[i] \in W => due[c[i]] <= due[c[j]]

(* A block that waits is not due later than any that follows it, the one a *)
(* client holds included.                                                  *)
Waiting == {b \in Blocks : processingState[b] # "IN_PROGRESS"}
Ordered == OrderedBy(chain, Waiting, nextSampleDue)

(* No linked block is due later than one that is inserted now would be.    *)
DueByNow ==
  SyncLevel = 1 => \A b \in ToSet(chain) : nextSampleDue[b] <= FirstDue(b, now)

SortedInv == OneInHand /\ Ordered /\ DueByNow

-----------------------------------------------------------------------------
(* With equal intervals blocks inserted at one time are due at one time,   *)
(* and what is selected or inserted later is not due before.               *)
LEMMA SameDues ==
  ASSUME SameInterval, NEW a \in Blocks, NEW b \in Blocks, NEW s \in Nat, NEW t \in Nat
  PROVE  /\ FirstDue(a, s) = FirstDue(b, s)
         /\ SyncLevel = 1 /\ s <= t => FollowingDue(a, s) <= FirstDue(b, t) /\ FirstDue(a, s) <= FirstDue(b, t)
<1>1. Interval[a] = Interval[b]  BY DEF SameInterval
<1>2. FirstDue(a, s) = FirstDue(b, s) /\ FirstDue(a, t) = FirstDue(b, t)  BY <1>1 DEF FirstDue
<1>3. SyncLevel = 1 => FirstDue(a, s) = FollowingDue(a, s)
  <2>1. Interval[a] \in Nat \ {0}  BY IntervalAssumption
  <2>2. s % Interval[a] \in 0 .. Interval[a] - 1  BY <2>1, Division
  <2>. QED  BY <2>1, <2>2 DEF FirstDue, FollowingDue
<1>. QED  BY <1>2, <1>3, LaterDue

(* InsertAt keeps the order when it is not before an earlier due block.    *)
LEMMA InsertOrdered ==
  ASSUME NEW c \in Seq(Blocks), NEW b \in Blocks, NEW W \in SUBSET Blocks,
         NEW due \in [Blocks -> Nat], NEW p \in 1 .. Len(c) + 1, OrderedBy(c, W, due),
         \A q \in 1 .. p - 1 : c[q] \in W => due[c[q]] <= due[b],
         \A q \in p .. Len(c) : b \in W => due[b] <= due[c[q]]
  PROVE  OrderedBy(InsertAt(c, p, b), W, due)
<1>. DEFINE r == InsertAt(c, p, b)
<1>1. /\ r \in Seq(Blocks) /\ Len(r) = Len(c) + 1
      /\ \A j \in 1 .. Len(c) + 1 : r[j] = IF j < p THEN c[j] ELSE IF j = p THEN b ELSE c[j - 1]
  BY InsertAtElements
<1>2. Len(c) \in Nat  OBVIOUS
<1>. HIDE DEF r
<1>3. SUFFICES ASSUME NEW i \in 1 .. Len(c) + 1, NEW j \in 1 .. Len(c) + 1, i < j, r[i] \in W
               PROVE  due[r[i]] <= due[r[j]]
  BY <1>1 DEF OrderedBy, r
<1>4. CASE j < p
  <2>1. i \in 1 .. Len(c) /\ j \in 1 .. Len(c) /\ i < p  BY <1>2, <1>3, <1>4
  <2>2. r[i] = c[i] /\ r[j] = c[j]  BY <1>1, <1>4, <2>1
  <2>. QED  BY <1>3, <2>1, <2>2 DEF OrderedBy
<1>5. CASE j = p
  <2>1. i \in 1 .. p - 1 /\ r[i] = c[i] /\ r[j] = b  BY <1>1, <1>2, <1>3, <1>5
  <2>. QED  BY <1>3, <2>1
<1>6. CASE i = p
  <2>1. j - 1 \in p .. Len(c) /\ r[j] = c[j - 1] /\ r[i] = b  BY <1>1, <1>2, <1>3, <1>6
  <2>. QED  BY <1>3, <2>1
<1>7. CASE i < p /\ j > p
  <2>1. i \in 1 .. Len(c) /\ j - 1 \in 1 .. Len(c) /\ i < j - 1  BY <1>2, <1>7
  <2>2. r[i] = c[i]  BY <1>1, <1>7
  <2>3. r[j] = c[j - 1]  BY <1>1, <1>2, <1>7
  <2>. QED  BY <1>3, <2>1, <2>2, <2>3 DEF OrderedBy
<1>8. CASE i > p
  <2>1. i - 1 \in 1 .. Len(c) /\ j - 1 \in 1 .. Len(c) /\ i - 1 < j - 1  BY <1>2, <1>3, <1>8
  <2>2. r[i] = c[i - 1] /\ r[j] = c[j - 1]  BY <1>1, <1>2, <1>3, <1>8
  <2>. QED  BY <1>3, <2>1, <2>2 DEF OrderedBy
<1>. QED  BY <1>3, <1>4, <1>5, <1>6, <1>7, <1>8

(* RemoveAt keeps the order.                                               *)
LEMMA RemoveOrdered ==
  ASSUME NEW c \in Seq(Blocks), NEW W \in SUBSET Blocks, NEW due \in [Blocks -> Nat],
         NEW k \in 1 .. Len(c), OrderedBy(c, W, due)
  PROVE  OrderedBy(RemoveAt(c, k), W, due)
<1>. DEFINE r == RemoveAt(c, k)
<1>1. /\ r \in Seq(Blocks) /\ Len(r) = Len(c) - 1
      /\ \A j \in 1 .. Len(c) - 1 : r[j] = IF j < k THEN c[j] ELSE c[j + 1]
  BY RemoveAtElements
<1>2. Len(c) \in Nat  OBVIOUS
<1>. HIDE DEF r
<1>3. SUFFICES ASSUME NEW i \in 1 .. Len(c) - 1, NEW j \in 1 .. Len(c) - 1, i < j, r[i] \in W
               PROVE  due[r[i]] <= due[r[j]]
  BY <1>1 DEF OrderedBy, r
<1>. DEFINE at(x) == IF x < k THEN x ELSE x + 1
<1>4. at(i) \in 1 .. Len(c) /\ at(j) \in 1 .. Len(c) /\ at(i) < at(j)  BY <1>2, <1>3
<1>5. r[i] = c[at(i)] /\ r[j] = c[at(j)]  BY <1>1
<1>. QED  BY <1>3, <1>4, <1>5 DEF OrderedBy

-----------------------------------------------------------------------------
(* Inserting a block: aligned, it is due last of all; not aligned, first.  *)
LEMMA InsertSorted ==
  ASSUME Inv, SortedInv, SameInterval, NEW b \in Blocks, ML_Insert(b)
  PROVE  SortedInv'
<1>. USE DEF Inv, SortedInv
<1>1. /\ chain \in Seq(Blocks) /\ nextSampleDue \in [Blocks -> Nat] /\ now \in Nat
      /\ processingState \in [Blocks -> ProcessingStates] /\ b \notin ToSet(chain)
  BY DEF TypeOK, ML_Insert, BlocksAccountedFor, Linked
<1>2. /\ processingState[b] = "FREE" /\ held' = held /\ now' = now
      /\ processingState' = [processingState EXCEPT ![b] = "READY"]
      /\ nextSampleDue' = [nextSampleDue EXCEPT ![b] = FirstDue(b, now)]
  BY DEF ML_Insert
<1>3. PICK p \in 1 .. Len(chain) + 1 :
        /\ IsInsertPosition(chain, 1, FirstDue(b, now), p)
        /\ chain' = InsertAt(chain, p, b)
  BY DEF ML_Insert
<1>4. FirstDue(b, now) \in Nat  BY <1>1, DueTimes
<1>5. Waiting' = Waiting /\ Waiting \in SUBSET Blocks  BY <1>1, <1>2 DEF Waiting
<1>6. \A i \in 1 .. Len(chain) : /\ chain[i] \in Blocks /\ chain[i] # b /\ chain[i] \in ToSet(chain)
                                 /\ nextSampleDue'[chain[i]] = nextSampleDue[chain[i]]
  BY <1>1, <1>2 DEF ToSet
<1>7. nextSampleDue' \in [Blocks -> Nat] /\ nextSampleDue'[b] = FirstDue(b, now)
  BY <1>1, <1>2, <1>4
<1>8. OrderedBy(chain, Waiting, nextSampleDue')
  <2>1. \A i, j \in 1 .. Len(chain) :
          i < j /\ chain[i] \in Waiting => nextSampleDue[chain[i]] <= nextSampleDue[chain[j]]
    BY DEF Ordered, OrderedBy
  <2>. QED  BY <1>6, <2>1 DEF OrderedBy
<1>9. \A q \in 1 .. p - 1 : nextSampleDue[chain[q]] <= FirstDue(b, now)
  <2>. SUFFICES ASSUME NEW q \in 1 .. p - 1 PROVE nextSampleDue[chain[q]] <= FirstDue(b, now)
    OBVIOUS
  <2>1. q \in 1 .. Len(chain) /\ ~StopsAt(chain, FirstDue(b, now), q)
    BY <1>1, <1>3 DEF IsInsertPosition
  <2>2. nextSampleDue[chain[q]] \in Nat  BY <1>1, <1>6, <2>1
  <2>. QED  BY <1>4, <2>1, <2>2 DEF StopsAt
<1>10. \A q \in p .. Len(chain) : FirstDue(b, now) <= nextSampleDue[chain[q]]
  <2>. SUFFICES ASSUME NEW q \in p .. Len(chain) PROVE FirstDue(b, now) <= nextSampleDue[chain[q]]
    OBVIOUS
  <2>0. q \in 1 .. Len(chain) /\ p \in 1 .. Len(chain)  BY <1>1, <1>3
  <2>1. FirstDue(b, now) < nextSampleDue[chain[p]]  BY <1>3, <2>0 DEF IsInsertPosition, StopsAt
  <2>2. CASE SyncLevel = 1
    <3>1. nextSampleDue[chain[p]] <= FirstDue(chain[p], now)  BY <1>6, <2>0, <2>2 DEF DueByNow
    <3>2. FirstDue(chain[p], now) = FirstDue(b, now)  BY <1>1, <1>6, <2>0, SameDues
    <3>3. nextSampleDue[chain[p]] \in Nat  BY <1>1, <1>6, <2>0
    <3>. QED  BY <1>4, <2>1, <3>1, <3>2, <3>3
  <2>3. CASE SyncLevel # 1
    <3>1. FirstDue(b, now) = 0 /\ nextSampleDue[chain[q]] \in Nat  BY <1>1, <1>6, <2>0, <2>3 DEF FirstDue
    <3>. QED  BY <3>1
  <2>. QED  BY <2>2, <2>3
<1>11. Ordered'
  <2>1. \A q \in 1 .. p - 1 : q \in 1 .. Len(chain)  BY <1>1, <1>3
  <2>2. \A q \in p .. Len(chain) : q \in 1 .. Len(chain)  BY <1>1, <1>3
  <2>3. OrderedBy(InsertAt(chain, p, b), Waiting, nextSampleDue')
    BY <1>1, <1>5, <1>6, <1>7, <1>8, <1>9, <1>10, <2>1, <2>2, InsertOrdered
  <2>. QED  BY <1>3, <1>5, <2>3 DEF Ordered
<1>12. DueByNow'
  <2>1. ToSet(chain') = ToSet(chain) \union {b}  BY InsertLinks
  <2>2. \A a \in ToSet(chain) : a \in Blocks /\ a # b  BY <1>1 DEF ToSet
  <2>3. \A a \in ToSet(chain) : nextSampleDue'[a] = nextSampleDue[a]  BY <1>1, <1>2, <2>2
  <2>. QED  BY <1>2, <1>4, <1>7, <2>1, <2>3 DEF DueByNow, FirstDue
<1>13. OneInHand'  BY <1>2 DEF OneInHand
<1>. QED  BY <1>11, <1>12, <1>13

(* Unlinking a block.                                                      *)
LEMMA RemoveSorted ==
  ASSUME Inv, SortedInv, NEW b \in Blocks, ML_Remove(b)
  PROVE  SortedInv'
<1>. USE DEF Inv, SortedInv
<1>1. /\ chain \in Seq(Blocks) /\ nextSampleDue \in [Blocks -> Nat] /\ NoDuplicates(chain)
      /\ processingState \in [Blocks -> ProcessingStates]
  BY DEF TypeOK, ChainHasNoDuplicates, NoDuplicates
<1>2. /\ UNCHANGED <<nextSampleDue, held, now>>
      /\ processingState' = [processingState EXCEPT ![b] = IF @ = "IN_PROGRESS" THEN "DELETED" ELSE "FREE"]
  BY DEF ML_Remove
<1>3. PICK k \in 1 .. Len(chain) : chain[k] = b /\ chain' = RemoveAt(chain, k)
  BY DEF ML_Remove
<1>4. Waiting \in SUBSET Blocks /\ OrderedBy(chain', Waiting, nextSampleDue)
  BY <1>1, <1>3, RemoveOrdered DEF Ordered, Waiting
<1>5. ToSet(chain') = ToSet(chain) \ {b} /\ chain' \in Seq(Blocks)  BY RemoveLinks
<1>6. \A i \in 1 .. Len(chain') : chain'[i] \in Blocks /\ chain'[i] # b  BY <1>5 DEF ToSet
<1>7. \A i \in 1 .. Len(chain') : chain'[i] \in Waiting' <=> chain'[i] \in Waiting
  BY <1>1, <1>2, <1>6 DEF Waiting
<1>8. Ordered'  BY <1>2, <1>4, <1>7 DEF Ordered, OrderedBy
<1>9. DueByNow'  BY <1>2, <1>5 DEF DueByNow, FirstDue
<1>10. OneInHand'  BY <1>2 DEF OneInHand
<1>. QED  BY <1>8, <1>9, <1>10

(* Giving a block back: it is looked for where it belongs, from its place  *)
(* on, and those before it are not due later.                              *)
LEMMA RelocateSorted ==
  ASSUME Inv, SortedInv, NEW b \in Blocks, ML_Relocate(b)
  PROVE  SortedInv'
<1>. USE DEF Inv, SortedInv
<1>1. /\ chain \in Seq(Blocks) /\ nextSampleDue \in [Blocks -> Nat] /\ NoDuplicates(chain)
      /\ processingState \in [Blocks -> ProcessingStates]
  BY DEF TypeOK, ChainHasNoDuplicates, NoDuplicates
<1>2. UNCHANGED <<nextSampleDue, now>> /\ held' = held \ {b} /\ b \in held
  BY DEF ML_Relocate
<1>3. OneInHand' /\ held = {b}  BY <1>2 DEF OneInHand
<1>4. CASE RelocateDeleted(b)
  <2>1. chain' = chain /\ b \notin ToSet(chain) /\ processingState' = [processingState EXCEPT ![b] = "FREE"]
    BY <1>4 DEF RelocateDeleted, BlocksAccountedFor, Linked
  <2>2. \A i \in 1 .. Len(chain) : chain[i] \in Blocks /\ chain[i] # b  BY <1>1, <2>1 DEF ToSet
  <2>3. \A i \in 1 .. Len(chain) : chain[i] \in Waiting' <=> chain[i] \in Waiting
    BY <1>1, <2>1, <2>2 DEF Waiting
  <2>4. Ordered'  BY <1>2, <2>1, <2>3 DEF Ordered, OrderedBy
  <2>5. DueByNow'  BY <1>2, <2>1 DEF DueByNow, FirstDue
  <2>. QED  BY <1>3, <2>4, <2>5
<1>5. CASE RelocateLinked(b)
  <2>1. PICK i \in 1 .. Len(chain) :
          /\ chain[i] = b
          /\ \E p \in 1 .. Len(chain) :
               /\ IsInsertPosition(RemoveAt(chain, i), i, nextSampleDue[b], p)
               /\ chain' = InsertAt(RemoveAt(chain, i), p, b)
    BY <1>5 DEF RelocateLinked
  <2>. DEFINE rest == RemoveAt(chain, i)
  <2>2. PICK p \in 1 .. Len(chain) :
          IsInsertPosition(rest, i, nextSampleDue[b], p) /\ chain' = InsertAt(rest, p, b)
    BY <2>1
  <2>3. /\ rest \in Seq(Blocks) /\ Len(rest) = Len(chain) - 1 /\ Len(chain) \in Nat
        /\ \A j \in 1 .. Len(chain) - 1 : rest[j] = IF j < i THEN chain[j] ELSE chain[j + 1]
    <3>1. chain \in Seq(Blocks) /\ Len(chain) \in Nat  BY <1>1
    <3>2. /\ rest \in Seq(Blocks) /\ Len(rest) = Len(chain) - 1
          /\ \A j \in 1 .. Len(chain) - 1 : rest[j] = IF j < i THEN chain[j] ELSE chain[j + 1]
      BY <3>1, RemoveAtElements
    <3>. QED  BY <3>1, <3>2
  <2>17. ToSet(rest) = ToSet(chain) \ {b}  BY <1>1, <2>1, RemoveAtSet
  <2>4. Waiting \in SUBSET Blocks /\ OrderedBy(rest, Waiting, nextSampleDue)
    BY <1>1, RemoveOrdered DEF Ordered, Waiting
  <2>. HIDE DEF rest
  <2>5. processingState' = [processingState EXCEPT ![b] = "READY"]  BY <1>5 DEF RelocateLinked
  <2>6. Waiting' \in SUBSET Blocks  BY <1>1, <2>5 DEF Waiting
  <2>7. \A j \in 1 .. Len(rest) :
          /\ rest[j] \in Blocks /\ rest[j] \in ToSet(chain) /\ rest[j] # b
          /\ nextSampleDue[rest[j]] \in Nat
    <3>1. \A j \in 1 .. Len(rest) : rest[j] \in ToSet(rest) /\ rest[j] \in Blocks  BY <2>3 DEF ToSet
    <3>. QED  BY <1>1, <2>17, <3>1
  <2>8. \A j \in 1 .. Len(rest) : rest[j] \in Waiting /\ rest[j] \in Waiting'
    BY <1>1, <1>3, <2>5, <2>7 DEF Waiting, BlocksAccountedFor
  <2>9. OrderedBy(rest, Waiting', nextSampleDue)  BY <2>4, <2>8 DEF OrderedBy
  <2>10. \A q \in 1 .. p - 1 : nextSampleDue[rest[q]] <= nextSampleDue[b]
    <3>. SUFFICES ASSUME NEW q \in 1 .. p - 1 PROVE nextSampleDue[rest[q]] <= nextSampleDue[b]
      OBVIOUS
    <3>1. q \in 1 .. Len(rest)  BY <2>2, <2>3
    <3>2. CASE q < i
      <4>1. rest[q] = chain[q] /\ rest[q] \in Waiting /\ q \in 1 .. Len(chain)
        BY <2>3, <2>8, <3>1, <3>2
      <4>. QED  BY <2>1, <3>2, <4>1 DEF Ordered, OrderedBy
    <3>3. CASE q >= i
      <4>1. ~StopsAt(rest, nextSampleDue[b], q)  BY <2>2, <2>3, <3>3 DEF IsInsertPosition
      <4>. QED  BY <1>1, <2>7, <3>1, <4>1 DEF StopsAt
    <3>. QED  BY <2>3, <3>2, <3>3
  <2>11. \A q \in p .. Len(rest) : nextSampleDue[b] <= nextSampleDue[rest[q]]
    <3>. SUFFICES ASSUME NEW q \in p .. Len(rest) PROVE nextSampleDue[b] <= nextSampleDue[rest[q]]
      OBVIOUS
    <3>1. q \in 1 .. Len(rest) /\ p \in 1 .. Len(rest)  BY <2>2, <2>3
    <3>2. nextSampleDue[b] < nextSampleDue[rest[p]]  BY <2>2, <3>1 DEF IsInsertPosition, StopsAt
    <3>3. p = q \/ nextSampleDue[rest[p]] <= nextSampleDue[rest[q]]
      BY <2>4, <2>8, <3>1 DEF OrderedBy
    <3>4. nextSampleDue[b] \in Nat /\ nextSampleDue[rest[p]] \in Nat /\ nextSampleDue[rest[q]] \in Nat
      BY <1>1, <2>7, <3>1
    <3>. QED  BY <3>2, <3>3, <3>4
  <2>12. p \in 1 .. Len(rest) + 1  BY <2>2, <2>3
  <2>13. OrderedBy(InsertAt(rest, p, b), Waiting', nextSampleDue)
    BY <1>1, <2>3, <2>6, <2>9, <2>10, <2>11, <2>12, InsertOrdered
  <2>14. Ordered'  BY <1>2, <2>2, <2>13 DEF Ordered
  <2>15. ToSet(chain') = ToSet(chain)  BY <1>5, RelocateLinks
  <2>16. DueByNow'  BY <1>2, <2>15 DEF DueByNow, FirstDue
  <2>. QED  BY <1>3, <2>14, <2>16
<1>6. CASE RelocateNotFound(b)
  BY <1>2, <1>6 DEF RelocateNotFound, BlocksAccountedFor
<1>. QED  BY <1>4, <1>5, <1>6 DEF ML_Relocate

(* With one client the block that is selected is the first of the list.    *)
LEMMA FirstIsSelected ==
  ASSUME Inv, Ordered, held = {}, NEW b \in Blocks, NEW t \in Nat, ScanEndsAt(b, t), IsDue(b, t)
  PROVE  chain # <<>> /\ chain[1] = b
<1>. USE DEF Inv
<1>1. chain \in Seq(Blocks) /\ nextSampleDue \in [Blocks -> Nat]  BY DEF TypeOK
<1>2. PICK i \in 1 .. Len(chain) : chain[i] = b /\ \A j \in 1 .. i - 1 : ~Stops(chain[j], t)
  BY DEF ScanEndsAt
<1>3. Len(chain) \in Nat /\ 1 \in 1 .. Len(chain)  BY <1>1, <1>2
<1>4. chain[1] \in Blocks /\ chain[1] \in ToSet(chain)  BY <1>1, <1>3 DEF ToSet
<1>5. processingState[chain[1]] \in {"READY", "RESERVED"}
  BY <1>4 DEF BlocksAccountedFor, Linked
<1>6. CASE i > 1
  <2>1. ~Stops(chain[1], t)  BY <1>2, <1>3, <1>6
  <2>2. nextSampleDue[chain[1]] <= nextSampleDue[b]
    BY <1>2, <1>3, <1>4, <1>5, <1>6 DEF Ordered, OrderedBy, Waiting
  <2>3. nextSampleDue[chain[1]] \in Nat /\ nextSampleDue[b] \in Nat  BY <1>1, <1>4
  <2>. QED  BY <1>5, <2>1, <2>2, <2>3 DEF IsDue, Stops
<1>. QED  BY <1>1, <1>2, <1>3, <1>6

(* Selecting a block: it was the first.                                    *)
LEMMA SelectSorted ==
  ASSUME Inv, SortedInv, SameInterval, held = {}, NEW b \in Blocks, NEW t \in 0 .. now,
         ML_SelectNextDue(b, t)
  PROVE  SortedInv'
<1>. USE DEF Inv, SortedInv
<1>1. /\ chain \in Seq(Blocks) /\ nextSampleDue \in [Blocks -> Nat] /\ NoDuplicates(chain)
      /\ processingState \in [Blocks -> ProcessingStates] /\ now \in Nat /\ t \in Nat /\ t <= now
  BY DEF TypeOK, ChainHasNoDuplicates, NoDuplicates
<1>2. /\ UNCHANGED <<chain, now>> /\ held' = {b}
      /\ processingState' = [processingState EXCEPT ![b] = "IN_PROGRESS"]
      /\ nextSampleDue' = [nextSampleDue EXCEPT ![b] = FollowingDue(b, t)]
  BY DEF ML_SelectNextDue
<1>3. chain # <<>> /\ chain[1] = b  BY <1>1, FirstIsSelected DEF ML_SelectNextDue
<1>4. Len(chain) \in Nat /\ 1 \in 1 .. Len(chain)  BY <1>1, <1>3
<1>5. \A i \in 2 .. Len(chain) : chain[i] \in Blocks /\ chain[i] # b
  BY <1>1, <1>3, <1>4 DEF NoDuplicates
<1>6. b \notin Waiting'  BY <1>1, <1>2 DEF Waiting
<1>7. \A i \in 2 .. Len(chain) : /\ nextSampleDue'[chain[i]] = nextSampleDue[chain[i]]
                                 /\ chain[i] \in Waiting' => chain[i] \in Waiting
  BY <1>1, <1>2, <1>5 DEF Waiting
<1>8. Ordered'
  <2>. SUFFICES ASSUME NEW i \in 1 .. Len(chain), NEW j \in 1 .. Len(chain), i < j, chain[i] \in Waiting'
                PROVE  nextSampleDue'[chain[i]] <= nextSampleDue'[chain[j]]
    BY <1>2 DEF Ordered, OrderedBy
  <2>1. i \in 2 .. Len(chain) /\ j \in 2 .. Len(chain)  BY <1>3, <1>4, <1>6
  <2>. QED  BY <1>7, <2>1 DEF Ordered, OrderedBy
<1>9. DueByNow'
  <2>. SUFFICES ASSUME SyncLevel = 1, NEW a \in ToSet(chain) PROVE nextSampleDue'[a] <= FirstDue(a, now)
    BY <1>2 DEF DueByNow, FirstDue
  <2>1. a \in Blocks  BY <1>1 DEF ToSet
  <2>2. CASE a = b  BY <1>1, <1>2, <2>2, SameDues
  <2>3. CASE a # b  BY <1>1, <1>2, <2>1, <2>3 DEF DueByNow
  <2>. QED  BY <2>2, <2>3
<1>10. OneInHand'  BY <1>2 DEF OneInHand
<1>. QED  BY <1>8, <1>9, <1>10

(* ML_Reset gives all blocks one due time.                                 *)
LEMMA ResetSorted ==
  ASSUME Inv, SortedInv, SameInterval, ML_Reset \/ ML_Finish
  PROVE  SortedInv'
<1>. USE DEF Inv, SortedInv
<1>1. /\ chain \in Seq(Blocks) /\ nextSampleDue \in [Blocks -> Nat] /\ now \in Nat
      /\ held' = held /\ now' = now
  BY DEF TypeOK, ML_Reset, ML_Finish
<1>2. OneInHand'  BY <1>1 DEF OneInHand
<1>3. CASE ML_Reset
  <2>1. chain' = chain /\ \A a \in ToSet(chain) : a \in Blocks /\ nextSampleDue'[a] = FirstDue(a, now)
    BY <1>1, <1>3 DEF ML_Reset, Linked, ToSet
  <2>2. \A a, b \in ToSet(chain) : nextSampleDue'[a] = nextSampleDue'[b] /\ nextSampleDue'[a] \in Nat
    BY <1>1, <2>1, SameDues, DueTimes
  <2>3. Ordered'
    <3>1. \A i \in 1 .. Len(chain) : chain[i] \in ToSet(chain)  BY <1>1 DEF ToSet
    <3>. QED  BY <2>1, <2>2, <3>1 DEF Ordered, OrderedBy
  <2>4. DueByNow'  BY <1>1, <2>1, <2>2 DEF DueByNow, FirstDue
  <2>. QED  BY <1>2, <2>3, <2>4
<1>4. CASE ML_Finish
  <2>1. chain' = <<>> /\ ToSet(chain') = {}  BY <1>4 DEF ML_Finish, ToSet
  <2>2. Ordered' /\ DueByNow'  BY <2>1 DEF Ordered, OrderedBy, DueByNow
  <2>. QED  BY <1>2, <2>2
<1>. QED  BY <1>3, <1>4

(* Every call of the list keeps the order.                                 *)
LEMMA SortedNext ==
  ASSUME SameInterval, MaxClients = 1
  PROVE  Inv /\ SortedInv /\ [MLNext]_mlvars => SortedInv'
<1>. SUFFICES ASSUME Inv, SortedInv, [MLNext]_mlvars PROVE SortedInv'  OBVIOUS
<1>. USE DEF SortedInv
<1>1. TypeOK  BY DEF Inv
<1>2. CASE Tick
  <2>1. /\ UNCHANGED <<chain, processingState, nextSampleDue, held>> /\ now' = now + 1
        /\ now \in Nat /\ nextSampleDue \in [Blocks -> Nat] /\ chain \in Seq(Blocks)
    BY <1>1, <1>2 DEF Tick, TypeOK
  <2>2. Ordered' /\ OneInHand'  BY <2>1 DEF Ordered, OrderedBy, Waiting, OneInHand
  <2>3. DueByNow'
    <3>. SUFFICES ASSUME SyncLevel = 1, NEW b \in ToSet(chain) PROVE nextSampleDue[b] <= FirstDue(b, now + 1)
      BY <2>1 DEF DueByNow, FirstDue
    <3>1. b \in Blocks  BY <2>1 DEF ToSet
    <3>2. nextSampleDue[b] <= FirstDue(b, now) /\ FirstDue(b, now) <= FirstDue(b, now + 1)
      BY <2>1, <3>1, SameDues DEF DueByNow
    <3>3. nextSampleDue[b] \in Nat /\ FirstDue(b, now) \in Nat  BY <2>1, <3>1, DueTimes
    <3>4. now + 1 \in Nat  BY <2>1
    <3>5. FirstDue(b, now + 1) \in Nat  BY <3>1, <3>4, DueTimes
    <3>. QED  BY <3>2, <3>3, <3>5
  <2>. QED  BY <2>2, <2>3
<1>3. ASSUME UNCHANGED mlvars PROVE SortedInv'
  BY <1>3 DEF mlvars, Ordered, OrderedBy, Waiting, OneInHand, DueByNow, FirstDue
<1>4. ASSUME NEW t \in 0 .. now, ML_NothingDue(t) PROVE SortedInv'
  BY <1>3, <1>4 DEF ML_NothingDue
<1>5. ASSUME NEW b \in Blocks, NEW t \in 0 .. now, ML_SelectNextDue(b, t),
             Cardinality(held) < MaxClients
      PROVE  SortedInv'
  <2>1. held = {}  BY <1>5, FS_Singleton DEF OneInHand
  <2>. QED  BY <1>5, <2>1, SelectSorted
<1>6. ASSUME NEW b \in Blocks, NEW t \in 0 .. now, ML_ReserveNextDue(b, t) PROVE SortedInv'
  <2>1. /\ UNCHANGED <<chain, nextSampleDue, held, now>>
        /\ processingState' = [processingState EXCEPT ![b] = "RESERVED"]
        /\ processingState[b] = "READY" /\ processingState \in [Blocks -> ProcessingStates]
    BY <1>1, <1>6 DEF ML_ReserveNextDue, IsLater, TypeOK
  <2>2. Waiting' = Waiting  BY <2>1 DEF Waiting
  <2>. QED  BY <2>1, <2>2 DEF Ordered, OneInHand, DueByNow, FirstDue
<1>. QED
  BY <1>2, <1>3, <1>4, <1>5, <1>6, InsertSorted, RemoveSorted, RelocateSorted, ResetSorted DEF MLNext

(* The empty list is sorted.                                               *)
LEMMA SortedInit == MLInit => SortedInv
<1>. SUFFICES ASSUME MLInit PROVE SortedInv  OBVIOUS
<1>1. chain = <<>> /\ ToSet(chain) = {} /\ held = {}  BY DEF MLInit, ToSet
<1>. QED  BY <1>1 DEF SortedInv, OneInHand, Ordered, OrderedBy, DueByNow

(* With equal intervals and one client the list stays "sorted in the order *)
(* of their next due time" (mlist.c:21), whatever is inserted, removed and *)
(* reset, and although due times are changed where the block stands.       *)
THEOREM ListStaysSorted ==
  ASSUME SameInterval, MaxClients = 1 PROVE MLSpec => []WaitingBlocksSorted
<1>1. Inv /\ SortedInv => WaitingBlocksSorted
  BY DEF Inv, TypeOK, SortedInv, Ordered, OrderedBy, Waiting, WaitingBlocksSorted
<1>2. Inv /\ SortedInv /\ [MLNext]_mlvars => SortedInv'  BY SortedNext
<1>. QED  BY Safety, <1>1, <1>2, SortedInit, PTL DEF MLSpec

-----------------------------------------------------------------------------
(* Naps.                                                                   *)

(* Nobody wakes the retrievers up while plugins stay as they are.          *)
NoWakeups == controllerCmd # "WAKEUP" /\ retrieverCmd # "WAKEUP" /\ gpc # "notifying"

(* The blocks that wait for a retriever to wake up.                        *)
Reserved == {b \in ToSet(chain) : processingState[b] = "RESERVED"}

(* A reserved block is the one its retriever naps for, or it is due by the *)
(* time at which the list is searched next.                                *)
IsAwaited(r, due) ==
  \/ rpc[r] \in {"nap", "napping"} /\ nextTime[r] = due
  \/ rpc[r] \in Holding \union {"loop", "time"} /\ due <= now
  \/ rpc[r] = "select" /\ due <= currentTime[r]
  \/ rpc[r] = "loop" /\ retrieverCmd = "STOPALL"
  \/ rpc[r] \in {"signal", "exited"}

ReservedIsAwaited ==
  \A b \in Reserved, r \in Retrievers : IsAwaited(r, nextSampleDue[b])

(* A retriever naps for the block that is due first.                       *)
NapsForFirst ==
  \A r \in Retrievers :
    rpc[r] \in {"nap", "napping"} => \A b \in ToSet(chain) : nextTime[r] <= nextSampleDue[b]

NapTimes == nextTime \in [Retrievers -> Nat]

NapInv == NapTimes /\ NoWakeups /\ ReservedIsAwaited /\ NapsForFirst

-----------------------------------------------------------------------------
(* The list has one client, so there is one retriever ...                  *)
LEMMA OneRetriever ==
  ASSUME MaxClients = 1, NEW r \in Retrievers, NEW s \in Retrievers PROVE r = s
<1>1. IsFiniteSet(Retrievers) /\ Cardinality(Retrievers) <= 1 /\ Cardinality(Retrievers) \in Nat
  BY RetrieversAssumption, FS_CardinalityType
<1>2. IsFiniteSet(Retrievers \ {r}) /\ Cardinality(Retrievers \ {r}) = Cardinality(Retrievers) - 1
  BY <1>1, FS_RemoveElement
<1>3. Cardinality(Retrievers \ {r}) \in Nat  BY <1>2, FS_CardinalityType
<1>4. Retrievers \ {r} = {}  BY <1>1, <1>2, <1>3, FS_EmptySet
<1>. QED  BY <1>4

(* ... which holds no block when it searches the list.                     *)
LEMMA NothingHeld ==
  ASSUME GInv, SortedInv, MaxClients = 1, NEW r \in Retrievers, rpc[r] = "select" PROVE held = {}
<1>1. Cardinality(held) < MaxClients  BY RoomToSelect
<1>. QED  BY <1>1, FS_Singleton DEF SortedInv, OneInHand

(* When the search ends at a block that is due later, no other is reserved *)
(* and none is due before.                                                 *)
LEMMA LaterIsFirst ==
  ASSUME GInv, SortedInv, NapInv, held = {}, NEW r \in Retrievers, rpc[r] = "select",
         NEW b \in Blocks, ML_ReserveNextDue(b, currentTime[r])
  PROVE  Reserved = {} /\ \A a \in ToSet(chain) : nextSampleDue[b] <= nextSampleDue[a]
<1>. DEFINE t == currentTime[r]
<1>1. /\ chain \in Seq(Blocks) /\ nextSampleDue \in [Blocks -> Nat] /\ t \in Nat
      /\ \A a \in ToSet(chain) : a \in Blocks /\ processingState[a] \in {"READY", "RESERVED"}
  <2>1. chain \in Seq(Blocks) /\ nextSampleDue \in [Blocks -> Nat]  BY DEF GInv, Inv, TypeOK
  <2>2. t \in Nat  BY DEF GInv, GathererTypes
  <2>3. \A a \in ToSet(chain) : a \in Blocks  BY <2>1 DEF ToSet
  <2>. QED  BY <2>1, <2>2, <2>3 DEF GInv, Inv, BlocksAccountedFor, Linked
<1>2. IsLater(b, t)  BY DEF ML_ReserveNextDue
<1>3. PICK i \in 1 .. Len(chain) : chain[i] = b /\ \A j \in 1 .. i - 1 : ~Stops(chain[j], t)
  BY DEF ML_ReserveNextDue, ScanEndsAt
<1>4. \A j \in 1 .. Len(chain) : chain[j] \in ToSet(chain)  BY <1>1 DEF ToSet
<1>5. \A j \in i + 1 .. Len(chain) : nextSampleDue[b] <= nextSampleDue[chain[j]]
  BY <1>1, <1>3, <1>4 DEF SortedInv, Ordered, OrderedBy, Waiting
<1>. HIDE DEF t
<1>6. \A a \in Reserved : IsDue(a, t)
  <2>. SUFFICES ASSUME NEW a \in Reserved PROVE IsDue(a, t)  OBVIOUS
  <2>1. IsAwaited(r, nextSampleDue[a])  BY DEF NapInv, ReservedIsAwaited
  <2>. QED  BY <2>1 DEF t, IsAwaited, IsDue, Reserved, Holding
<1>7. Reserved = {}
  <2>. SUFFICES ASSUME NEW a \in Reserved PROVE FALSE  OBVIOUS
  <2>0. a \in ToSet(chain)  BY DEF Reserved
  <2>1. PICK k \in 1 .. Len(chain) : chain[k] = a  BY <1>1, <2>0 DEF ToSet
  <2>2. IsDue(a, t) /\ a \in ToSet(chain)  BY <1>6 DEF Reserved
  <2>3. k >= i  BY <1>3, <2>1, <2>2 DEF Stops
  <2>4. k # i
    <3>1. processingState[a] = "RESERVED" /\ processingState[b] = "READY"  BY <1>2 DEF Reserved, IsLater
    <3>. QED  BY <1>3, <2>1, <3>1
  <2>5. nextSampleDue[b] <= nextSampleDue[a]  BY <1>5, <2>1, <2>3, <2>4
  <2>. QED  BY <1>1, <1>2, <2>2, <2>5 DEF IsDue, IsLater
<1>8. i = 1
  <2>1. CASE i > 1
    <3>1. 1 \in 1 .. Len(chain) /\ chain[1] \in ToSet(chain) /\ ~Stops(chain[1], t)
      BY <1>1, <1>3, <1>4, <2>1
    <3>2. processingState[chain[1]] = "READY"  BY <1>1, <1>7, <3>1 DEF Reserved
    <3>. QED  BY <1>1, <3>1, <3>2 DEF Stops, IsDue, IsLater
  <2>. QED  BY <2>1
<1>. QED
  <2>1. SUFFICES ASSUME NEW a \in ToSet(chain) PROVE nextSampleDue[b] <= nextSampleDue[a]  BY <1>7
  <2>2. PICK k \in 1 .. Len(chain) : chain[k] = a  BY <1>1 DEF ToSet
  <2>3. CASE k = 1  BY <1>1, <1>3, <1>8, <2>2, <2>3
  <2>4. CASE k # 1  BY <1>1, <1>5, <1>8, <2>2, <2>4
  <2>. QED  BY <2>3, <2>4

(* What a retriever does.                                                  *)
LEMMA NapRetriever ==
  ASSUME GInv, SortedInv, NapInv, MaxClients = 1, NEW r \in Retrievers, RetrieverThread(r)
  PROVE  NapInv'
<1>. USE DEF NapInv
<1>0. /\ rpc \in [Retrievers -> Labels] /\ currentTime \in [Retrievers -> Nat] /\ now \in Nat
      /\ nextSampleDue \in [Blocks -> Nat] /\ processingState \in [Blocks -> ProcessingStates]
      /\ chain \in Seq(Blocks) /\ currentTime[r] <= now /\ ToSet(chain) \subseteq Blocks
  <2>1. ToSet(chain) \subseteq Blocks  BY DEF GInv, Inv, TypeOK, ToSet
  <2>. QED  BY <2>1 DEF GInv, GathererTypes, Inv, TypeOK, ThreadsInv, TimesPassed
<1>11. NapTimes'
  <2>1. ASSUME NEW b \in Blocks, SelectLater(r, b) PROVE NapTimes'
    BY <1>0, <2>1 DEF SelectLater, NapTimes
  <2>. QED
    BY <2>1 DEF NapTimes, RetrieverThread, RetrieverStep, SampleBegin, SampleEnd, Enter, Continue, LoopHead,
         SignalController, UseFreedControl, ReadTime, SelectDue, SelectNothing, Sleep,
         SleepEnds, Nap, Relocate, rlocals
<1>1. NoWakeups'
  BY DEF NoWakeups, RetrieverThread, RetrieverStep, SampleBegin, SampleEnd, Enter, Continue, LoopHead,
         SignalController, UseFreedControl, ReadTime, SelectDue, SelectLater, SelectNothing, Sleep,
         SleepEnds, Nap, Relocate, Noticed, mcvars, gvars
<1>2. SUFFICES /\ \A b \in Reserved' : IsAwaited(r, nextSampleDue[b])'
               /\ rpc'[r] \in {"nap", "napping"} =>
                    \A b \in ToSet(chain') : nextTime'[r] <= nextSampleDue'[b]
  <2>1. \A s \in Retrievers : s = r  BY OneRetriever
  <2>. QED  BY <1>1, <1>11, <2>1 DEF ReservedIsAwaited, NapsForFirst
<1>3. /\ \A b \in Reserved : IsAwaited(r, nextSampleDue[b])
      /\ rpc[r] \in {"nap", "napping"} => \A b \in ToSet(chain) : nextTime[r] <= nextSampleDue[b]
  BY DEF ReservedIsAwaited, NapsForFirst
<1>4. \A b \in Reserved : b \in Blocks /\ nextSampleDue[b] \in Nat  BY <1>0 DEF Reserved
<1>5. ASSUME UNCHANGED mlvars,
             \/ Enter(r) \/ Continue(r) \/ SignalController(r) \/ UseFreedControl(r) \/ ReadTime(r)
             \/ Sleep(r) \/ SleepEnds(r) \/ Nap(r) \/ SampleBegin(r) \/ SampleEnd(r)
      PROVE  /\ \A b \in Reserved' : IsAwaited(r, nextSampleDue[b])'
             /\ rpc'[r] \in {"nap", "napping"} =>
                  \A b \in ToSet(chain') : nextTime'[r] <= nextSampleDue'[b]
  <2>0. Reserved' = Reserved /\ chain' = chain /\ nextSampleDue' = nextSampleDue /\ now' = now
    BY <1>5 DEF Reserved, mlvars
  <2>1. CASE Enter(r) \/ Continue(r)
    <3>1. /\ rpc[r] \in {"enter", "loop"} /\ rpc'[r] \in {"time", "signal"}
          /\ rpc'[r] = "time" => retrieverCmd # "STOPALL"
      BY <1>0, <2>1 DEF Enter, Continue, At, LoopHead, Goto, Noticed
    <3>. QED  BY <1>3, <2>0, <3>1 DEF IsAwaited, Holding
  <2>2. CASE SignalController(r) \/ UseFreedControl(r)
    <3>1. rpc'[r] = "exited"  BY <1>0, <2>2 DEF SignalController, UseFreedControl, Goto
    <3>. QED  BY <3>1 DEF IsAwaited
  <2>3. CASE ReadTime(r)
    <3>1. rpc[r] = "time" /\ rpc'[r] = "select" /\ currentTime'[r] = now
      BY <1>0, <2>3 DEF ReadTime, At, Goto
    <3>. QED  BY <1>3, <2>0, <3>1 DEF IsAwaited, Holding
  <2>4. CASE Sleep(r) \/ SleepEnds(r)
    <3>1. rpc[r] \in {"sleep", "sleeping"} /\ rpc'[r] \in {"sleeping", "loop"}
      BY <1>0, <2>4 DEF Sleep, SleepEnds, At, Goto
    <3>. QED  BY <1>3, <2>0, <3>1 DEF IsAwaited, Holding
  <2>5. CASE Nap(r)
    <3>1. /\ rpc[r] \in {"nap", "napping"} /\ nextTime' = nextTime
          /\ \/ rpc'[r] = "napping"
             \/ /\ rpc'[r] = "loop" /\ retrieverCmd' = Noticed(retrieverCmd)
                /\ ~(now < nextTime[r]) \/ retrieverCmd # "REGULAR"
      BY <1>0, <2>5 DEF Nap, At, Goto, rlocals
    <3>2. retrieverCmd \in {"REGULAR", "STOPALL"}  BY DEF NoWakeups, GInv, GathererTypes
    <3>3. CASE rpc'[r] = "napping"  BY <1>3, <2>0, <3>1, <3>3 DEF IsAwaited, Holding
    <3>4. CASE rpc'[r] = "loop" /\ retrieverCmd # "REGULAR"
      BY <3>1, <3>2, <3>4 DEF IsAwaited, Noticed
    <3>5. CASE rpc'[r] = "loop" /\ ~(now < nextTime[r])
      <4>1. \A b \in Reserved : nextSampleDue[b] <= now
        <5>1. \A b \in Reserved : nextSampleDue[b] = nextTime[r]  BY <1>3, <3>1 DEF IsAwaited, Holding
        <5>2. nextTime[r] \in Nat /\ nextTime[r] <= now  BY <1>0, <3>5 DEF NapTimes
        <5>. QED  BY <5>1, <5>2
      <4>. QED  BY <2>0, <3>5, <4>1 DEF IsAwaited, Holding
    <3>. QED  BY <3>1, <3>3, <3>4, <3>5
  <2>6. CASE SampleBegin(r) \/ SampleEnd(r)
    <3>1. rpc[r] \in Holding /\ rpc'[r] \in {"running", "relocate"}
      BY <1>0, <2>6 DEF SampleBegin, SampleEnd, At, Goto, Holding
    <3>. QED  BY <1>3, <2>0, <3>1 DEF IsAwaited, Holding
  <2>. QED  BY <1>5, <2>1, <2>2, <2>3, <2>4, <2>5, <2>6
<1>6. ASSUME NEW b \in Blocks, SelectDue(r, b)
      PROVE  /\ \A a \in Reserved' : IsAwaited(r, nextSampleDue[a])'
             /\ rpc'[r] \in {"nap", "napping"} =>
                  \A a \in ToSet(chain') : nextTime'[r] <= nextSampleDue'[a]
  <2>1. /\ rpc[r] = "select" /\ rpc'[r] = "sample" /\ now' = now /\ chain' = chain
        /\ processingState' = [processingState EXCEPT ![b] = "IN_PROGRESS"]
        /\ nextSampleDue' = [nextSampleDue EXCEPT ![b] = FollowingDue(b, currentTime[r])]
    BY <1>0, <1>6 DEF SelectDue, At, Goto, ML_SelectNextDue
  <2>2. \A a \in Reserved' : a \in Reserved /\ nextSampleDue'[a] = nextSampleDue[a]
    BY <1>0, <2>1 DEF Reserved
  <2>3. \A a \in Reserved : nextSampleDue[a] <= currentTime[r]
    BY <1>3, <2>1 DEF IsAwaited, Holding
  <2>4. \A a \in Reserved : nextSampleDue[a] <= now
    BY <1>0, <1>4, <2>3
  <2>. QED  BY <2>1, <2>2, <2>4 DEF IsAwaited, Holding
<1>7. ASSUME NEW b \in Blocks, SelectLater(r, b)
      PROVE  /\ \A a \in Reserved' : IsAwaited(r, nextSampleDue[a])'
             /\ rpc'[r] \in {"nap", "napping"} =>
                  \A a \in ToSet(chain') : nextTime'[r] <= nextSampleDue'[a]
  <2>1. /\ rpc[r] = "select" /\ rpc'[r] = "nap" /\ now' = now /\ chain' = chain
        /\ processingState' = [processingState EXCEPT ![b] = "RESERVED"]
        /\ nextSampleDue' = nextSampleDue /\ ML_ReserveNextDue(b, currentTime[r])
        /\ nextTime' = [nextTime EXCEPT ![r] = nextSampleDue[b]]
    BY <1>0, <1>7 DEF SelectLater, At, Goto, ML_ReserveNextDue
  <2>2. Reserved = {} /\ \A a \in ToSet(chain) : nextSampleDue[b] <= nextSampleDue[a]
    BY <2>1, NothingHeld, LaterIsFirst
  <2>3. Reserved' \subseteq {b}  BY <1>0, <2>1, <2>2 DEF Reserved
  <2>4. nextTime'[r] = nextSampleDue[b]  BY <2>1 DEF NapTimes
  <2>. QED  BY <2>1, <2>2, <2>3, <2>4 DEF IsAwaited
<1>8. CASE SelectNothing(r)
  <2>1. /\ rpc[r] = "select" /\ rpc'[r] = "sleep" /\ UNCHANGED mlvars
        /\ \A i \in 1 .. Len(chain) : ~Stops(chain[i], currentTime[r])
    BY <1>0, <1>8 DEF SelectNothing, At, Goto, ML_NothingDue
  <2>2. \A a \in Reserved : \E i \in 1 .. Len(chain) : chain[i] = a
    <3>1. DOMAIN chain = 1 .. Len(chain)  BY <1>0
    <3>. QED  BY <3>1 DEF Reserved, ToSet
  <2>3. \A a \in Reserved : IsDue(a, currentTime[r])
    BY <1>3, <2>1 DEF IsAwaited, Holding, IsDue, Reserved
  <2>4. Reserved = {}  BY <2>1, <2>2, <2>3 DEF Stops
  <2>5. Reserved' = {}  BY <2>1, <2>4 DEF Reserved, mlvars
  <2>. QED  BY <2>1, <2>5
<1>9. CASE Relocate(r)
  <2>1. /\ rpc[r] = "relocate" /\ rpc'[r] = "loop" /\ mb[r] \in Blocks /\ ML_Relocate(mb[r])
        /\ now' = now /\ nextSampleDue' = nextSampleDue
    BY <1>0, <1>9 DEF Relocate, At, Goto, ML_Relocate, GInv, ThreadsInv, Holders, Holding, Inv, TypeOK
  <2>2. Reserved' \subseteq Reserved
    <3>1. CASE RelocateLinked(mb[r])
      <4>1. ToSet(chain') = ToSet(chain)  BY <2>1, <3>1, RelocateLinks DEF GInv
      <4>. QED  BY <1>0, <2>1, <3>1, <4>1 DEF RelocateLinked, Reserved
    <3>2. CASE RelocateDeleted(mb[r])  BY <1>0, <2>1, <3>2 DEF RelocateDeleted, Reserved
    <3>3. CASE RelocateNotFound(mb[r])  BY <3>3 DEF RelocateNotFound, Reserved
    <3>. QED  BY <2>1, <3>1, <3>2, <3>3 DEF ML_Relocate
  <2>3. \A a \in Reserved : nextSampleDue[a] <= now  BY <1>3, <2>1 DEF IsAwaited, Holding
  <2>. QED  BY <2>1, <2>2, <2>3 DEF IsAwaited, Holding
<1>10. \/ Enter(r) \/ Continue(r) \/ SignalController(r) \/ UseFreedControl(r) \/ ReadTime(r)
       \/ Sleep(r) \/ SleepEnds(r) \/ Nap(r) \/ SampleBegin(r) \/ SampleEnd(r)
       => UNCHANGED mlvars
  BY DEF Enter, Continue, LoopHead, SignalController, UseFreedControl, ReadTime, Sleep, SleepEnds, Nap,
         SampleBegin, SampleEnd, chvars, mlvars
<1>. QED  BY <1>5, <1>6, <1>7, <1>8, <1>9, <1>10 DEF RetrieverThread, RetrieverStep

(* What the control thread, the controller and the clock do.               *)
LEMMA NapOthers ==
  ASSUME GInv, NapInv, ~HotPlug, Next, \A r \in Retrievers : ~RetrieverThread(r)
  PROVE  NapInv'
<1>. USE DEF NapInv
<1>1. /\ rpc \in [Retrievers -> Labels] /\ chain \in Seq(Blocks) /\ now \in Nat
      /\ nextSampleDue \in [Blocks -> Nat] /\ processingState \in [Blocks -> ProcessingStates]
      /\ \A b \in Reserved : nextSampleDue[b] \in Nat
  <2>1. ToSet(chain) \subseteq Blocks  BY DEF GInv, Inv, TypeOK, ToSet
  <2>. QED  BY <2>1 DEF GInv, GathererTypes, Inv, TypeOK, Reserved
<1>2. ASSUME UNCHANGED <<rpc, nextTime, currentTime, chain, nextSampleDue, processingState>>,
             now' \in {now, now + 1}, retrieverCmd = "STOPALL" => retrieverCmd' = "STOPALL"
      PROVE  ReservedIsAwaited' /\ NapsForFirst'
  <2>1. Reserved' = Reserved  BY <1>2 DEF Reserved
  <2>2. NapsForFirst'  BY <1>2 DEF NapsForFirst
  <2>3. \A b \in Reserved : nextSampleDue[b] <= now => nextSampleDue[b] <= now'  BY <1>1, <1>2
  <2>4. ReservedIsAwaited'  BY <1>2, <2>1, <2>3 DEF ReservedIsAwaited, IsAwaited
  <2>. QED  BY <2>2, <2>4
<1>12. NapTimes'
  <2>1. nextTime' = nextTime
    BY DEF Next, Request, gather_init, gather_start, gather_stop, gather_terminate, StopSampling,
           metricplugin_add, metricplugin_remove, BeginRemove, ControlThread, gather_stop_joined,
           AddMetric, RejectMetric, NotifyRetriever, AddDone, RemoveBlock, UnregisterMetric,
           UnloadPlugin, TerminateRemoves, TerminateDone, MR_Init, MR_Wakeup, MR_FinishRequest,
           MR_FinishJoin, ControllerThread, Controller, StartRetrievers, ControllerMain,
           ControllerWokenUp, ControllerStop, ControllerStopWokenUp, SpuriousWakeup, Clock, rlocals,
           mrvars
  <2>. QED  BY <2>1 DEF NapTimes
<1>3. CASE Clock
  BY <1>2, <1>12, <1>3 DEF Clock, Tick, mrvars, mcvars, gvars, NoWakeups
<1>4. CASE SpuriousWakeup /\ UNCHANGED gvars
  BY <1>2, <1>12, <1>4 DEF SpuriousWakeup, chvars, rlocals, gvars, NoWakeups
<1>5. CASE ControllerThread
  <2>1. CASE StartRetrievers
    <3>1. /\ cpc = "start" /\ rpc' = [r \in Retrievers |-> "enter"]
          /\ UNCHANGED <<controllerCmd, retrieverCmd, gpc, chain, processingState>>
      BY <1>5, <2>1 DEF ControllerThread, Controller, StartRetrievers, mcvars, chvars, gvars
    <3>2. \A r \in Retrievers : rpc[r] = "none"  BY <3>1 DEF GInv, ThreadsInv, Phases
    <3>3. \A b \in Reserved, r \in Retrievers : FALSE
      BY <3>2 DEF ReservedIsAwaited, IsAwaited, Holding
    <3>4. Reserved' = Reserved  BY <3>1 DEF Reserved
    <3>. QED  BY <1>12, <3>1, <3>3, <3>4 DEF NoWakeups, ReservedIsAwaited, NapsForFirst
  <2>2. CASE ~StartRetrievers
    <3>1. /\ UNCHANGED <<rpc, nextTime, currentTime, chain, nextSampleDue, processingState, gpc, now,
                         controllerCmd>>
          /\ retrieverCmd' \in {retrieverCmd, "STOPALL"}
      BY <1>5, <2>2
         DEF ControllerThread, Controller, ControllerMain, ControllerWokenUp, ControllerStop,
             ControllerStopWokenUp, chvars, gvars, rlocals, NoWakeups
    <3>. QED  BY <1>2, <1>12, <3>1 DEF NoWakeups
  <2>. QED  BY <2>1, <2>2
<1>6. CASE gather_start
  <2>1. /\ rpc' = [r \in Retrievers |-> "none"] /\ retrieverCmd' = "REGULAR"
        /\ controllerCmd' = "REGULAR" /\ gpc' = gpc /\ chain' = chain
        /\ \A b \in Blocks : Linked(b) => processingState'[b] = "READY"
    BY <1>6 DEF gather_start, MR_Init, ML_Reset
  <2>2. Reserved' = {}
    <3>1. ToSet(chain) \subseteq Blocks  BY <1>1 DEF ToSet
    <3>. QED  BY <2>1, <3>1 DEF Reserved, Linked
  <2>. QED  BY <1>12, <2>1, <2>2 DEF NoWakeups, ReservedIsAwaited, NapsForFirst
<1>7. CASE gather_stop \/ gather_terminate \/ gather_stop_joined
  <2>1. /\ UNCHANGED <<rpc, nextTime, currentTime, chain, nextSampleDue, processingState, now, retrieverCmd>>
        /\ controllerCmd' \in {controllerCmd, "TERMINATE"} /\ gpc' \in {gpc, "joining", "idle"}
    BY <1>7 DEF gather_stop, gather_terminate, StopSampling, gather_stop_joined, MR_FinishRequest,
                MR_FinishJoin, rlocals, mlvars, mrvars, mcvars
  <2>. QED  BY <1>2, <1>12, <2>1 DEF NoWakeups
<1>8. ASSUME UNCHANGED <<mlvars, mrvars>>, gpc' # "notifying" PROVE NapInv'
  BY <1>2, <1>12, <1>8 DEF mlvars, mrvars, mcvars, NoWakeups
<1>9. CASE \/ gather_init \/ RejectMetric \/ AddDone \/ UnregisterMetric \/ UnloadPlugin \/ TerminateRemoves
           \/ \E p \in Plugins : metricplugin_add(p) \/ metricplugin_remove(p)
  <2>1. UNCHANGED <<mlvars, mrvars>> /\ gpc' # "notifying"
    BY <1>9 DEF gather_init, RejectMetric, AddDone, UnregisterMetric, UnloadPlugin, TerminateRemoves,
                metricplugin_add, metricplugin_remove, BeginRemove, NoWakeups
  <2>. QED  BY <1>8, <2>1
<1>10. ~NotifyRetriever  BY DEF NotifyRetriever, NoWakeups
<1>11. CASE AddMetric \/ RemoveBlock \/ TerminateDone
  <2>1. ~sampling /\ UNCHANGED mrvars /\ gpc' # "notifying"
    BY <1>11 DEF AddMetric, RemoveBlock, TerminateDone, GInv, ThreadsInv, Phases
  <2>2. Active = {}  BY <2>1, Quiet
  <2>3. \A r \in Retrievers : rpc[r] \in {"none", "enter", "signal", "exited"}
    BY <1>1, <2>2 DEF Active, Labels
  <2>4. Reserved' \subseteq Reserved
    <3>1. CASE AddMetric
      <4>1. Head(todo) \in Blocks /\ ML_Insert(Head(todo))  BY <3>1 DEF AddMetric, GInv, GathererTypes
      <4>2. ToSet(chain') = ToSet(chain) \union {Head(todo)}  BY <4>1, InsertLinks DEF GInv
      <4>3. processingState' = [processingState EXCEPT ![Head(todo)] = "READY"]
        BY <4>1 DEF ML_Insert
      <4>. QED  BY <1>1, <4>1, <4>2, <4>3 DEF Reserved
    <3>2. CASE RemoveBlock
      <4>1. CASE Linked(Head(todo))
        <5>1. Head(todo) \in Blocks /\ ML_Remove(Head(todo))
          BY <3>2, <4>1 DEF RemoveBlock, GInv, GathererTypes
        <5>2. ToSet(chain') = ToSet(chain) \ {Head(todo)}  BY <5>1, RemoveLinks DEF GInv
        <5>. QED  BY <1>1, <5>1, <5>2 DEF ML_Remove, Reserved
      <4>2. CASE ~Linked(Head(todo))  BY <3>2, <4>2 DEF RemoveBlock, Reserved, mlvars
      <4>. QED  BY <4>1, <4>2
    <3>3. CASE TerminateDone  BY <3>3 DEF TerminateDone, ML_Finish, Reserved, ToSet
    <3>. QED  BY <1>11, <3>1, <3>2, <3>3
  <2>5. \A b \in Reserved, r \in Retrievers : rpc[r] \in {"signal", "exited"}
    BY <2>3 DEF ReservedIsAwaited, IsAwaited, Holding
  <2>6. rpc' = rpc /\ controllerCmd' = controllerCmd /\ retrieverCmd' = retrieverCmd
    BY <2>1 DEF mrvars, mcvars
  <2>7. ReservedIsAwaited'  BY <2>4, <2>5, <2>6 DEF ReservedIsAwaited, IsAwaited
  <2>8. NapsForFirst'  BY <2>3, <2>6 DEF NapsForFirst
  <2>. QED  BY <1>12, <2>1, <2>6, <2>7, <2>8 DEF NoWakeups
<1>. QED
  BY <1>3, <1>4, <1>5, <1>6, <1>7, <1>9, <1>10, <1>11 DEF Next, Request, ControlThread

(* So does the gatherer's schedule: it has one retriever (gather.c:143).   *)
THEOREM ScheduleStaysSorted ==
  ASSUME SameInterval, MaxClients = 1 PROVE Spec => []WaitingBlocksSorted
BY ListStaysSorted, ImplementsListProtocol, PTL DEF UsesListProperly

(* With equal intervals, and plugins that come and go only while sampling  *)
(* is off, a napping retriever never sleeps past the due time of a waiting *)
(* block: it reserves the first of the list, and finds no block that was   *)
(* reserved before and would be passed over (mlist.c:112, mretr.c:231).    *)
THEOREM NapsEndInTime ==
  ASSUME SameInterval, MaxClients = 1, ~HotPlug PROVE Spec => []NapEndsInTime
<1>1. Init => SortedInv /\ NapInv
  <2>. SUFFICES ASSUME Init PROVE SortedInv /\ NapInv  OBVIOUS
  <2>1. SortedInv  BY SortedInit DEF Init
  <2>2. ToSet(chain) = {}  BY DEF Init, MLInit, ToSet
  <2>3. NapInv
    BY <2>2 DEF Init, MRInit, NapInv, NapTimes, NoWakeups, ReservedIsAwaited, Reserved, NapsForFirst
  <2>. QED  BY <2>1, <2>3
<1>2. GInv /\ SortedInv /\ NapInv /\ [Next]_vars => SortedInv' /\ NapInv'
  <2>. SUFFICES ASSUME GInv, SortedInv, NapInv, [Next]_vars PROVE SortedInv' /\ NapInv'  OBVIOUS
  <2>1. SortedInv'  BY ListStep, SortedNext DEF GInv
  <2>2. CASE \E r \in Retrievers : RetrieverThread(r)  BY <2>1, <2>2, NapRetriever
  <2>3. CASE UNCHANGED vars
    BY <2>1, <2>3 DEF vars, mlvars, mrvars, mcvars, rlocals, gvars, NapInv, NapTimes, NoWakeups, ReservedIsAwaited, IsAwaited,
                Reserved, NapsForFirst
  <2>4. CASE Next /\ \A r \in Retrievers : ~RetrieverThread(r)  BY <2>1, <2>4, NapOthers
  <2>. QED  BY <2>1, <2>2, <2>3, <2>4
<1>3. NapInv => NapEndsInTime  BY DEF NapInv, NapsForFirst, NapEndsInTime
<1>. QED  BY <1>1, <1>2, <1>3, GathererInvariant, PTL DEF Spec
=============================================================================
