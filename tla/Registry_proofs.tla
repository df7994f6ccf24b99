--------------------------- MODULE Registry_proofs --------------------------
(***************************************************************************)
(* Proofs about the registry of rreg.c and mreg.c, for any names, any      *)
(* number of other threads, any sizes and any number of restarts.          *)
(***************************************************************************)
EXTENDS Registry, SequenceTheorems, WellFoundedInduction, TLAPS

USE RegistryAssumption

-----------------------------------------------------------------------------
(* The inductive invariant.                                                *)

Slot == [name : Names \union {NoName}, def : BOOLEAN]

Labels == {"idle", "search", "create", "resolved", "terminating", "get", "calculate"}
Calls  == {"none", "load", "update", "put"}

TypeOK ==
  /\ entries \in Seq(Slot)
  /\ loaded \in [Names -> Nat]
  /\ restarts \in Nat
  /\ array \in Nat /\ base \in [Threads -> Nat]
  /\ pc \in [Threads -> Labels]
  /\ op \in [Threads -> Calls]
  /\ name \in [Threads -> Names \union {NoName}]
  /\ id \in [Threads -> Nat]

(* A thread that resolves a name has one; only the control thread loads,   *)
(* updates and terminates, and the threads of gatherd resolve nothing.     *)
Roles ==
  /\ \A t \in Threads : pc[t] \in {"search", "create", "resolved"} => name[t] \in Names
  /\ op[Control] = "none" <=> pc[Control] \in {"idle", "terminating"}
  /\ pc[Control] \notin {"get", "calculate"} /\ op[Control] # "put"
  /\ \A t \in Others : pc[t] # "terminating" /\ op[t] \in {"none", "put"}
  /\ daemon = "gatherd" => \A t \in Others : pc[t] \notin {"search", "create", "resolved"}
  /\ pc[Control] = "terminating" => restarts > 0

(* What the control thread of gatherd knows between two critical sections: *)
(* nobody else takes a slot for the name it looks for.                     *)
ControlIsRight ==
  /\ At(Control, "create") => Slots(name[Control]) = {}
  /\ At(Control, "resolved") => id[Control] \in Slots(name[Control])
  /\ op[Control] = "load" => loaded[name[Control]] = 0
  /\ op[Control] = "update" => loaded[name[Control]] # 0

(* The slot of a loaded plugin's metric has its name, and its definition   *)
(* once the control thread is done with it; no other slot has one.         *)
LoadedHasSlot ==
  \A n \in Names :
    loaded[n] # 0 =>
      /\ loaded[n] \in Slots(n)
      /\ entries[loaded[n]].def \/ (op[Control] = "update" /\ name[Control] = n)

NamesAreUnique == \A n \in Names : \A i, j \in Slots(n) : i = j

DefinedIsLoaded ==
  \A i \in 1..NumEntries :
    entries[i].def => entries[i].name \in Names /\ loaded[entries[i].name] # 0

OfGatherd == ControlIsRight /\ LoadedHasSlot /\ NamesAreUnique /\ DefinedIsLoaded

(* The slot a thread has found keeps its name until it is emptied.         *)
FoundKeepsName ==
  \A t \in Others :
    At(t, "resolved") /\ restarts = 0 =>
      id[t] \in 1..NumEntries /\ entries[id[t]].name \in {name[t], NoName}

(* A thread that reads a slot of the present array stays inside it.        *)
ReadsInside ==
  \A t \in Others :
    /\ base[t] <= array
    /\ At(t, "get") /\ base[t] = array => id[t] \in 1..NumEntries

Inv ==
  /\ TypeOK
  /\ Roles
  /\ daemon = "gatherd" => OfGatherd
  /\ FoundKeepsName
  /\ ReadsInside

-----------------------------------------------------------------------------
(* What the actions do to the slots.                                       *)

LEMMA InitInv == Init => Inv
<1>. SUFFICES ASSUME Init PROVE Inv  OBVIOUS
<1>1. TypeOK /\ Roles  BY DEF Init, TypeOK, Roles, Threads, Labels, Calls
<1>2. OfGatherd
  BY DEF Init, OfGatherd, ControlIsRight, LoadedHasSlot, NamesAreUnique, DefinedIsLoaded, Slots,
         NumEntries, At, Threads
<1>3. FoundKeepsName /\ ReadsInside  BY DEF Init, FoundKeepsName, ReadsInside, At, Threads
<1>. QED  BY <1>1, <1>2, <1>3 DEF Inv

LEMMA FunctionIsSeq ==
  ASSUME NEW S, NEW n \in Nat, NEW r \in [1..n -> S]
  PROVE  r \in Seq(S) /\ Len(r) = n
BY SeqDef

(* A name that has slots has a first one: the search finds it.             *)
LEMMA FirstSlot ==
  ASSUME NEW n, entries \in Seq(Slot), Slots(n) # {}
  PROVE  \E i \in 1..NumEntries : Found(n, i)
<1>1. Slots(n) \subseteq Nat /\ Slots(n) \subseteq 1..NumEntries  BY DEF Slots, NumEntries
<1>2. PICK i \in Slots(n) : \A j \in Slots(n) : ~ <<j, i>> \in OpToRel(<, Nat)
  BY <1>1, WFMin, NatLessThanWellFounded, Zenon
<1>3. ASSUME NEW j \in Slots(n) PROVE i <= j
  <2>1. ~ j < i /\ i \in Nat /\ j \in Nat  BY <1>1, <1>2, Zenon DEF OpToRel
  <2>. QED  BY <2>1
<1>. QED  BY <1>1, <1>3 DEF Found

(* The threads and their types, which every step needs.                    *)
LEMMA Typing ==
  ASSUME Inv
  PROVE  /\ entries \in Seq(Slot) /\ Len(entries) \in Nat
         /\ \A i \in 1..Len(entries) : entries[i] \in Slot
         /\ Control \in Threads /\ Control \notin Others /\ Others \subseteq Threads
         /\ pc \in [Threads -> Labels] /\ op \in [Threads -> Calls]
         /\ name \in [Threads -> Names \union {NoName}] /\ id \in [Threads -> Nat]
         /\ NoName \notin Names
BY DEF Inv, TypeOK, Threads

LEMMA SearchInv == ASSUME Inv, NEW t \in Threads, Search(t), UNCHANGED daemon PROVE Inv'
<1>. USE DEF Inv
<1>0. /\ UNCHANGED <<daemon, entries, array, loaded, restarts, op, name, base>>
      /\ pc[t] = "search" /\ name[t] \in Names
  BY Typing DEF Roles, Search, At, regvars
<1>1. \/ /\ \E i \in Slots(name[t]) : i \in 1..Len(entries) /\ id' = [id EXCEPT ![t] = i]
         /\ pc' = [pc EXCEPT ![t] = "resolved"]
      \/ /\ Slots(name[t]) = {} /\ id' = id
         /\ pc' = [pc EXCEPT ![t] = "create"]
  BY FirstSlot DEF TypeOK, Search, Found, NumEntries, Goto
<1>2. TypeOK'
  <2>1. id' \in [Threads -> Nat]
    <3>1. \A i \in 1..Len(entries) : i \in Nat  BY Typing
    <3>. QED  BY <1>1, <3>1, Typing
  <2>2. pc' \in [Threads -> Labels]  BY <1>1, Typing DEF Labels
  <2>. QED  BY <1>0, <2>1, <2>2 DEF TypeOK
<1>3. Roles'  BY <1>0, <1>1, Typing DEF Roles
<1>4. ASSUME daemon = "gatherd" PROVE OfGatherd'
  <2>1. t = Control  BY <1>0, <1>4 DEF Roles, Threads
  <2>2. ControlIsRight'
    BY <1>0, <1>1, <1>4, <2>1, Typing DEF OfGatherd, ControlIsRight, Slots, NumEntries, At
  <2>3. (LoadedHasSlot /\ NamesAreUnique /\ DefinedIsLoaded)'
    BY <1>0, <1>4 DEF OfGatherd, LoadedHasSlot, NamesAreUnique, DefinedIsLoaded, Slots, NumEntries
  <2>. QED  BY <2>2, <2>3 DEF OfGatherd
<1>5. FoundKeepsName'
  <2>. SUFFICES ASSUME NEW u \in Others, pc'[u] = "resolved", restarts' = 0
                PROVE  id'[u] \in 1..Len(entries) /\ entries[id'[u]].name \in {name[u], NoName}
    BY <1>0 DEF FoundKeepsName, At, NumEntries
  <2>1. CASE u = t  BY <1>0, <1>1, <2>1, Typing DEF Slots
  <2>2. CASE u # t  BY <1>0, <1>1, <2>2, Typing DEF FoundKeepsName, At, NumEntries
  <2>. QED  BY <2>1, <2>2
<1>6. ReadsInside'  BY <1>0, <1>1, Typing DEF ReadsInside, At, NumEntries
<1>. QED  BY <1>0, <1>2, <1>3, <1>4, <1>5, <1>6

(* A new slot comes after the others and has no definition yet.            *)
LEMMA CreateInv == ASSUME Inv, NEW t \in Threads, Create(t), UNCHANGED daemon PROVE Inv'
<1>. USE DEF Inv
<1>. DEFINE N   == Len(entries)
            new == [name |-> name[t], def |-> FALSE]
<1>0. /\ UNCHANGED <<daemon, loaded, restarts, op, name, base>>
      /\ pc[t] = "create" /\ name[t] \in Names
      /\ pc' = [pc EXCEPT ![t] = "resolved"] /\ id' = [id EXCEPT ![t] = N + 1]
      /\ array' \in Nat /\ array <= array'
      /\ N \in Nat
  BY Typing DEF TypeOK, Roles, Create, At, Goto, Grow, NextIndex, NumEntries
<1>1. /\ entries' \in Seq(Slot) /\ Len(entries') = N + 1
      /\ entries'[N + 1] = new
      /\ \A i \in 1..N : entries'[i] = entries[i]
  <2>1. entries' = [i \in 1..N + 1 |-> IF i = N + 1 THEN new ELSE entries[i]]
    <3>1. 1..N \union {N + 1} = 1..N + 1  BY <1>0
    <3>. QED  BY <3>1 DEF Create, NextIndex, NumEntries
  <2>2. new \in Slot  BY <1>0 DEF Slot
  <2>3. entries' \in [1..N + 1 -> Slot]  BY <1>0, <2>1, <2>2, Typing
  <2>4. N + 1 \in Nat /\ N + 1 \in 1..N + 1 /\ \A i \in 1..N : i \in 1..N + 1 /\ i # N + 1  BY <1>0
  <2>5. entries' \in Seq(Slot) /\ Len(entries') = N + 1
    BY <2>3, <2>4, FunctionIsSeq
  <2>. QED  BY <2>1, <2>4, <2>5
<1>. HIDE DEF new
<1>2. TypeOK'
  <2>1. id' \in [Threads -> Nat]  BY <1>0, Typing
  <2>2. pc' \in [Threads -> Labels]  BY <1>0, Typing DEF Labels
  <2>. QED  BY <1>0, <1>1, <2>1, <2>2 DEF TypeOK
<1>3. Roles'  BY <1>0, Typing DEF Roles
<1>4. ASSUME daemon = "gatherd" PROVE OfGatherd'
  <2>1. t = Control  BY <1>0, <1>4 DEF Roles, Threads
  <2>2. \A i \in 1..N : name[t] # entries[i].name
    BY <1>0, <1>4, <2>1 DEF OfGatherd, ControlIsRight, At, Slots, NumEntries
  <2>3. \A n \in Names : Slots(n)' = IF n = name[t] THEN {N + 1} ELSE Slots(n)
    BY <1>0, <1>1, <2>2 DEF Slots, NumEntries, new
  <2>4. ControlIsRight'
    BY <1>0, <1>4, <2>1, <2>3, Typing DEF OfGatherd, ControlIsRight, At
  <2>5. LoadedHasSlot'
    BY <1>0, <1>1, <1>4, <2>2 DEF OfGatherd, LoadedHasSlot, Slots, NumEntries
  <2>6. NamesAreUnique'  BY <1>4, <2>3 DEF OfGatherd, NamesAreUnique
  <2>7. DefinedIsLoaded'
    BY <1>0, <1>1, <1>4 DEF OfGatherd, DefinedIsLoaded, NumEntries, new
  <2>. QED  BY <2>4, <2>5, <2>6, <2>7 DEF OfGatherd
<1>5. FoundKeepsName'
  <2>. SUFFICES ASSUME NEW u \in Others, pc'[u] = "resolved", restarts' = 0
                PROVE  id'[u] \in 1..N + 1 /\ entries'[id'[u]].name \in {name[u], NoName}
    BY <1>0, <1>1 DEF FoundKeepsName, At, NumEntries
  <2>1. CASE u = t  BY <1>0, <1>1, <2>1, Typing DEF new
  <2>2. CASE u # t
    <3>1. id'[u] = id[u] /\ pc[u] = "resolved"  BY <1>0, <2>2, Typing
    <3>2. id[u] \in 1..N /\ entries[id[u]].name \in {name[u], NoName}
      BY <1>0, <3>1 DEF FoundKeepsName, At, NumEntries
    <3>. QED  BY <1>0, <1>1, <3>1, <3>2
  <2>. QED  BY <2>1, <2>2
<1>6. ReadsInside'
  <2>. SUFFICES ASSUME NEW u \in Others
                PROVE  /\ base[u] <= array'
                       /\ pc'[u] = "get" /\ base[u] = array' => id'[u] \in 1..N + 1
    BY <1>0, <1>1 DEF ReadsInside, At, NumEntries
  <2>1. base[u] <= array /\ base[u] \in Nat /\ array \in Nat  BY Typing DEF ReadsInside, TypeOK
  <2>2. ASSUME pc'[u] = "get", base[u] = array' PROVE id'[u] \in 1..N + 1
    <3>1. id'[u] = id[u] /\ pc[u] = "get"  BY <1>0, <2>2, Typing
    <3>2. base[u] = array  BY <1>0, <2>1, <2>2
    <3>3. id[u] \in 1..N  BY <3>1, <3>2 DEF ReadsInside, At, NumEntries
    <3>. QED  BY <1>0, <3>1, <3>3
  <2>. QED  BY <1>0, <2>1, <2>2
<1>. QED  BY <1>0, <1>2, <1>3, <1>4, <1>5, <1>6

(* Steps that leave the slots and the plugins alone: what is left to show  *)
(* is about the threads.                                                   *)
LEMMA SlotsUnchanged ==
  ASSUME Inv, UNCHANGED <<daemon, entries, loaded>>,
         \/ op'[Control] = op[Control] /\ name'[Control] = name[Control]
         \/ op[Control] = "none" /\ op'[Control] = "load"
  PROVE  daemon = "gatherd" => (LoadedHasSlot /\ NamesAreUnique /\ DefinedIsLoaded)'
BY DEF Inv, OfGatherd, LoadedHasSlot, NamesAreUnique, DefinedIsLoaded, Slots, NumEntries

LEMMA InitRegistryInv == ASSUME Inv, repos_init, UNCHANGED daemon PROVE Inv'
<1>. USE DEF Inv
<1>1. /\ UNCHANGED <<daemon, entries, loaded, restarts, pc, op, name, id, base>>
      /\ array' \in Nat /\ array <= array'
  BY DEF TypeOK, repos_init, Grow
<1>2. TypeOK'  BY <1>1 DEF TypeOK
<1>3. Roles'  BY <1>1 DEF Roles
<1>4. ASSUME daemon = "gatherd" PROVE OfGatherd'
  <2>1. ControlIsRight'
    BY <1>1, <1>4 DEF OfGatherd, ControlIsRight, Slots, NumEntries, At
  <2>. QED  BY <1>1, <1>4, <2>1, SlotsUnchanged DEF OfGatherd
<1>5. FoundKeepsName'  BY <1>1 DEF FoundKeepsName, At, NumEntries
<1>6. ReadsInside'
  <2>1. \A u \in Others : base[u] <= array /\ base[u] \in Nat /\ array \in Nat
    BY Typing DEF ReadsInside, TypeOK
  <2>. QED  BY <1>1, <2>1 DEF ReadsInside, At, NumEntries
<1>. QED  BY <1>1, <1>2, <1>3, <1>4, <1>5, <1>6

LEMMA AddInv == ASSUME Inv, NEW n \in Names, reposplugin_add(n), UNCHANGED daemon PROVE Inv'
<1>. USE DEF Inv
<1>1. /\ UNCHANGED <<daemon, entries, array, loaded, restarts, id, base>>
      /\ pc[Control] = "idle" /\ loaded[n] = 0
      /\ pc' = [pc EXCEPT ![Control] = "search"]
      /\ name' = [name EXCEPT ![Control] = n] /\ op' = [op EXCEPT ![Control] = "load"]
  BY DEF reposplugin_add, regvars, At, Goto
<1>2. TypeOK'
  <2>1. pc' \in [Threads -> Labels] /\ op' \in [Threads -> Calls]  BY <1>1, Typing DEF Labels, Calls
  <2>2. name' \in [Threads -> Names \union {NoName}]  BY <1>1, Typing
  <2>. QED  BY <1>1, <2>1, <2>2 DEF TypeOK
<1>3. Roles'  BY <1>1, Typing DEF Roles
<1>4. ASSUME daemon = "gatherd" PROVE OfGatherd'
  <2>1. op[Control] = "none" /\ op'[Control] = "load"  BY <1>1, Typing DEF Roles
  <2>2. ControlIsRight'  BY <1>1, Typing DEF ControlIsRight, At
  <2>. QED  BY <1>1, <1>4, <2>1, <2>2, SlotsUnchanged DEF OfGatherd
<1>5. FoundKeepsName'  BY <1>1, Typing DEF FoundKeepsName, At, NumEntries
<1>6. ReadsInside'  BY <1>1, Typing DEF ReadsInside, At, NumEntries
<1>. QED  BY <1>1, <1>2, <1>3, <1>4, <1>5, <1>6

LEMMA LoadedInv == ASSUME Inv, PluginLoaded, UNCHANGED daemon PROVE Inv'
<1>. USE DEF Inv
<1>. DEFINE n == name[Control]
<1>1. /\ UNCHANGED <<daemon, entries, array, restarts, name, id, base>>
      /\ pc[Control] = "resolved" /\ op[Control] = "load"
      /\ pc' = [pc EXCEPT ![Control] = "search"]
      /\ op' = [op EXCEPT ![Control] = "update"]
      /\ loaded' = [loaded EXCEPT ![n] = id[Control]]
      /\ loaded \in [Names -> Nat]
      /\ n \in Names
  BY Typing DEF TypeOK, Roles, PluginLoaded, regvars, At, Goto
<1>2. TypeOK'
  <2>1. pc' \in [Threads -> Labels] /\ op' \in [Threads -> Calls]  BY <1>1, Typing DEF Labels, Calls
  <2>2. loaded' \in [Names -> Nat]  BY <1>1, Typing
  <2>. QED  BY <1>1, <2>1, <2>2 DEF TypeOK
<1>3. Roles'  BY <1>1, Typing DEF Roles
<1>4. ASSUME daemon = "gatherd" PROVE OfGatherd'
  <2>1. id[Control] \in Slots(n) /\ id[Control] # 0
    BY <1>1, <1>4 DEF OfGatherd, ControlIsRight, At, Slots
  <2>2. loaded'[n] = id[Control] /\ \A m \in Names : m # n => loaded'[m] = loaded[m]
    BY <1>1
  <2>3. op'[Control] = "update" /\ pc'[Control] = "search"  BY <1>1, Typing
  <2>4. ControlIsRight'  BY <1>1, <2>1, <2>2, <2>3 DEF ControlIsRight, At
  <2>5. LoadedHasSlot'
    BY <1>1, <1>4, <2>1, <2>2, <2>3 DEF OfGatherd, LoadedHasSlot, Slots, NumEntries
  <2>6. (NamesAreUnique /\ DefinedIsLoaded)'
    BY <1>1, <1>4, <2>1, <2>2 DEF OfGatherd, NamesAreUnique, DefinedIsLoaded, Slots, NumEntries
  <2>. QED  BY <2>4, <2>5, <2>6 DEF OfGatherd
<1>5. FoundKeepsName'  BY <1>1, Typing DEF FoundKeepsName, At, NumEntries
<1>6. ReadsInside'  BY <1>1, Typing DEF ReadsInside, At, NumEntries
<1>. QED  BY <1>1, <1>2, <1>3, <1>4, <1>5, <1>6

(* A slot gets its definition, or loses its name.                          *)
Defined(s, k) == [s EXCEPT ![k].def = TRUE]

LEMMA SlotDefined ==
  ASSUME NEW s \in Seq(Slot), NEW k
  PROVE  /\ Defined(s, k) \in Seq(Slot) /\ Len(Defined(s, k)) = Len(s)
         /\ \A i \in 1..Len(s) : /\ Defined(s, k)[i].name = s[i].name
                                 /\ Defined(s, k)[i].def = (s[i].def \/ i = k)
<1>. DEFINE N == Len(s)
            r == Defined(s, k)
<1>1. N \in Nat /\ s \in [1..N -> Slot]  OBVIOUS
<1>2. /\ \A i \in 1..N : i # k => r[i] = s[i]
      /\ k \in 1..N => r[k] = [s[k] EXCEPT !.def = TRUE]
      /\ DOMAIN r = 1..N
      /\ r = [i \in 1..N |-> r[i]]
  BY <1>1 DEF Defined
<1>. HIDE DEF r
<1>3. ASSUME NEW i \in 1..N, i = k PROVE r[i].name = s[i].name /\ r[i].def = TRUE /\ r[i] \in Slot
  <2>1. s[i] \in Slot  BY <1>1
  <2>2. r[i] = [s[i] EXCEPT !.def = TRUE]  BY <1>2, <1>3
  <2>. QED  BY <2>1, <2>2 DEF Slot
<1>4. r \in [1..N -> Slot]
  <2>1. \A i \in 1..N : r[i] \in Slot  BY <1>1, <1>2, <1>3
  <2>. QED  BY <1>2, <2>1
<1>5. r \in Seq(Slot) /\ Len(r) = N
  <2>. HIDE DEF N
  <2>. QED  BY <1>1, <1>4, FunctionIsSeq
<1>6. \A i \in 1..N : s[i].def \in BOOLEAN  BY <1>1 DEF Slot
<1>. QED  BY <1>2, <1>3, <1>5, <1>6 DEF r

(* The definition goes to the slot the plugin's id stands for.             *)
LEMMA UpdateInv == ASSUME Inv, UpdateMetric, UNCHANGED daemon PROVE Inv'
<1>. USE DEF Inv
<1>. DEFINE n == name[Control]
            k == id[Control]
<1>1. /\ UNCHANGED <<daemon, array, loaded, restarts>>
      /\ pc[Control] = "resolved" /\ op[Control] = "update"
      /\ entries' = [entries EXCEPT ![k].def = TRUE]
      /\ pc' = [pc EXCEPT ![Control] = "idle"] /\ op' = [op EXCEPT ![Control] = "none"]
      /\ name' = [name EXCEPT ![Control] = NoName] /\ id' = [id EXCEPT ![Control] = 0]
      /\ base' = [base EXCEPT ![Control] = 0] /\ base \in [Threads -> Nat]
      /\ n \in Names
  BY Typing DEF TypeOK, Roles, UpdateMetric, At, Goto, Return
<1>2. /\ entries' \in Seq(Slot) /\ Len(entries') = Len(entries)
      /\ \A i \in 1..Len(entries) :
           /\ entries'[i].name = entries[i].name
           /\ entries'[i].def = (entries[i].def \/ i = k)
  <2>. HIDE DEF Inv, k
  <2>1. entries \in Seq(Slot)  BY Typing
  <2>2. entries' = Defined(entries, k)  BY <1>1 DEF Defined
  <2>. QED  BY <2>1, <2>2, SlotDefined
<1>. HIDE DEF n, k
<1>3. TypeOK'
  <2>1. /\ pc' \in [Threads -> Labels] /\ op' \in [Threads -> Calls]
        /\ id' \in [Threads -> Nat] /\ base' \in [Threads -> Nat]
        /\ name' \in [Threads -> Names \union {NoName}]
    BY <1>1, Typing DEF Labels, Calls
  <2>. QED  BY <1>1, <1>2, <2>1 DEF TypeOK
<1>4. Roles'  BY <1>1, Typing DEF Roles
<1>5. ASSUME daemon = "gatherd" PROVE OfGatherd'
  <2>1. k \in Slots(n) /\ loaded[n] # 0
    BY <1>1, <1>5 DEF OfGatherd, ControlIsRight, At, n, k
  <2>2. \A m : Slots(m)' = Slots(m)  BY <1>2 DEF Slots, NumEntries
  <2>3. op'[Control] = "none" /\ pc'[Control] = "idle"  BY <1>1, Typing
  <2>4. ControlIsRight'  BY <2>3 DEF ControlIsRight, At
  <2>5. LoadedHasSlot'
    <3>. SUFFICES ASSUME NEW m \in Names, loaded[m] # 0
                  PROVE  loaded[m] \in Slots(m) /\ entries'[loaded[m]].def
      BY <1>1, <2>2 DEF LoadedHasSlot
    <3>1. loaded[m] \in Slots(m) /\ (entries[loaded[m]].def \/ n = m)
      BY <1>5 DEF OfGatherd, LoadedHasSlot, n
    <3>2. n = m => loaded[m] = k  BY <1>1, <1>5, <2>1, <3>1 DEF OfGatherd, NamesAreUnique
    <3>. QED  BY <1>2, <3>1, <3>2 DEF Slots, NumEntries
  <2>6. NamesAreUnique'  BY <1>5, <2>2 DEF OfGatherd, NamesAreUnique
  <2>7. DefinedIsLoaded'
    BY <1>1, <1>2, <1>5, <2>1 DEF OfGatherd, DefinedIsLoaded, Slots, NumEntries
  <2>. QED  BY <2>4, <2>5, <2>6, <2>7 DEF OfGatherd
<1>6. FoundKeepsName'  BY <1>1, <1>2, Typing DEF FoundKeepsName, At, NumEntries
<1>7. ReadsInside'  BY <1>1, <1>2, Typing DEF ReadsInside, At, NumEntries
<1>. QED  BY <1>1, <1>3, <1>4, <1>5, <1>6, <1>7

(* Removing the metric of a loaded plugin, alone or as part of the         *)
(* termination: its slot is emptied, the other slots stay.                 *)
LEMMA RemoveInv ==
  ASSUME Inv, NEW n \in Names, loaded[n] # 0, RemoveMetric(loaded[n]),
         pc[Control] \in {"idle", "terminating"},
         loaded' = [loaded EXCEPT ![n] = 0],
         UNCHANGED <<daemon, array, restarts, pc, op, name, id, base>>
  PROVE  Inv'
<1>. USE DEF Inv
<1>. DEFINE k == loaded[n]
<1>1. loaded \in [Names -> Nat] /\ loaded' \in [Names -> Nat] /\ k \in Nat
  BY DEF TypeOK
<1>2. /\ entries' \in Seq(Slot) /\ Len(entries') = Len(entries)
      /\ \A i \in 1..Len(entries) :
           \/ entries'[i] = entries[i] /\ (i = k => ~entries[i].def)
           \/ i = k /\ entries'[i] = Emptied
  <2>1. Emptied \in Slot  BY DEF Emptied, Slot
  <2>. HIDE DEF Inv, k
  <2>2. CASE k <= Len(entries) /\ entries[k].def
    <3>1. entries' = [entries EXCEPT ![k] = Emptied]  BY <2>2 DEF RemoveMetric, NumEntries, k
    <3>2. /\ entries' \in Seq(Slot) /\ Len(entries') = Len(entries)
          /\ \A i \in 1..Len(entries) : entries'[i] = IF i = k THEN Emptied ELSE entries[i]
      <4>1. entries \in [1..Len(entries) -> Slot]  BY Typing
      <4>2. /\ \A i \in 1..Len(entries) : entries'[i] = IF i = k THEN Emptied ELSE entries[i]
            /\ entries' \in [1..Len(entries) -> Slot]
        BY <2>1, <3>1, <4>1
      <4>. QED  BY <4>2, Typing, FunctionIsSeq
    <3>. QED  BY <3>2
  <2>3. CASE ~(k <= Len(entries) /\ entries[k].def)
    <3>1. entries' = entries  BY <2>3 DEF RemoveMetric, NumEntries, k
    <3>. QED  BY <2>3, <3>1, Typing
  <2>. QED  BY <2>2, <2>3
<1>3. TypeOK'  BY <1>1, <1>2 DEF TypeOK
<1>4. Roles'  BY DEF Roles
<1>5. ASSUME daemon = "gatherd" PROVE OfGatherd'
  <2>1. op[Control] = "none" /\ pc[Control] \notin {"create", "resolved"}
    BY DEF Roles
  <2>2. ControlIsRight'  BY <2>1 DEF ControlIsRight, At
  <2>3. /\ k \in 1..Len(entries) /\ entries[k].name = n /\ entries[k].def
        /\ entries'[k] = Emptied /\ \A i \in 1..Len(entries) : i # k => entries'[i] = entries[i]
    BY <1>2, <1>5, <2>1 DEF OfGatherd, LoadedHasSlot, Slots, NumEntries
  <2>4. \A m \in Names : Slots(m)' = Slots(m) \ {k}
    BY <1>2, <2>3, Typing DEF Slots, NumEntries, Emptied
  <2>5. LoadedHasSlot'
    <3>. SUFFICES ASSUME NEW m \in Names, loaded'[m] # 0
                  PROVE  loaded'[m] \in Slots(m)' /\ entries'[loaded'[m]].def
      BY DEF LoadedHasSlot
    <3>1. m # n /\ loaded'[m] = loaded[m]  BY <1>1
    <3>2. loaded[m] \in Slots(m) /\ entries[loaded[m]].def
      BY <1>5, <2>1, <3>1 DEF OfGatherd, LoadedHasSlot
    <3>3. loaded[m] # k  BY <2>3, <3>1, <3>2 DEF Slots
    <3>. QED  BY <2>3, <2>4, <3>1, <3>2, <3>3 DEF Slots, NumEntries
  <2>6. NamesAreUnique'  BY <1>5, <2>4 DEF OfGatherd, NamesAreUnique
  <2>7. DefinedIsLoaded'
    <3>. SUFFICES ASSUME NEW i \in 1..Len(entries), entries'[i].def
                  PROVE  entries'[i].name \in Names /\ loaded'[entries'[i].name] # 0
      BY <1>2 DEF DefinedIsLoaded, NumEntries
    <3>1. i # k /\ entries'[i] = entries[i]  BY <2>3 DEF Emptied
    <3>2. entries[i].name \in Names /\ loaded[entries[i].name] # 0
      BY <1>5, <3>1 DEF OfGatherd, DefinedIsLoaded, NumEntries
    <3>3. entries[i].name # n
      BY <1>5, <2>3, <3>1 DEF OfGatherd, NamesAreUnique, Slots, NumEntries
    <3>. QED  BY <1>1, <3>1, <3>2, <3>3
  <2>. QED  BY <2>2, <2>5, <2>6, <2>7 DEF OfGatherd
<1>6. FoundKeepsName'  BY <1>2 DEF FoundKeepsName, At, NumEntries, Emptied
<1>7. ReadsInside'  BY <1>2 DEF ReadsInside, At, NumEntries
<1>. QED  BY <1>3, <1>4, <1>5, <1>6, <1>7

LEMMA TerminateInv == ASSUME Inv, repos_terminate, UNCHANGED daemon PROVE Inv'
<1>. USE DEF Inv
<1>1. /\ UNCHANGED <<daemon, entries, array, loaded, op, name, id, base>>
      /\ pc[Control] = "idle" /\ pc' = [pc EXCEPT ![Control] = "terminating"]
      /\ restarts \in Nat /\ restarts' = restarts + 1
  BY DEF TypeOK, repos_terminate, regvars, At, Goto
<1>2. TypeOK'
  <2>1. pc' \in [Threads -> Labels]  BY <1>1, Typing DEF Labels
  <2>. QED  BY <1>1, <2>1 DEF TypeOK
<1>3. Roles'  BY <1>1, Typing DEF Roles
<1>4. ASSUME daemon = "gatherd" PROVE OfGatherd'
  <2>1. ControlIsRight'
    BY <1>1, <1>4, Typing DEF OfGatherd, ControlIsRight, At
  <2>. QED  BY <1>1, <1>4, <2>1, SlotsUnchanged DEF OfGatherd
<1>5. FoundKeepsName'  BY <1>1 DEF FoundKeepsName
<1>6. ReadsInside'  BY <1>1, Typing DEF ReadsInside, At, NumEntries
<1>. QED  BY <1>1, <1>2, <1>3, <1>4, <1>5, <1>6

LEMMA FinishInv == ASSUME Inv, FinishRegistry, UNCHANGED daemon PROVE Inv'
<1>. USE DEF Inv
<1>1. /\ UNCHANGED <<daemon, loaded, restarts, op, name, id, base>>
      /\ pc[Control] = "terminating" /\ pc' = [pc EXCEPT ![Control] = "idle"]
      /\ entries' = <<>> /\ array' = array + 1
      /\ \A n \in Names : loaded[n] = 0
      /\ array \in Nat /\ base \in [Threads -> Nat]
  BY DEF TypeOK, FinishRegistry, At, Goto
<1>2. Len(entries') = 0 /\ entries' \in Seq(Slot)  BY <1>1
<1>3. TypeOK'
  <2>1. pc' \in [Threads -> Labels]  BY <1>1, Typing DEF Labels
  <2>. QED  BY <1>1, <1>2, <2>1 DEF TypeOK
<1>4. Roles'  BY <1>1, Typing DEF Roles
<1>5. ASSUME daemon = "gatherd" PROVE OfGatherd'
  <2>1. ControlIsRight'
    BY <1>1, <1>5, Typing DEF OfGatherd, ControlIsRight, At
  <2>2. (LoadedHasSlot /\ NamesAreUnique /\ DefinedIsLoaded)'
    BY <1>1, <1>2 DEF LoadedHasSlot, NamesAreUnique, DefinedIsLoaded, Slots, NumEntries
  <2>. QED  BY <2>1, <2>2 DEF OfGatherd
<1>6. FoundKeepsName'
  <2>1. restarts > 0 /\ restarts' # 0  BY <1>1, Typing DEF Roles
  <2>. QED  BY <2>1 DEF FoundKeepsName
<1>7. ReadsInside'
  <2>1. \A u \in Others : base[u] <= array /\ base[u] \in Nat  BY <1>1, Typing DEF ReadsInside
  <2>2. \A u \in Others : base'[u] <= array' /\ base'[u] # array'  BY <1>1, <2>1
  <2>. QED  BY <2>2 DEF ReadsInside
<1>. QED  BY <1>1, <1>3, <1>4, <1>5, <1>6, <1>7

(* Steps of the other threads that change nothing but where they are.      *)
LEMMA OtherStepInv ==
  ASSUME Inv, NEW t \in Others, OtherStep(t), UNCHANGED daemon
  PROVE  Inv'
<1>. USE DEF Inv
<1>1. /\ UNCHANGED <<daemon, entries, array, loaded, restarts>>
      /\ pc' = [pc EXCEPT ![t] = pc'[t]] /\ op' = [op EXCEPT ![t] = op'[t]]
      /\ name' = [name EXCEPT ![t] = name'[t]] /\ id' = [id EXCEPT ![t] = id'[t]]
      /\ base' = [base EXCEPT ![t] = base'[t]]
      /\ base \in [Threads -> Nat] /\ array \in Nat /\ restarts \in Nat
      /\ t \in Threads /\ t # Control
  BY Typing DEF TypeOK, OtherStep, reposvalue_put, StoreValue, GetMetric, GotMetric, Calculated,
                Return, Goto, regvars
<1>2. \* what the thread is told, and where it goes
      \/ /\ daemon = "reposd" /\ pc'[t] = "search" /\ op'[t] = "put"
         /\ name'[t] \in Names /\ id'[t] = id[t] /\ base'[t] = base[t]
      \/ /\ pc'[t] = "idle" /\ op'[t] = "none"
         /\ name'[t] = NoName /\ id'[t] = 0 /\ base'[t] = 0
      \/ /\ pc'[t] = "get" /\ op'[t] = op[t] /\ name'[t] = name[t]
         /\ id'[t] \in 1..Len(entries) /\ base'[t] = array
      \/ /\ pc'[t] = "calculate" /\ op'[t] = op[t] /\ id'[t] = id[t] /\ base'[t] = base[t]
         /\ name'[t] \in Names \union {NoName}
  <2>1. CASE \E n \in Names : reposvalue_put(t, n)
    BY <1>1, <2>1, Typing DEF reposvalue_put, Goto
  <2>2. CASE StoreValue(t) \/ Calculated(t)
    BY <1>1, <2>2, Typing DEF StoreValue, Calculated, Return, Goto
  <2>3. CASE \E i \in 1..MaxSlots : GetMetric(t, i)
    <3>1. PICK i \in 1..MaxSlots : GetMetric(t, i)  BY <2>3
    <3>2. pc'[t] = "get" /\ op'[t] = op[t] /\ name'[t] = name[t] /\ id'[t] = i /\ base'[t] = array
      BY <1>1, <3>1, Typing DEF GetMetric, Goto, TypeOK
    <3>3. i <= Len(entries)  BY <3>1 DEF GetMetric, NumEntries
    <3>4. id'[t] \in 1..Len(entries)  BY <3>2, <3>3, Typing
    <3>. QED  BY <3>2, <3>4
  <2>4. CASE GotMetric(t)
    <3>1. CASE base[t] = array /\ entries[id[t]].def
      <4>1. id[t] \in 1..Len(entries)
        BY <2>4, <3>1 DEF GotMetric, ReadsInside, At, NumEntries
      <4>2. entries[id[t]].name \in Names \union {NoName}  BY <4>1, Typing DEF Slot
      <4>3. /\ pc'[t] = "calculate" /\ op'[t] = op[t] /\ id'[t] = id[t] /\ base'[t] = base[t]
            /\ name'[t] = entries[id[t]].name
        BY <1>1, <2>4, <3>1, Typing DEF GotMetric, Goto
      <4>. QED  BY <4>2, <4>3
    <3>2. CASE ~(base[t] = array /\ entries[id[t]].def)
      BY <1>1, <2>4, <3>2, Typing DEF GotMetric, Return, Goto
    <3>. QED  BY <3>1, <3>2
  <2>. QED  BY <2>1, <2>2, <2>3, <2>4 DEF OtherStep
<1>3. TypeOK'
  <2>1. pc'[t] \in Labels /\ op'[t] \in Calls  BY <1>1, <1>2, Typing DEF Labels, Calls
  <2>2. name'[t] \in Names \union {NoName}  BY <1>1, <1>2, Typing
  <2>3. id'[t] \in Nat /\ base'[t] \in Nat  BY <1>1, <1>2, Typing
  <2>4. pc' \in [Threads -> Labels] /\ op' \in [Threads -> Calls]  BY <1>1, <2>1, Typing
  <2>5. /\ name' \in [Threads -> Names \union {NoName}]
        /\ id' \in [Threads -> Nat] /\ base' \in [Threads -> Nat]
    BY <1>1, <2>2, <2>3, Typing
  <2>. QED  BY <1>1, <2>4, <2>5 DEF TypeOK
<1>4. /\ pc'[Control] = pc[Control] /\ op'[Control] = op[Control]
      /\ name'[Control] = name[Control] /\ id'[Control] = id[Control]
      /\ \A u \in Others : u # t => /\ pc'[u] = pc[u] /\ op'[u] = op[u] /\ name'[u] = name[u]
                                    /\ id'[u] = id[u] /\ base'[u] = base[u]
  BY <1>1, Typing
<1>. HIDE DEF Inv
<1>5. Roles'
  <2>1. Roles  BY DEF Inv
  <2>2. pc'[t] \in {"search", "create", "resolved"} => name'[t] \in Names /\ daemon # "gatherd"
    BY <1>2
  <2>3. pc'[t] # "terminating" /\ op'[t] \in {"none", "put"}  BY <1>2, <2>1 DEF Roles
  <2>4. \A u \in Threads : pc'[u] \in {"search", "create", "resolved"} => name'[u] \in Names
    BY <1>4, <2>1, <2>2 DEF Roles, Threads
  <2>5. \A u \in Others : pc'[u] # "terminating" /\ op'[u] \in {"none", "put"}
    BY <1>4, <2>1, <2>3 DEF Roles
  <2>6. daemon = "gatherd" => \A u \in Others : pc'[u] \notin {"search", "create", "resolved"}
    BY <1>4, <2>1, <2>2 DEF Roles
  <2>. QED  BY <1>1, <1>4, <2>1, <2>4, <2>5, <2>6 DEF Roles
<1>6. ASSUME daemon = "gatherd" PROVE OfGatherd'
  <2>1. ControlIsRight'
    BY <1>1, <1>4, <1>6 DEF Inv, OfGatherd, ControlIsRight, Slots, NumEntries, At
  <2>. QED  BY <1>1, <1>4, <1>6, <2>1, SlotsUnchanged DEF OfGatherd
<1>7. FoundKeepsName'
  BY <1>1, <1>2, <1>4 DEF Inv, FoundKeepsName, At, NumEntries
<1>8. ReadsInside'
  <2>. SUFFICES ASSUME NEW u \in Others
                PROVE  /\ base'[u] <= array
                       /\ pc'[u] = "get" /\ base'[u] = array => id'[u] \in 1..Len(entries)
    BY <1>1 DEF ReadsInside, At, NumEntries
  <2>1. /\ base[u] <= array
        /\ pc[u] = "get" /\ base[u] = array => id[u] \in 1..Len(entries)
    BY DEF Inv, ReadsInside, At, NumEntries
  <2>2. CASE u = t  BY <1>1, <1>2, <2>1, <2>2
  <2>3. CASE u # t  BY <1>4, <2>1, <2>3
  <2>. QED  BY <2>2, <2>3
<1>. QED  BY <1>1, <1>3, <1>5, <1>6, <1>7, <1>8 DEF Inv

LEMMA NextInv == Inv /\ [Next]_vars => Inv'
<1>. SUFFICES ASSUME Inv, [Next]_vars PROVE Inv'  OBVIOUS
<1>1. CASE UNCHANGED vars
  <2>1. UNCHANGED <<daemon, entries, array, loaded, restarts, pc, op, name, id, base>>
    BY <1>1 DEF vars, regvars
  <2>2. TypeOK' /\ Roles'  BY <2>1 DEF Inv, TypeOK, Roles
  <2>3. daemon = "gatherd" => OfGatherd'
    BY <2>1 DEF Inv, OfGatherd, ControlIsRight, LoadedHasSlot, NamesAreUnique, DefinedIsLoaded,
                Slots, NumEntries, At
  <2>4. FoundKeepsName' /\ ReadsInside'
    BY <2>1 DEF Inv, FoundKeepsName, ReadsInside, At, NumEntries
  <2>. QED  BY <2>1, <2>2, <2>3, <2>4 DEF Inv
<1>2. CASE ControlStep /\ UNCHANGED daemon
  <2>1. CASE repos_init  BY <1>2, <2>1, InitRegistryInv
  <2>2. CASE PluginLoaded  BY <1>2, <2>2, LoadedInv
  <2>3. CASE UpdateMetric  BY <1>2, <2>3, UpdateInv
  <2>4. CASE repos_terminate  BY <1>2, <2>4, TerminateInv
  <2>5. CASE FinishRegistry  BY <1>2, <2>5, FinishInv
  <2>6. ASSUME NEW n \in Names, reposplugin_add(n) PROVE Inv'  BY <1>2, <2>6, AddInv
  <2>7. ASSUME NEW n \in Names, reposplugin_remove(n) \/ TerminateRemoves(n) PROVE Inv'
    <3>1. /\ loaded[n] # 0 /\ RemoveMetric(loaded[n])
          /\ pc[Control] \in {"idle", "terminating"}
          /\ loaded' = [loaded EXCEPT ![n] = 0]
          /\ UNCHANGED <<daemon, array, restarts, pc, op, name, id, base>>
      BY <1>2, <2>7 DEF reposplugin_remove, TerminateRemoves, At
    <3>. QED  BY <3>1, RemoveInv
  <2>. QED  BY <1>2, <2>1, <2>2, <2>3, <2>4, <2>5, <2>6, <2>7 DEF ControlStep
<1>3. ASSUME NEW t \in Others, OtherStep(t), UNCHANGED daemon PROVE Inv'
  BY <1>3, OtherStepInv
<1>4. ASSUME NEW t \in Threads, Search(t) \/ Create(t), UNCHANGED daemon PROVE Inv'
  BY <1>4, SearchInv, CreateInv
<1>. QED  BY <1>1, <1>2, <1>3, <1>4 DEF Next, Step

-----------------------------------------------------------------------------
(* The slots and the plugins of rreg.c and mreg.c agree in every state     *)
(* (Inv), whatever is loaded, looked up, removed or terminated.            *)
THEOREM RegistryInvariant == Spec => []Inv
<1>. QED  BY InitInv, NextInv, PTL DEF Spec

(* "Returns a unique id for a given name" (rreg.c:83, MPR_IdForString of   *)
(* mreg.c): no two slots of gatherd's registry have the same name, however *)
(* many plugins are loaded and reloaded.                                   *)
THEOREM UniqueIds == Spec => []UniqueIdsInGatherd
<1>1. Inv => UniqueIdsInGatherd
  BY DEF Inv, OfGatherd, NamesAreUnique, UniqueIdsInGatherd
<1>. QED  BY <1>1, RegistryInvariant, PTL

(* A definition in gatherd's registry is that of a loaded plugin: removing *)
(* the metric (MPR_RemoveMetric) always comes before the library goes.     *)
THEOREM NoDefinitionDangles == Spec => []NoDanglingDefinition
<1>1. Inv => NoDanglingDefinition
  BY DEF Inv, OfGatherd, DefinedIsLoaded, NoDanglingDefinition
<1>. QED  BY <1>1, RegistryInvariant, PTL

(* When gatherd's control thread is done with loading a plugin, the first  *)
(* slot found for the metric's name is the one with the definition.        *)
THEOREM DefinitionsAreReachable == Spec => []DefinitionIsReachable
<1>1. ASSUME Inv PROVE DefinitionIsReachable
  <2>. SUFFICES ASSUME daemon = "gatherd", pc[Control] = "idle", NEW n \in Names, loaded[n] # 0
                PROVE  \E i \in 1..NumEntries : Found(n, i) /\ entries[i].def
    BY DEF DefinitionIsReachable, At
  <2>1. op[Control] = "none"  BY <1>1 DEF Inv, Roles
  <2>2. loaded[n] \in Slots(n) /\ entries[loaded[n]].def
    BY <1>1, <2>1 DEF Inv, OfGatherd, LoadedHasSlot
  <2>3. \A j \in Slots(n) : j = loaded[n]
    BY <1>1, <2>2 DEF Inv, OfGatherd, NamesAreUnique
  <2>4. loaded[n] \in 1..NumEntries /\ loaded[n] \in Nat
    BY <1>1, <2>2 DEF Inv, TypeOK, Slots
  <2>5. Found(n, loaded[n])  BY <2>2, <2>3, <2>4 DEF Found
  <2>. QED  BY <2>2, <2>4, <2>5
<1>. QED  BY <1>1, RegistryInvariant, PTL

(* The id under which reposvalue_put stores a value stands for the value's *)
(* metric, or for none, although plugins come and go between the search    *)
(* and the storing, as long as the registry has not been flushed.          *)
THEOREM ValuesKeepTheirName == Spec => []StoredUnderItsName
<1>1. Inv => StoredUnderItsName
  BY DEF Inv, FoundKeepsName, StoredUnderItsName, NumEntries
<1>. QED  BY <1>1, RegistryInvariant, PTL
=============================================================================
