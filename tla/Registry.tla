------------------------------ MODULE Registry ------------------------------
(***************************************************************************)
(* The registry of metric names, ids and definitions: rreg.c in reposd,    *)
(* mreg.c in gatherd, which differ in names only.  A control thread loads  *)
(* and unloads plugins; other threads look definitions up and, in reposd,  *)
(* resolve the name of a metric they have received a value of.  A call     *)
(* between MReadLock/MWriteLock and the unlock is one step: RWLock shows   *)
(* that the lock gives that.  An id is the position of its slot.           *)
(***************************************************************************)
EXTENDS Naturals, Sequences

CONSTANTS Names, NoName,
          Control,        \* the thread that loads and unloads plugins
          Others,         \* remote threads of reposd, retriever of gatherd
          Daemons,        \* the daemons that are looked at
          IncreaseBy,     \* slots added at a time
          MaxSlots,       \* bound: slots ever used
          MaxRestarts     \* bound: terminations followed by a new start

ASSUME RegistryAssumption ==
  /\ NoName \notin Names
  /\ Control \notin Others
  /\ Daemons \subseteq {"gatherd", "reposd"}
  /\ IncreaseBy \in Nat \ {0} /\ MaxSlots \in Nat /\ MaxRestarts \in Nat

VARIABLES daemon,       \* whose registry it is
          entries,      \* PR_Entries up to PR_NumEntries: name and whether it has a definition
          maxEntries,   \* PR_MaxEntries
          array,        \* counts the memory blocks PR_Entries has pointed to
          initialized,
          loaded,       \* plugin of each metric name: its mcId, or 0 when not loaded
          restarts,
          pc, op,       \* where each thread is, and in which call
          name, id,     \* its arguments or results
          base          \* the array it reads

regvars == <<entries, maxEntries, array>>
vars == <<daemon, regvars, initialized, loaded, restarts, pc, op, name, id, base>>

Threads == Others \union {Control}

Goto(t, label) == pc' = [pc EXCEPT ![t] = label]
At(t, label)   == pc[t] = label

\* The call returns; its local variables are gone.
Return(t) ==
  /\ Goto(t, "idle")
  /\ op' = [op EXCEPT ![t] = "none"]
  /\ name' = [name EXCEPT ![t] = NoName]
  /\ id' = [id EXCEPT ![t] = 0]
  /\ base' = [base EXCEPT ![t] = 0]

NumEntries == Len(entries)

Init ==
  /\ daemon \in Daemons
  /\ entries = <<>> /\ maxEntries = 0 /\ array = 0
  /\ initialized = FALSE
  /\ loaded = [n \in Names |-> 0]
  /\ restarts = 0
  /\ pc = [t \in Threads |-> "idle"]
  /\ op = [t \in Threads |-> "none"]
  /\ name = [t \in Threads |-> NoName]
  /\ id = [t \in Threads |-> 0]
  /\ base = [t \in Threads |-> 0]

-----------------------------------------------------------------------------
\* Grow: a new memory block once all slots are in use.
Grow ==
  IF maxEntries = NumEntries
  THEN maxEntries' = maxEntries + IncreaseBy /\ array' = array + 1
  ELSE UNCHANGED <<maxEntries, array>>

Slots(n) == {i \in 1..NumEntries : entries[i].name = n}

\* Mutant: only a slot that has a definition counts.
FoundDefined(n, i) == i \in Slots(n) /\ entries[i].def /\ \A j \in Slots(n) : i <= j

\* The first slot with that name.
Found(n, i) == i \in Slots(n) /\ \A j \in Slots(n) : i <= j

\* IdForString, first half: search under the read lock.
Search(t) ==
  /\ At(t, "search")
  /\ \/ \E i \in 1..NumEntries :
          /\ Found(name[t], i)
          /\ id' = [id EXCEPT ![t] = i]
          /\ Goto(t, "resolved")
     \/ /\ ~\E i \in 1..NumEntries : Found(name[t], i)
        /\ Goto(t, "create")
        /\ UNCHANGED id
  /\ UNCHANGED <<regvars, initialized, loaded, restarts, op, name, base>>

\* Mutant: an abandoned slot is used again.
NextIndexReused == IF Slots(NoName) = {} THEN NumEntries + 1 ELSE CHOOSE i \in Slots(NoName) : TRUE

NextIndex == NumEntries + 1

\* IdForString, second half: a slot of its own under the write lock.
Create(t) ==
  /\ At(t, "create")
  /\ NextIndex \in 1..MaxSlots
  /\ Grow
  /\ entries' = [i \in 1..NumEntries \union {NextIndex} |->
                   IF i = NextIndex THEN [name |-> name[t], def |-> FALSE] ELSE entries[i]]
  /\ id' = [id EXCEPT ![t] = NextIndex]
  /\ Goto(t, "resolved")
  /\ UNCHANGED <<initialized, loaded, restarts, op, name, base>>

-----------------------------------------------------------------------------
\* repos_init: the daemon counts as initialized before anything is loaded.
repos_init ==
  /\ At(Control, "idle")
  /\ ~initialized
  /\ initialized' = TRUE
  /\ Grow
  /\ UNCHANGED <<entries, loaded, restarts, pc, op, name, id, base>>

\* reposplugin_add of the plugin that defines metric n: RP_Load has the plugin
\* ask for its metric's id ...
reposplugin_add(n) ==
  /\ At(Control, "idle")
  /\ initialized
  /\ loaded[n] = 0
  /\ name' = [name EXCEPT ![Control] = n]
  /\ op' = [op EXCEPT ![Control] = "load"]
  /\ Goto(Control, "search")
  /\ UNCHANGED <<regvars, initialized, loaded, restarts, id, base>>

\* ... which it keeps as mcId; RPR_UpdateMetric then resolves the name again.
PluginLoaded ==
  /\ At(Control, "resolved")
  /\ op[Control] = "load"
  /\ loaded' = [loaded EXCEPT ![name[Control]] = id[Control]]
  /\ op' = [op EXCEPT ![Control] = "update"]
  /\ Goto(Control, "search")
  /\ UNCHANGED <<regvars, initialized, restarts, name, id, base>>

\* Mutant: the definition goes to the first slot.
UpdateFirst ==
  /\ At(Control, "resolved")
  /\ op[Control] = "update"
  /\ entries' = [entries EXCEPT ![1].def = TRUE]
  /\ Return(Control)
  /\ UNCHANGED <<maxEntries, array, initialized, loaded, restarts>>

UpdateMetric ==
  /\ At(Control, "resolved")
  /\ op[Control] = "update"
  /\ entries' = [entries EXCEPT ![id[Control]].def = TRUE]
  /\ Return(Control)
  /\ UNCHANGED <<maxEntries, array, initialized, loaded, restarts>>

Emptied == [name |-> NoName, def |-> FALSE]

\* Mutant: the definition stays in its slot.
DefinitionKept(i) == entries' = [entries EXCEPT ![i].name = NoName]

\* RemoveMetric: only a slot that has a definition is emptied.
RemoveMetric(i) ==
  entries' = IF i <= NumEntries /\ entries[i].def THEN [entries EXCEPT ![i] = Emptied] ELSE entries

\* The metric's slot goes by the plugin's mcId, then the library is unloaded.
reposplugin_remove(n) ==
  /\ At(Control, "idle")
  /\ loaded[n] # 0
  /\ RemoveMetric(loaded[n])
  /\ loaded' = [loaded EXCEPT ![n] = 0]
  /\ UNCHANGED <<maxEntries, array, initialized, restarts, pc, op, name, id, base>>

repos_terminate ==
  /\ At(Control, "idle")
  /\ initialized
  /\ restarts < MaxRestarts
  /\ restarts' = restarts + 1
  /\ initialized' = FALSE
  /\ Goto(Control, "terminating")
  /\ UNCHANGED <<regvars, loaded, op, name, id, base>>

\* The loop of repos_terminate: reposplugin_remove of the first plugin.
TerminateRemoves(n) ==
  /\ At(Control, "terminating")
  /\ loaded[n] # 0
  /\ RemoveMetric(loaded[n])
  /\ loaded' = [loaded EXCEPT ![n] = 0]
  /\ UNCHANGED <<maxEntries, array, initialized, restarts, pc, op, name, id, base>>

FinishRegistry ==
  /\ At(Control, "terminating")
  /\ \A n \in Names : loaded[n] = 0
  /\ entries' = <<>>
  /\ maxEntries' = 0
  /\ array' = array + 1
  /\ Goto(Control, "idle")
  /\ UNCHANGED <<initialized, loaded, restarts, op, name, id, base>>

-----------------------------------------------------------------------------
\* reposvalue_put of a value of metric n that a client has sent.
reposvalue_put(t, n) ==
  /\ daemon = "reposd"
  /\ At(t, "idle")
  /\ initialized
  /\ name' = [name EXCEPT ![t] = n]
  /\ op' = [op EXCEPT ![t] = "put"]
  /\ Goto(t, "search")
  /\ UNCHANGED <<regvars, initialized, loaded, restarts, id, base>>

\* mrep_add stores the value under the id that was found.
StoreValue(t) ==
  /\ At(t, "resolved")
  /\ op[t] = "put"
  /\ Return(t)
  /\ UNCHANGED <<regvars, initialized, loaded, restarts>>

\* GetMetric takes no lock: it compares with the count and reads the array's
\* address, and then reads the slot.
GetMetric(t, i) ==
  /\ At(t, "idle")
  /\ i <= NumEntries
  /\ id' = [id EXCEPT ![t] = i]
  /\ base' = [base EXCEPT ![t] = array]
  /\ Goto(t, "get")
  /\ UNCHANGED <<regvars, initialized, loaded, restarts, op, name>>

\* The caller works with the definition it was given, if any (the outcome of
\* reading a freed array is taken to be none).
GotMetric(t) ==
  /\ At(t, "get")
  /\ IF base[t] = array /\ entries[id[t]].def
     THEN /\ name' = [name EXCEPT ![t] = entries[id[t]].name]
          /\ Goto(t, "calculate")
          /\ UNCHANGED <<op, id, base>>
     ELSE Return(t)
  /\ UNCHANGED <<regvars, initialized, loaded, restarts>>

Calculated(t) ==
  /\ At(t, "calculate")
  /\ Return(t)
  /\ UNCHANGED <<regvars, initialized, loaded, restarts>>

ControlStep ==
  \/ repos_init \/ PluginLoaded \/ UpdateMetric
  \/ repos_terminate \/ FinishRegistry
  \/ \E n \in Names : reposplugin_add(n) \/ reposplugin_remove(n) \/ TerminateRemoves(n)

OtherStep(t) ==
  \/ \E n \in Names : reposvalue_put(t, n)
  \/ StoreValue(t)
  \/ \E i \in 1..MaxSlots : GetMetric(t, i)
  \/ GotMetric(t) \/ Calculated(t)

Step ==
  \/ ControlStep
  \/ \E t \in Others : OtherStep(t)
  \/ \E t \in Threads : Search(t) \/ Create(t)

Next == Step /\ UNCHANGED daemon

Spec == Init /\ [][Next]_vars

-----------------------------------------------------------------------------
(* "Returns a unique id for a given name" (rreg.c:83): in gatherd, where   *)
(* only the control thread calls IdForString, no two slots have the same   *)
(* name, although its search and its creation of a slot are two critical   *)
(* sections.  In reposd, where remote threads call it too, they may.       *)
UniqueIdsInGatherd ==
  daemon = "gatherd" => \A n \in Names : \A i, j \in Slots(n) : i = j

(* In gatherd a definition never outlives the library it is part of: what  *)
(* the registry hands out belongs to a loaded plugin.                      *)
NoDanglingDefinition ==
  daemon = "gatherd" =>
    \A i \in 1..NumEntries :
      entries[i].def => entries[i].name \in Names /\ loaded[entries[i].name] # 0

(* There, once the control thread is done with a plugin, a name leads to   *)
(* its definition: the first slot found for it has one.                    *)
DefinitionIsReachable ==
  daemon = "gatherd" /\ At(Control, "idle") =>
    \A n \in Names : loaded[n] # 0 => \E i \in 1..NumEntries : Found(n, i) /\ entries[i].def

(* A value is stored under an id that still stands for its metric, or for  *)
(* none, whatever is loaded or unloaded while its name is resolved; the    *)
(* flush of the registry is excepted, after which ids start again.         *)
StoredUnderItsName ==
  \A t \in Others :
    At(t, "resolved") /\ restarts = 0 /\ id[t] <= NumEntries =>
      entries[id[t]].name \in {name[t], NoName}
=============================================================================
