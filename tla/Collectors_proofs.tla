--------------------------- MODULE Collectors_proofs ---------------------------
(***************************************************************************)
(* Proofs about the samplers that work in many steps while what they read  *)
(* changes: the list of domains (DomainList, collectDomainStats of         *)
(* plugin/metricVirt.c) and the files that are read together (Snapshots,   *)
(* readSysFs of plugin/metriczECKD.c and get_hypervisor_info of            *)
(* plugin/hypfs.c), for any number of domains, files, updates and seconds. *)
(***************************************************************************)
EXTENDS Collectors, Sequences, FiniteSetTheorems, SequenceTheorems, TLAPS

-----------------------------------------------------------------------------
(* The list of domains: its inductive invariant.                           *)

Entry == [domain : Domains, cpu_time : Nat]

(* The first n entries of the list, and the domains they are about.        *)
Filled(n) == n \in Nat /\ n <= 2 * Cardinality(Domains) /\ \A i \in 1 .. n : list[i] \in Entry
OfList(n) == {list[i].domain : i \in 1 .. n}

(* The times of the first n entries are times of this collection.          *)
InTime(n) ==
  \A i \in 1 .. n : list[i].cpu_time \in before[list[i].domain] .. work[list[i].domain]

HypervisorTypes ==
  /\ running \subseteq Domains
  /\ starts \in [Domains -> Nat] /\ work \in [Domains -> Nat] /\ before \in [Domains -> Nat]
  /\ \A d \in Domains : before[d] <= work[d]
  /\ now \in Nat
  /\ DOMAIN list = 1 .. 2 * Cardinality(Domains)
  /\ disturbed \in BOOLEAN

(* The domains that are still to be looked up, by id and by name.          *)
Listed ==
  at \in {"lookup", "getInfo"} =>
    /\ ids \in Seq([domain : Domains, start : Nat])
    /\ \A k \in 1 .. Len(ids) : ids[k].domain \in running /\ ids[k].start = starts[ids[k].domain]
    /\ at = "getInfo" => ids # <<>>
    /\ Filled(cnt) /\ InTime(cnt) /\ cnt + Len(ids) = Cardinality(running)
    /\ OfList(cnt) \union {ids[k].domain : k \in 1 .. Len(ids)} = running

ListedDefined ==
  at = "lookupByName" =>
    /\ ids \in Seq(Domains)
    /\ num_active_domains = Cardinality(running) /\ num_active_domains <= cnt
    /\ Filled(cnt) /\ InTime(num_active_domains) /\ cnt + Len(ids) = Cardinality(Domains)
    /\ OfList(cnt) \union {ids[k] : k \in 1 .. Len(ids)} = Domains

Counts ==
  /\ at \in {"inactive", "info"} => num_active_domains = Cardinality(running)
  /\ at \in {"info", "lookup", "getInfo", "listDefined", "lookupByName"} =>
       num_inactive_domains = Cardinality(DL!Defined)
  /\ at = "info" => total_domains = Cardinality(Domains)

ActiveDone ==
  at = "listDefined" =>
    /\ num_active_domains = Cardinality(running) /\ cnt = num_active_domains
    /\ Filled(cnt) /\ InTime(cnt) /\ OfList(cnt) = running

(* The list that samplers take for a while.                                *)
Whole ==
  /\ total_domains = Cardinality(Domains) /\ num_active_domains \in 0 .. total_domains
  /\ Filled(total_domains) /\ InTime(num_active_domains) /\ OfList(total_domains) = Domains

Usable == at = "idle" /\ now - last_time_sampled < Keep => Whole

Steps == {"idle", "active", "inactive", "info", "lookup", "getInfo", "listDefined", "lookupByName"}

Types == HypervisorTypes /\ at \in Steps /\ last_time_sampled \in Int

Phases == Listed /\ ListedDefined /\ Counts /\ ActiveDone /\ Usable

Inv == Types /\ (~disturbed => Phases)

-----------------------------------------------------------------------------
(* DomainList's cardinality is the library's.                              *)
LEMMA SameCardinality == \A S : DL!Cardinality(S) = Cardinality(S)
BY DEF DL!Cardinality, Cardinality

LEMMA Listing ==
  ASSUME NEW S, IsFiniteSet(S), NEW s \in DL!SetToSeqs(S)
  PROVE  s \in Seq(S) /\ Len(s) = Cardinality(S) /\ {s[i] : i \in 1 .. Len(s)} = S
<1>. DEFINE n == Cardinality(S)
<1>1. n \in Nat  BY FS_CardinalityType
<1>2. s \in [1 .. n -> S] /\ \A i, j \in 1 .. n : i # j => s[i] # s[j]
  BY SameCardinality DEF DL!SetToSeqs, DL!IsInjective
<1>3. s \in Seq(S) /\ Len(s) = n
  <2>. HIDE DEF n
  <2>. QED  BY <1>1, <1>2
<1>4. s \in Injection(1 .. n, S)  BY <1>2 DEF Injection, IsInjective
<1>5. Cardinality(1 .. n) = n /\ IsFiniteSet(1 .. n)
  <2>. HIDE DEF n
  <2>. QED  BY <1>1, FS_Interval
<1>6. s \in Surjection(1 .. n, S)  BY <1>4, <1>5, FS_Injection
<1>7. \A x \in S : \E i \in 1 .. n : s[i] = x  BY <1>6 DEF Surjection
<1>. HIDE DEF n
<1>. QED  BY <1>2, <1>3, <1>7 DEF n

(* A queue loses its first element.                                        *)
LEMMA Rest ==
  ASSUME NEW S, NEW q \in Seq(S), q # <<>>
  PROVE  /\ Tail(q) \in Seq(S) /\ Len(Tail(q)) = Len(q) - 1 /\ Len(q) \in Nat \ {0}
         /\ Head(q) = q[1] /\ q[1] \in S
         /\ \A k \in 1 .. Len(q) - 1 : Tail(q)[k] = q[k + 1]
         /\ \A k \in 1 .. Len(q) : k = 1 \/ q[k] = Tail(q)[k - 1]
OBVIOUS

LEMMA Domain ==
  ASSUME IsFiniteSet(Domains), HypervisorTypes
  PROVE  /\ IsFiniteSet(running) /\ IsFiniteSet(DL!Defined)
         /\ Cardinality(running) \in Nat /\ Cardinality(DL!Defined) \in Nat /\ Cardinality(Domains) \in Nat
         /\ Cardinality(running) + Cardinality(DL!Defined) = Cardinality(Domains)
<1>1. running \subseteq Domains /\ running \in SUBSET Domains  BY DEF HypervisorTypes
<1>2. IsFiniteSet(running)  BY <1>1, FS_Subset
<1>3. IsFiniteSet(DL!Defined)  BY <1>1, FS_Difference DEF DL!Defined
<1>4. /\ Cardinality(running) \in Nat /\ Cardinality(DL!Defined) \in Nat /\ Cardinality(Domains) \in Nat
  BY <1>2, <1>3, FS_CardinalityType
<1>5. Cardinality(DL!Defined) = Cardinality(Domains) - Cardinality(Domains \cap running)
  BY FS_Difference DEF DL!Defined
<1>6. Domains \cap running = running  BY <1>1
<1>7. Cardinality(DL!Defined) = Cardinality(Domains) - Cardinality(running)  BY <1>5, <1>6
<1>8. Cardinality(running) + Cardinality(DL!Defined) = Cardinality(Domains)  BY <1>4, <1>7
<1>. QED  BY <1>2, <1>3, <1>4, <1>8

(* Entering one more domain.                                               *)
LEMMA Entering ==
  ASSUME HypervisorTypes, Filled(cnt), cnt < 2 * Cardinality(Domains), Cardinality(Domains) \in Nat,
         NEW d \in Domains, NEW c \in Nat,
         list' = [list EXCEPT ![cnt + 1] = [domain |-> d, cpu_time |-> c]], cnt' = cnt + 1
  PROVE  /\ Filled(cnt)' /\ DOMAIN list' = DOMAIN list
         /\ \A i \in 1 .. cnt : list'[i] = list[i]
         /\ list'[cnt + 1] = [domain |-> d, cpu_time |-> c]
         /\ OfList(cnt)' = OfList(cnt) \union {d}
<1>1. cnt \in Nat /\ cnt + 1 \in DOMAIN list  BY DEF Filled, HypervisorTypes
<1>2. /\ DOMAIN list' = DOMAIN list /\ list'[cnt + 1] = [domain |-> d, cpu_time |-> c]
      /\ \A i \in 1 .. cnt : list'[i] = list[i]
  BY <1>1 DEF Filled, HypervisorTypes
<1>3. \A i \in 1 .. cnt + 1 : list'[i] \in Entry  BY <1>1, <1>2 DEF Filled, Entry
<1>4. OfList(cnt)' = OfList(cnt) \union {d}
  <2>1. OfList(cnt)' \subseteq OfList(cnt) \union {d}  BY <1>1, <1>2 DEF OfList
  <2>2. \A i \in 1 .. cnt : i \in 1 .. cnt + 1 /\ list'[i].domain = list[i].domain  BY <1>1, <1>2
  <2>3. cnt + 1 \in 1 .. cnt + 1 /\ list'[cnt + 1].domain = d  BY <1>1, <1>2
  <2>4. OfList(cnt) \union {d} \subseteq OfList(cnt)'  BY <2>2, <2>3 DEF OfList
  <2>. QED  BY <2>1, <2>4
<1>5. Filled(cnt)'  BY <1>1, <1>3 DEF Filled, Entry
<1>. QED  BY <1>2, <1>4, <1>5

-----------------------------------------------------------------------------
LEMMA StartedOrStopped ==
  ASSUME DL!StartOrStop
  PROVE  /\ \E d \in Domains :
              /\ running' \in {running \ {d}, running \union {d}}
              /\ starts' = [starts EXCEPT ![d] = IF d \in running THEN @ ELSE @ + 1]
         /\ disturbed' = (disturbed \/ DL!Collecting)
         /\ UNCHANGED <<work, now, at, num_active_domains, num_inactive_domains, total_domains,
                        list, last_time_sampled, ids, cnt, dinfo, given, before>>
BY DEF DL!StartOrStop, DL!node

LEMMA TypesKept == Types /\ [DL!Next]_DL!vars => Types'
<1>. SUFFICES ASSUME Types, [DL!Next]_DL!vars PROVE Types'  OBVIOUS
<1>. USE DEF Types
<1>1. CASE DL!StartOrStop
  <2>1. PICK d \in Domains : /\ running' \in {running \ {d}, running \union {d}}
                             /\ starts' = [starts EXCEPT ![d] = IF d \in running THEN @ ELSE @ + 1]
    BY <1>1, StartedOrStopped
  <2>2. /\ disturbed' = (disturbed \/ DL!Collecting)
        /\ UNCHANGED <<work, now, at, list, last_time_sampled, before>>
    BY <1>1, StartedOrStopped
  <2>3. starts' \in [Domains -> Nat] /\ running' \subseteq Domains  BY <2>1 DEF HypervisorTypes
  <2>. QED  BY <2>2, <2>3 DEF HypervisorTypes
<1>2. CASE DL!Work
  <2>1. PICK d \in Domains : work' = [work EXCEPT ![d] = @ + 1]  BY <1>2 DEF DL!Work, HypervisorTypes
  <2>2. UNCHANGED <<running, starts, now, at, list, last_time_sampled, before, disturbed>>
    BY <1>2 DEF DL!Work
  <2>. QED  BY <2>1, <2>2 DEF HypervisorTypes
<1>3. CASE DL!Tick  BY <1>3 DEF DL!Tick, HypervisorTypes
<1>4. CASE DL!collectDomainStats
  <2>1. UNCHANGED DL!hypervisor /\ before' \in {before, work}
        /\ last_time_sampled' \in {last_time_sampled, now} /\ at' \in Steps
    BY <1>4 DEF DL!collectDomainStats, DL!UseList, DL!BeginCollection, DL!NumOfDomains, DL!NumOfDefinedDomains,
                DL!CallFails, DL!ListDomains, DL!NoDomains, DL!LookUpByID, DL!GetInfo, DL!EndOfActive,
                DL!ListDefinedDomains, DL!LookUpByName, DL!EndOfCollection, DL!Return, Steps
  <2>2. DOMAIN list' = DOMAIN list
    BY <1>4 DEF DL!collectDomainStats, DL!UseList, DL!BeginCollection, DL!NumOfDomains, DL!NumOfDefinedDomains,
                DL!CallFails, DL!ListDomains, DL!NoDomains, DL!LookUpByID, DL!GetInfo, DL!EndOfActive,
                DL!ListDefinedDomains, DL!LookUpByName, DL!EndOfCollection
  <2>3. disturbed' \in BOOLEAN
    BY <1>4 DEF DL!collectDomainStats, DL!UseList, DL!BeginCollection, DL!NumOfDomains, DL!NumOfDefinedDomains,
                DL!CallFails, DL!ListDomains, DL!NoDomains, DL!LookUpByID, DL!GetInfo, DL!EndOfActive,
                DL!ListDefinedDomains, DL!LookUpByName, DL!EndOfCollection, HypervisorTypes
  <2>4. UNCHANGED <<running, starts, work, now>>  BY <2>1 DEF DL!hypervisor
  <2>5. before' \in [Domains -> Nat] /\ \A d \in Domains : before'[d] <= work[d]
    BY <2>1 DEF HypervisorTypes
  <2>6. last_time_sampled' \in Int  BY <2>1 DEF HypervisorTypes
  <2>. QED  BY <2>1, <2>2, <2>3, <2>4, <2>5, <2>6 DEF HypervisorTypes
<1>5. CASE UNCHANGED DL!vars  BY <1>5 DEF DL!vars, HypervisorTypes
<1>. QED  BY <1>1, <1>2, <1>3, <1>4, <1>5 DEF DL!Next

(* Domains that work, and time, leave what was collected as it is.         *)
LEMMA StillInTime ==
  ASSUME Types, NEW n, Filled(n), NEW m \in Nat, m <= n, InTime(m), list' = list, before' = before,
         \A d \in Domains : work[d] <= work'[d], work' \in [Domains -> Nat]
  PROVE  \A i \in 1 .. m : list[i].cpu_time \in before[list[i].domain] .. work'[list[i].domain]
<1>. SUFFICES ASSUME NEW i \in 1 .. m
              PROVE  list[i].cpu_time \in before[list[i].domain] .. work'[list[i].domain]
  OBVIOUS
<1>1. i \in 1 .. n /\ list[i] \in Entry  BY DEF Filled
<1>2. list[i].domain \in Domains /\ list[i].cpu_time \in Nat  BY <1>1 DEF Entry
<1>3. list[i].cpu_time \in before[list[i].domain] .. work[list[i].domain]  BY DEF InTime
<1>4. work[list[i].domain] \in Nat /\ work'[list[i].domain] \in Nat /\ before[list[i].domain] \in Nat
      /\ work[list[i].domain] <= work'[list[i].domain]
  BY <1>2 DEF Types, HypervisorTypes
<1>. QED  BY <1>2, <1>3, <1>4

LEMMA HypervisorPhases ==
  ASSUME IsFiniteSet(Domains), Keep \in Nat, Inv, ~disturbed', DL!StartOrStop \/ DL!Work \/ DL!Tick
  PROVE  Phases'
<1>. USE DEF Phases
<1>1. /\ UNCHANGED <<at, num_active_domains, num_inactive_domains, total_domains, list,
                     last_time_sampled, ids, cnt, before>>
      /\ ~disturbed /\ Types /\ Phases
  <2>1. UNCHANGED <<at, num_active_domains, num_inactive_domains, total_domains, list,
                    last_time_sampled, ids, cnt, before>>
    BY StartedOrStopped DEF DL!Work, DL!Tick, DL!node
  <2>2. ~disturbed
    <3>1. CASE DL!StartOrStop  BY <3>1, StartedOrStopped
    <3>2. CASE DL!Work \/ DL!Tick  BY <3>2 DEF DL!Work, DL!Tick
    <3>. QED  BY <3>1, <3>2
  <2>. QED  BY <2>1, <2>2 DEF Inv
<1>2. at # "idle" => running' = running /\ starts' = starts
  BY StartedOrStopped DEF DL!Collecting, DL!Work, DL!Tick
<1>3. /\ work' \in [Domains -> Nat] /\ \A d \in Domains : work[d] <= work'[d]
  <2>1. CASE DL!Work
    <3>1. PICK d \in Domains : work' = [work EXCEPT ![d] = @ + 1]
      BY <1>1, <2>1 DEF DL!Work, Types, HypervisorTypes
    <3>. QED  BY <1>1, <3>1 DEF Types, HypervisorTypes
  <2>2. CASE DL!StartOrStop \/ DL!Tick
    <3>1. work' = work  BY <2>2, StartedOrStopped DEF DL!Tick
    <3>. QED  BY <1>1, <3>1 DEF Types, HypervisorTypes
  <2>. QED  BY <2>1, <2>2
<1>4. now' \in {now, now + 1}  BY StartedOrStopped DEF DL!Work, DL!Tick
<1>5. \A n : Filled(n)' = Filled(n) /\ OfList(n)' = OfList(n)  BY <1>1 DEF Filled, OfList
<1>6. ASSUME NEW n, Filled(n), NEW m \in Nat, m <= n, InTime(m)
      PROVE  \A i \in 1 .. m : list'[i].cpu_time \in before'[list'[i].domain] .. work'[list'[i].domain]
  BY <1>1, <1>3, <1>6, StillInTime
<1>7. Usable'
  <2>. SUFFICES ASSUME at = "idle", now' - last_time_sampled < Keep PROVE Whole'
    BY <1>1 DEF Usable
  <2>1. Whole
    <3>1. now \in Nat /\ last_time_sampled \in Int  BY <1>1 DEF Types, HypervisorTypes
    <3>2. now - last_time_sampled < Keep
      <4>1. CASE now' = now  BY <4>1
      <4>2. CASE now' = now + 1  BY <3>1, <4>2
      <4>. QED  BY <1>4, <4>1, <4>2
    <3>. QED  BY <1>1, <3>2 DEF Usable
  <2>2. num_active_domains \in Nat /\ num_active_domains <= total_domains /\ total_domains \in Nat
    BY <2>1, FS_CardinalityType DEF Whole
  <2>3. \A i \in 1 .. num_active_domains :
          list'[i].cpu_time \in before'[list'[i].domain] .. work'[list'[i].domain]
    BY <1>6, <2>1, <2>2 DEF Whole
  <2>. QED  BY <1>1, <1>5, <2>1, <2>3 DEF Whole, InTime
<1>8. Listed' /\ ListedDefined' /\ ActiveDone'
  <2>1. CASE at \in {"lookup", "getInfo"}
    <3>1. cnt \in Nat /\ Filled(cnt) /\ InTime(cnt)  BY <1>1, <2>1 DEF Listed, Filled
    <3>2. InTime(cnt)'  BY <1>1, <1>6, <3>1 DEF InTime
    <3>. QED  BY <1>1, <1>2, <1>5, <2>1, <3>2 DEF Listed, ListedDefined, ActiveDone
  <2>2. CASE at = "listDefined"
    <3>1. cnt \in Nat /\ Filled(cnt) /\ InTime(cnt)  BY <1>1, <2>2 DEF ActiveDone, Filled
    <3>2. InTime(cnt)'  BY <1>1, <1>6, <3>1 DEF InTime
    <3>. QED  BY <1>1, <1>2, <1>5, <2>2, <3>2 DEF Listed, ListedDefined, ActiveDone
  <2>3. CASE at = "lookupByName"
    <3>1. cnt \in Nat /\ Filled(cnt) /\ InTime(num_active_domains) /\ num_active_domains <= cnt
      BY <1>1, <2>3 DEF ListedDefined, Filled
    <3>2. num_active_domains \in Nat
      BY <1>1, <2>3, Domain DEF ListedDefined, Types
    <3>3. InTime(num_active_domains)'  BY <1>1, <1>6, <3>1, <3>2 DEF InTime
    <3>. QED  BY <1>1, <1>2, <1>5, <2>3, <3>3 DEF Listed, ListedDefined, ActiveDone
  <2>4. CASE at \notin {"lookup", "getInfo", "listDefined", "lookupByName"}
    BY <1>1, <2>4 DEF Listed, ListedDefined, ActiveDone
  <2>. QED  BY <2>1, <2>2, <2>3, <2>4
<1>9. Counts'  BY <1>1, <1>2 DEF Counts, DL!Defined
<1>. QED  BY <1>7, <1>8, <1>9

-----------------------------------------------------------------------------
(* The steps of a sampler.                                                 *)

LEMMA ListUnchanged ==
  ASSUME UNCHANGED <<running, work, list, before>>
  PROVE  /\ DL!Defined' = DL!Defined
         /\ \A n : Filled(n)' = Filled(n) /\ InTime(n)' = InTime(n) /\ OfList(n)' = OfList(n)
BY DEF Filled, InTime, OfList, DL!Defined

LEMMA StartPhases ==
  ASSUME IsFiniteSet(Domains), Inv, ~disturbed',
         DL!UseList \/ DL!BeginCollection \/ DL!NumOfDomains \/ DL!NumOfDefinedDomains \/ DL!CallFails
  PROVE  Phases'
<1>. USE DEF Phases
<1>1. CASE DL!UseList
  <2>1. UNCHANGED <<running, starts, work, now, at, num_active_domains, num_inactive_domains, total_domains,
                    list, last_time_sampled, ids, cnt, dinfo, before, disturbed>>
    BY <1>1 DEF DL!UseList, DL!hypervisor, DL!node
  <2>2. Phases  BY <2>1 DEF Inv
  <2>3. /\ DL!Defined' = DL!Defined
        /\ \A n : Filled(n)' = Filled(n) /\ InTime(n)' = InTime(n) /\ OfList(n)' = OfList(n)
    BY <2>1, ListUnchanged
  <2>. QED  BY <2>1, <2>2, <2>3 DEF Listed, ListedDefined, Counts, ActiveDone, Usable, Whole
<1>2. CASE DL!BeginCollection
  BY <1>2 DEF DL!BeginCollection, Listed, ListedDefined, Counts, ActiveDone, Usable
<1>3. CASE DL!NumOfDomains
  <2>1. at' = "inactive" /\ num_active_domains' = Cardinality(running) /\ running' = running
    BY <1>3, SameCardinality DEF DL!NumOfDomains, DL!hypervisor
  <2>. QED  BY <2>1 DEF Listed, ListedDefined, Counts, ActiveDone, Usable
<1>4. CASE DL!NumOfDefinedDomains
  <2>1. /\ at = "inactive" /\ at' = "info" /\ running' = running /\ ~disturbed
        /\ num_active_domains' = num_active_domains
        /\ num_inactive_domains' = Cardinality(DL!Defined)
        /\ total_domains' = num_active_domains + num_inactive_domains'
    BY <1>4, SameCardinality DEF DL!NumOfDefinedDomains, DL!hypervisor
  <2>2. num_active_domains = Cardinality(running) /\ HypervisorTypes
    BY <2>1 DEF Inv, Counts, Types
  <2>3. total_domains' = Cardinality(Domains)  BY <2>1, <2>2, Domain
  <2>4. DL!Defined' = DL!Defined  BY <2>1 DEF DL!Defined
  <2>. QED  BY <2>1, <2>2, <2>3, <2>4 DEF Listed, ListedDefined, Counts, ActiveDone, Usable
<1>5. CASE DL!CallFails  BY <1>5 DEF DL!CallFails
<1>. QED  BY <1>1, <1>2, <1>3, <1>4, <1>5

LEMMA ListPhases ==
  ASSUME IsFiniteSet(Domains), Inv, ~disturbed', DL!ListDomains
  PROVE  Phases'
<1>1. /\ at = "info" /\ at' = "lookup" /\ cnt' = 0 /\ ~disturbed
      /\ UNCHANGED <<running, starts, num_inactive_domains, list, before, work>>
  BY DEF DL!ListDomains, DL!hypervisor
<1>2. num_active_domains = Cardinality(running) /\ num_inactive_domains = Cardinality(DL!Defined)
  BY <1>1 DEF Inv, Phases, Counts
<1>3. HypervisorTypes  BY DEF Inv, Types
<1>4. /\ IsFiniteSet(running) /\ Cardinality(running) \in Nat /\ Cardinality(Domains) \in Nat
  BY <1>3, Domain
<1>5. PICK s \in DL!SetToSeqs(running) :
        ids' = [i \in 1 .. (IF Len(s) < num_active_domains THEN Len(s) ELSE num_active_domains) |->
                 [domain |-> s[i], start |-> starts[s[i]]]]
  BY DEF DL!ListDomains
<1>6. s \in Seq(running) /\ Len(s) = Cardinality(running) /\ {s[i] : i \in 1 .. Len(s)} = running
  BY <1>4, Listing
<1>7. ids' = [i \in 1 .. Len(s) |-> [domain |-> s[i], start |-> starts[s[i]]]]
  BY <1>2, <1>4, <1>5, <1>6
<1>8. \A i \in 1 .. Len(s) : s[i] \in running /\ s[i] \in Domains /\ starts[s[i]] \in Nat
  BY <1>3, <1>6 DEF HypervisorTypes
<1>9. ids' \in Seq([domain : Domains, start : Nat]) /\ Len(ids') = Len(s)
  <2>1. Len(s) \in Nat  BY <1>4, <1>6
  <2>. QED  BY <1>7, <1>8, <2>1
<1>10. \A k \in 1 .. Len(ids') : ids'[k].domain = s[k] /\ ids'[k].start = starts[s[k]]
  BY <1>7, <1>9
<1>11. {ids'[k].domain : k \in 1 .. Len(ids')} = {s[k] : k \in 1 .. Len(s)}
  <2>1. \A k \in 1 .. Len(s) : ids'[k].domain = s[k]  BY <1>9, <1>10
  <2>. QED  BY <1>9, <2>1
<1>12. Filled(cnt)' /\ InTime(cnt)' /\ OfList(cnt)' = {}  BY <1>1, <1>4 DEF Filled, InTime, OfList
<1>13. /\ OfList(cnt)' \union {ids'[k].domain : k \in 1 .. Len(ids')} = running
       /\ cnt' + Len(ids') = Cardinality(running)
  <2>1. {ids'[k].domain : k \in 1 .. Len(ids')} = running  BY <1>6, <1>11
  <2>2. OfList(cnt)' \union {ids'[k].domain : k \in 1 .. Len(ids')} = running  BY <1>12, <2>1
  <2>3. cnt' + Len(ids') = Cardinality(running)  BY <1>1, <1>4, <1>6, <1>9
  <2>. QED  BY <2>2, <2>3
<1>14. \A k \in 1 .. Len(ids') : ids'[k].domain \in running' /\ ids'[k].start = starts'[ids'[k].domain]
  BY <1>1, <1>8, <1>9, <1>10
<1>15. Listed'  BY <1>1, <1>9, <1>12, <1>13, <1>14 DEF Listed
<1>. QED  BY <1>1, <1>2, <1>15 DEF Phases, ListedDefined, Counts, ActiveDone, Usable, DL!Defined

LEMMA NoPhases ==
  ASSUME IsFiniteSet(Domains), Inv, ~disturbed', DL!NoDomains
  PROVE  Phases' /\ Domains = {}
<1>1. /\ at = "info" /\ at' = "idle" /\ total_domains = 0 /\ ~disturbed
      /\ UNCHANGED <<num_active_domains, num_inactive_domains, total_domains, list>>
  BY DEF DL!NoDomains, DL!Return, DL!node
<1>2. num_active_domains = Cardinality(running) /\ total_domains = Cardinality(Domains) /\ HypervisorTypes
  BY <1>1 DEF Inv, Phases, Counts, Types
<1>3. num_active_domains = 0  BY <1>1, <1>2, Domain
<1>4. Domains = {}  BY <1>1, <1>2, FS_EmptySet
<1>5. Whole'  BY <1>1, <1>2, <1>3, <1>4 DEF Whole, Filled, InTime, OfList
<1>. QED  BY <1>1, <1>4, <1>5 DEF Phases, Listed, ListedDefined, Counts, ActiveDone, Usable

LEMMA LookUpPhases ==
  ASSUME IsFiniteSet(Domains), Inv, ~disturbed', DL!LookUpByID
  PROVE  Phases'
<1>1. at = "lookup" /\ ids # <<>> /\ ~disturbed  BY DEF DL!LookUpByID
<1>2. Phases  BY <1>1 DEF Inv
<1>3. DL!StillThere
  <2>1. Len(ids) \in Nat \ {0} /\ Head(ids) = ids[1]  BY <1>1, <1>2, Rest DEF Phases, Listed
  <2>. QED  BY <1>1, <1>2, <2>1 DEF Phases, Listed, DL!StillThere
<1>4. /\ at' = "getInfo" /\ ids' = ids
      /\ UNCHANGED <<running, starts, work, num_inactive_domains, list, cnt, before>>
  BY <1>3 DEF DL!LookUpByID, DL!hypervisor, DL!node
<1>5. /\ DL!Defined' = DL!Defined
      /\ \A n : Filled(n)' = Filled(n) /\ InTime(n)' = InTime(n) /\ OfList(n)' = OfList(n)
  BY <1>4, ListUnchanged
<1>. QED  BY <1>1, <1>2, <1>4, <1>5 DEF Phases, Listed, ListedDefined, Counts, ActiveDone, Usable

LEMMA InfoPhases ==
  ASSUME IsFiniteSet(Domains), Inv, ~disturbed', DL!GetInfo
  PROVE  Phases'
<1>. DEFINE d == Head(ids).domain
<1>1. at = "getInfo" /\ ~disturbed  BY DEF DL!GetInfo
<1>2. Phases /\ HypervisorTypes  BY <1>1 DEF Inv, Types
<1>3. /\ ids \in Seq([domain : Domains, start : Nat]) /\ ids # <<>> /\ Filled(cnt) /\ InTime(cnt)
      /\ \A k \in 1 .. Len(ids) : ids[k].domain \in running /\ ids[k].start = starts[ids[k].domain]
      /\ cnt + Len(ids) = Cardinality(running)
      /\ OfList(cnt) \union {ids[k].domain : k \in 1 .. Len(ids)} = running
  BY <1>1, <1>2 DEF Phases, Listed
<1>4. /\ Tail(ids) \in Seq([domain : Domains, start : Nat])
      /\ Len(Tail(ids)) = Len(ids) - 1 /\ Len(ids) \in Nat \ {0}
      /\ Head(ids) = ids[1] /\ ids[1] \in [domain : Domains, start : Nat]
      /\ \A k \in 1 .. Len(ids) - 1 : Tail(ids)[k] = ids[k + 1]
      /\ \A k \in 1 .. Len(ids) : k = 1 \/ ids[k] = Tail(ids)[k - 1]
  BY <1>3, Rest
<1>5. DL!StillThere /\ d \in Domains /\ d \in running /\ d = ids[1].domain  BY <1>3, <1>4 DEF DL!StillThere
<1>6. /\ list' = [list EXCEPT ![cnt + 1] = [domain |-> d, cpu_time |-> work[d]]]
      /\ cnt' = cnt + 1 /\ ids' = Tail(ids) /\ at' = "lookup"
      /\ UNCHANGED <<running, starts, work, num_inactive_domains, before>>
  BY <1>5 DEF DL!GetInfo, DL!hypervisor, DL!node
<1>7. /\ before[d] \in Nat /\ work[d] \in Nat /\ before[d] <= work[d]  BY <1>2, <1>5 DEF HypervisorTypes
<1>8. cnt \in Nat /\ cnt < 2 * Cardinality(Domains) /\ Cardinality(Domains) \in Nat
  BY <1>2, <1>3, <1>4, Domain DEF Filled
<1>. HIDE DEF d
<1>9. /\ Filled(cnt)' /\ OfList(cnt)' = OfList(cnt) \union {d}
      /\ \A i \in 1 .. cnt : list'[i] = list[i]
      /\ list'[cnt + 1] = [domain |-> d, cpu_time |-> work[d]]
  BY <1>2, <1>3, <1>5, <1>6, <1>7, <1>8, Entering
<1>10. InTime(cnt)'
  <2>. SUFFICES ASSUME NEW i \in 1 .. cnt + 1
                PROVE  list'[i].cpu_time \in before[list'[i].domain] .. work[list'[i].domain]
    BY <1>6 DEF InTime
  <2>1. CASE i = cnt + 1  BY <1>7, <1>9, <2>1
  <2>2. CASE i \in 1 .. cnt  BY <1>3, <1>9, <2>2 DEF InTime
  <2>. QED  BY <1>8, <2>1, <2>2
<1>11. {ids[k].domain : k \in 1 .. Len(ids)} = {d} \union {Tail(ids)[k].domain : k \in 1 .. Len(Tail(ids))}
  <2>1. ASSUME NEW k \in 1 .. Len(ids)
        PROVE  ids[k].domain \in {d} \union {Tail(ids)[j].domain : j \in 1 .. Len(Tail(ids))}
    <3>1. CASE k = 1  BY <1>5, <3>1
    <3>2. CASE k # 1
      <4>1. ids[k] = Tail(ids)[k - 1] /\ k - 1 \in 1 .. Len(Tail(ids))  BY <1>4, <3>2
      <4>. QED  BY <4>1
    <3>. QED  BY <3>1, <3>2
  <2>2. ASSUME NEW k \in 1 .. Len(Tail(ids))
        PROVE  Tail(ids)[k].domain \in {ids[j].domain : j \in 1 .. Len(ids)}
    <3>1. Tail(ids)[k] = ids[k + 1] /\ k + 1 \in 1 .. Len(ids)  BY <1>4
    <3>. QED  BY <3>1
  <2>3. d \in {ids[j].domain : j \in 1 .. Len(ids)}  BY <1>4, <1>5
  <2>. QED  BY <2>1, <2>2, <2>3
<1>12. OfList(cnt)' \union {Tail(ids)[k].domain : k \in 1 .. Len(Tail(ids))} = running
  BY <1>3, <1>9, <1>11
<1>13. \A k \in 1 .. Len(Tail(ids)) :
         Tail(ids)[k].domain \in running /\ Tail(ids)[k].start = starts[Tail(ids)[k].domain]
  <2>. SUFFICES ASSUME NEW k \in 1 .. Len(Tail(ids))
                PROVE  Tail(ids)[k].domain \in running /\ Tail(ids)[k].start = starts[Tail(ids)[k].domain]
    OBVIOUS
  <2>1. Tail(ids)[k] = ids[k + 1] /\ k + 1 \in 1 .. Len(ids)  BY <1>4
  <2>. QED  BY <1>3, <2>1
<1>14. cnt' + Len(ids') = Cardinality(running)  BY <1>3, <1>4, <1>6, <1>8
<1>15. Listed'
  BY <1>4, <1>6, <1>9, <1>10, <1>12, <1>13, <1>14 DEF Listed
<1>. QED  BY <1>1, <1>2, <1>6, <1>15 DEF Phases, ListedDefined, Counts, ActiveDone, Usable, DL!Defined

LEMMA EndOfActivePhases ==
  ASSUME IsFiniteSet(Domains), Inv, ~disturbed', DL!EndOfActive
  PROVE  Phases'
<1>1. /\ at = "lookup" /\ at' = "listDefined" /\ ids = <<>> /\ num_active_domains' = cnt /\ ~disturbed
      /\ UNCHANGED <<running, work, num_inactive_domains, list, cnt, before>>
  BY DEF DL!EndOfActive, DL!hypervisor
<1>2. Phases  BY <1>1 DEF Inv
<1>3. /\ Filled(cnt) /\ InTime(cnt) /\ cnt + Len(ids) = Cardinality(running)
      /\ OfList(cnt) \union {ids[k].domain : k \in 1 .. Len(ids)} = running
  BY <1>1, <1>2 DEF Phases, Listed
<1>4. Len(ids) = 0  BY <1>1
<1>5. cnt = Cardinality(running) /\ OfList(cnt) = running
  <2>1. {ids[k].domain : k \in 1 .. Len(ids)} = {}
    <3>1. \A k \in 1 .. Len(ids) : FALSE  BY <1>4
    <3>. QED  BY <3>1
  <2>2. cnt \in Nat  BY <1>3 DEF Filled
  <2>3. cnt = Cardinality(running)  BY <1>3, <1>4, <2>2
  <2>4. OfList(cnt) \union {} = running  BY <1>3, <2>1
  <2>. QED  BY <2>3, <2>4
<1>. QED  BY <1>1, <1>2, <1>3, <1>5 DEF Phases, Listed, ListedDefined, Counts, ActiveDone, Usable, DL!Defined,
                                         Filled, InTime, OfList

LEMMA ListDefinedPhases ==
  ASSUME IsFiniteSet(Domains), Inv, ~disturbed', DL!ListDefinedDomains
  PROVE  Phases'
<1>1. /\ at = "listDefined" /\ at' = "lookupByName" /\ ~disturbed
      /\ UNCHANGED <<running, work, num_active_domains, list, cnt, before>>
      /\ num_inactive_domains' = Len(ids')
  BY DEF DL!ListDefinedDomains, DL!hypervisor
<1>2. HypervisorTypes /\ Phases  BY <1>1 DEF Inv, Types
<1>3. /\ num_inactive_domains = Cardinality(DL!Defined) /\ num_active_domains = Cardinality(running)
      /\ cnt = num_active_domains /\ Filled(cnt) /\ InTime(cnt) /\ OfList(cnt) = running
  BY <1>1, <1>2 DEF Phases, Counts, ActiveDone
<1>4. /\ IsFiniteSet(DL!Defined) /\ Cardinality(DL!Defined) \in Nat /\ cnt \in Nat
      /\ Cardinality(running) + Cardinality(DL!Defined) = Cardinality(Domains)
  BY <1>2, <1>3, Domain
<1>5. PICK s \in DL!SetToSeqs(DL!Defined) :
        ids' = SubSeq(s, 1, IF Len(s) < num_inactive_domains THEN Len(s) ELSE num_inactive_domains)
  BY DEF DL!ListDefinedDomains
<1>6. s \in Seq(DL!Defined) /\ Len(s) = Cardinality(DL!Defined) /\ {s[i] : i \in 1 .. Len(s)} = DL!Defined
  BY <1>4, Listing
<1>7. ids' = s  BY <1>3, <1>4, <1>5, <1>6
<1>8. DL!Defined \subseteq Domains /\ running \union DL!Defined = Domains  BY <1>2 DEF DL!Defined, HypervisorTypes
<1>9. s \in Seq(Domains)  BY <1>6, <1>8
<1>10. OfList(cnt) \union {s[k] : k \in 1 .. Len(s)} = Domains  BY <1>3, <1>6, <1>8
<1>11. Filled(cnt)' /\ InTime(num_active_domains)' /\ OfList(cnt)' = OfList(cnt)
  BY <1>1, <1>3 DEF Filled, InTime, OfList
<1>12. num_active_domains <= cnt /\ cnt + Len(s) = Cardinality(Domains)  BY <1>3, <1>4, <1>6
<1>13. ListedDefined'  BY <1>1, <1>3, <1>7, <1>9, <1>10, <1>11, <1>12 DEF ListedDefined
<1>14. num_inactive_domains' = Cardinality(DL!Defined) /\ DL!Defined' = DL!Defined
  BY <1>1, <1>6, <1>7 DEF DL!Defined
<1>. QED  BY <1>1, <1>13, <1>14 DEF Phases, Listed, Counts, ActiveDone, Usable

LEMMA LookUpByNamePhases ==
  ASSUME IsFiniteSet(Domains), Inv, ~disturbed', DL!LookUpByName
  PROVE  Phases'
<1>. DEFINE d == Head(ids)
<1>1. /\ at = "lookupByName" /\ at' = at /\ ids # <<>> /\ ~disturbed
      /\ list' = [list EXCEPT ![cnt + 1] = [domain |-> d, cpu_time |-> work[d]]]
      /\ cnt' = cnt + 1 /\ ids' = Tail(ids)
      /\ UNCHANGED <<running, work, num_active_domains, num_inactive_domains, before>>
  BY DEF DL!LookUpByName, DL!hypervisor, DL!node
<1>2. HypervisorTypes /\ Phases  BY <1>1 DEF Inv, Types
<1>3. /\ ids \in Seq(Domains)
      /\ num_active_domains = Cardinality(running) /\ num_active_domains <= cnt
      /\ Filled(cnt) /\ InTime(num_active_domains) /\ cnt + Len(ids) = Cardinality(Domains)
      /\ OfList(cnt) \union {ids[k] : k \in 1 .. Len(ids)} = Domains
  BY <1>1, <1>2 DEF Phases, ListedDefined
<1>4. /\ Tail(ids) \in Seq(Domains) /\ Len(Tail(ids)) = Len(ids) - 1 /\ Len(ids) \in Nat \ {0}
      /\ d = ids[1] /\ ids[1] \in Domains
      /\ \A k \in 1 .. Len(ids) - 1 : Tail(ids)[k] = ids[k + 1]
      /\ \A k \in 1 .. Len(ids) : k = 1 \/ ids[k] = Tail(ids)[k - 1]
  BY <1>1, <1>3, Rest
<1>5. d \in Domains /\ work[d] \in Nat  BY <1>2, <1>4 DEF HypervisorTypes
<1>6. /\ cnt \in Nat /\ cnt < 2 * Cardinality(Domains) /\ Cardinality(Domains) \in Nat
      /\ num_active_domains \in Nat
  BY <1>2, <1>3, <1>4, Domain DEF Filled
<1>. HIDE DEF d
<1>7. /\ Filled(cnt)' /\ OfList(cnt)' = OfList(cnt) \union {d}
      /\ \A i \in 1 .. cnt : list'[i] = list[i]
  BY <1>1, <1>2, <1>3, <1>5, <1>6, Entering
<1>8. InTime(num_active_domains)'
  <2>1. \A i \in 1 .. num_active_domains : list'[i] = list[i]  BY <1>3, <1>6, <1>7
  <2>. QED  BY <1>1, <1>3, <2>1 DEF InTime
<1>9. {ids[k] : k \in 1 .. Len(ids)} \subseteq {d} \union {Tail(ids)[k] : k \in 1 .. Len(Tail(ids))}
  <2>1. ASSUME NEW k \in 1 .. Len(ids), k # 1
        PROVE  ids[k] \in {Tail(ids)[j] : j \in 1 .. Len(Tail(ids))}
    <3>1. ids[k] = Tail(ids)[k - 1] /\ k - 1 \in 1 .. Len(Tail(ids))  BY <1>4, <2>1
    <3>. QED  BY <3>1
  <2>. QED  BY <1>4, <2>1
<1>10. {Tail(ids)[k] : k \in 1 .. Len(Tail(ids))} \subseteq Domains  BY <1>4
<1>11. OfList(cnt)' \union {Tail(ids)[k] : k \in 1 .. Len(Tail(ids))} = Domains
  BY <1>3, <1>5, <1>7, <1>9, <1>10
<1>12. cnt' + Len(ids') = Cardinality(Domains) /\ num_active_domains <= cnt'  BY <1>1, <1>3, <1>4, <1>6
<1>13. ListedDefined'  BY <1>1, <1>3, <1>4, <1>7, <1>8, <1>11, <1>12 DEF ListedDefined
<1>. QED  BY <1>1, <1>2, <1>13 DEF Phases, Listed, Counts, ActiveDone, Usable, DL!Defined

(* The end of the collection leaves the list whole.                        *)
LEMMA EndPhases ==
  ASSUME IsFiniteSet(Domains), Inv, ~disturbed', DL!EndOfCollection
  PROVE  Phases' /\ Whole'
<1>1. /\ at = "lookupByName" /\ at' = "idle" /\ ids = <<>> /\ ~disturbed
      /\ total_domains' = num_active_domains + num_inactive_domains
      /\ UNCHANGED <<running, work, num_active_domains, num_inactive_domains, list, before>>
  BY DEF DL!EndOfCollection, DL!Return, DL!hypervisor
<1>2. HypervisorTypes /\ Phases  BY <1>1 DEF Inv, Types
<1>3. /\ num_active_domains = Cardinality(running) /\ num_active_domains <= cnt
      /\ Filled(cnt) /\ InTime(num_active_domains) /\ cnt + Len(ids) = Cardinality(Domains)
      /\ OfList(cnt) \union {ids[k] : k \in 1 .. Len(ids)} = Domains
      /\ num_inactive_domains = Cardinality(DL!Defined)
  BY <1>1, <1>2 DEF Phases, ListedDefined, Counts
<1>4. Len(ids) = 0  BY <1>1
<1>5. cnt = Cardinality(Domains) /\ OfList(cnt) = Domains
  <2>1. {ids[k] : k \in 1 .. Len(ids)} = {}
    <3>1. \A k \in 1 .. Len(ids) : FALSE  BY <1>4
    <3>. QED  BY <3>1
  <2>2. cnt \in Nat  BY <1>3 DEF Filled
  <2>3. cnt = Cardinality(Domains)  BY <1>3, <1>4, <2>2
  <2>4. OfList(cnt) \union {} = Domains  BY <1>3, <2>1
  <2>. QED  BY <2>3, <2>4
<1>6. total_domains' = Cardinality(Domains)  BY <1>1, <1>2, <1>3, Domain
<1>7. num_active_domains \in 0 .. Cardinality(Domains)  BY <1>2, <1>3, <1>5, Domain
<1>8. Whole'  BY <1>1, <1>3, <1>5, <1>6, <1>7 DEF Whole, Filled, InTime, OfList
<1>. QED  BY <1>1, <1>8 DEF Phases, Listed, ListedDefined, Counts, ActiveDone, Usable

-----------------------------------------------------------------------------
LEMMA InvStart ==
  ASSUME IsFiniteSet(Domains), Keep \in Nat
  PROVE  DL!Init => Inv
<1>. SUFFICES ASSUME DL!Init PROVE Inv  OBVIOUS
<1>1. Types
  <2>1. /\ running = {} /\ starts = [d \in Domains |-> 0] /\ work = [d \in Domains |-> 0] /\ before = work
        /\ now = 0 /\ disturbed = FALSE /\ DOMAIN list = 1 .. 2 * Cardinality(Domains)
    BY SameCardinality DEF DL!Init
  <2>2. /\ starts \in [Domains -> Nat] /\ work \in [Domains -> Nat] /\ before \in [Domains -> Nat]
        /\ \A d \in Domains : before[d] <= work[d]
    BY <2>1
  <2>3. HypervisorTypes  BY <2>1, <2>2 DEF HypervisorTypes
  <2>. QED  BY <2>3 DEF DL!Init, Types, Steps
<1>2. ~(now - last_time_sampled < Keep)  BY DEF DL!Init
<1>3. Phases  BY <1>2 DEF DL!Init, Phases, Listed, ListedDefined, Counts, ActiveDone, Usable
<1>. QED  BY <1>1, <1>3 DEF Inv

LEMMA InvStep ==
  ASSUME IsFiniteSet(Domains), Keep \in Nat
  PROVE  Inv /\ [DL!Next]_DL!vars => Inv'
<1>. SUFFICES ASSUME Inv, [DL!Next]_DL!vars PROVE Inv'  OBVIOUS
<1>1. Types'  BY TypesKept DEF Inv
<1>2. ASSUME ~disturbed' PROVE Phases'
  <2>1. CASE DL!StartOrStop \/ DL!Work \/ DL!Tick  BY <1>2, <2>1, HypervisorPhases
  <2>2. CASE DL!collectDomainStats
    BY <1>2, <2>2, StartPhases, ListPhases, NoPhases, LookUpPhases, InfoPhases, EndOfActivePhases,
       ListDefinedPhases, LookUpByNamePhases, EndPhases DEF DL!collectDomainStats
  <2>3. CASE UNCHANGED DL!vars
    <3>1. UNCHANGED <<running, starts, work, now, at, num_active_domains, num_inactive_domains, total_domains,
                      list, last_time_sampled, ids, cnt, before, disturbed>>
      BY <2>3 DEF DL!vars
    <3>2. Phases  BY <1>2, <3>1 DEF Inv
    <3>3. /\ DL!Defined' = DL!Defined
          /\ \A n : Filled(n)' = Filled(n) /\ InTime(n)' = InTime(n) /\ OfList(n)' = OfList(n)
      BY <3>1, ListUnchanged
    <3>. QED  BY <3>1, <3>2, <3>3 DEF Phases, Listed, ListedDefined, Counts, ActiveDone, Usable, Whole
  <2>. QED  BY <2>1, <2>2, <2>3 DEF DL!Next
<1>. QED  BY <1>1, <1>2 DEF Inv

(* What a sampler delivers of a list that is whole.                        *)
LEMMA WholeIsDelivered ==
  ASSUME NEW n \in Nat, NEW a \in 0 .. n, n = Cardinality(Domains),
         Filled(n), InTime(a), OfList(n) = Domains, NEW g, g = DL!Delivered(a, n)
  PROVE  /\ Len(g) = Cardinality(Domains)
         /\ {g[i].domain : i \in DOMAIN g} = Domains
         /\ \A i \in DOMAIN g :
              g[i].cpu_time \in IF i <= a THEN before[g[i].domain] .. work[g[i].domain] ELSE {0}
<1>1. g = [i \in 1 .. n |-> IF i <= a THEN list[i] ELSE [list[i] EXCEPT !.cpu_time = 0]]
  BY DEF DL!Delivered
<1>2. \A i \in 1 .. n : list[i] \in Entry  BY DEF Filled
<1>3. Len(g) = n /\ DOMAIN g = 1 .. n  BY <1>1
<1>4. \A i \in 1 .. n : /\ g[i].domain = list[i].domain
                        /\ i <= a => g[i] = list[i]
                        /\ ~(i <= a) => g[i].cpu_time = 0
  BY <1>1, <1>2 DEF Entry
<1>5. {g[i].domain : i \in DOMAIN g} = Domains  BY <1>3, <1>4 DEF OfList
<1>6. ASSUME NEW i \in DOMAIN g
      PROVE  g[i].cpu_time \in IF i <= a THEN before[g[i].domain] .. work[g[i].domain] ELSE {0}
  <2>1. CASE i <= a
    <3>1. i \in 1 .. a  BY <1>3, <2>1
    <3>. QED  BY <1>3, <1>4, <2>1, <3>1 DEF InTime
  <2>2. CASE ~(i <= a)  BY <1>3, <1>4, <2>2
  <2>. QED  BY <2>1, <2>2
<1>. QED  BY <1>3, <1>5, <1>6

(* What a sampler delivers, from a collection of its own or from the list  *)
(* of an older one, has every domain once (metricVirt.c), however many     *)
(* domains there are and however long the list is kept, unless a call      *)
(* failed or domains came or went while the list was filled.               *)
THEOREM EveryDomainIsDelivered ==
  ASSUME IsFiniteSet(Domains), Keep \in Nat
  PROVE  DL!Spec => ListIsWhole
<1>1. DL!Init => Inv  BY InvStart
<1>2. Inv /\ [DL!Next]_DL!vars => Inv'  BY InvStep
<1>3. Inv /\ [DL!Next]_DL!vars =>
        [given' # given /\ ~disturbed' =>
           /\ Len(given') = DL!Cardinality(Domains)
           /\ {given'[i].domain : i \in DOMAIN given'} = Domains
           /\ \A i \in DOMAIN given' :
                given'[i].cpu_time \in
                  IF i <= num_active_domains' THEN before[given'[i].domain] .. work[given'[i].domain] ELSE {0}]_DL!vars
  <2>. SUFFICES ASSUME Inv, [DL!Next]_DL!vars, given' # given, ~disturbed'
                PROVE  /\ Len(given') = Cardinality(Domains)
                       /\ {given'[i].domain : i \in DOMAIN given'} = Domains
                       /\ \A i \in DOMAIN given' :
                            given'[i].cpu_time \in
                              IF i <= num_active_domains' THEN before[given'[i].domain] .. work[given'[i].domain]
                                                          ELSE {0}
    BY SameCardinality
  <2>1. DL!UseList \/ DL!NoDomains \/ DL!EndOfCollection
    BY StartedOrStopped
       DEF DL!Next, DL!Work, DL!Tick, DL!collectDomainStats, DL!BeginCollection, DL!NumOfDomains,
           DL!NumOfDefinedDomains, DL!CallFails, DL!ListDomains, DL!LookUpByID, DL!GetInfo, DL!EndOfActive,
           DL!ListDefinedDomains, DL!LookUpByName, DL!vars
  <2>2. CASE DL!UseList
    <3>1. /\ at = "idle" /\ now - last_time_sampled < Keep /\ ~disturbed
          /\ given' = DL!Delivered(num_active_domains, total_domains)
          /\ num_active_domains' = num_active_domains
      BY <2>2 DEF DL!UseList, DL!node
    <3>2. HypervisorTypes /\ Whole  BY <3>1 DEF Inv, Types, Phases, Usable
    <3>3. total_domains \in Nat  BY <3>2, FS_CardinalityType DEF Whole
    <3>4. UNCHANGED <<before, work>>  BY <2>2 DEF DL!UseList, DL!hypervisor
    <3>. QED  BY <3>1, <3>2, <3>3, <3>4, WholeIsDelivered DEF Whole
  <2>3. CASE DL!NoDomains
    <3>1. given' = <<>> /\ Domains = {}  BY <2>3, NoPhases DEF DL!NoDomains
    <3>2. Cardinality(Domains) = 0  BY <3>1, FS_EmptySet
    <3>. QED  BY <3>1, <3>2
  <2>4. CASE DL!EndOfCollection
    <3>1. Whole'  BY <2>4, EndPhases
    <3>2. /\ given' = DL!Delivered(num_active_domains, total_domains')
          /\ UNCHANGED <<running, num_active_domains, list, before, work>>
      BY <2>4 DEF DL!EndOfCollection, DL!hypervisor
    <3>3. /\ total_domains' = Cardinality(Domains) /\ total_domains' \in Nat
          /\ num_active_domains \in 0 .. total_domains'
      BY <3>1, <3>2, FS_CardinalityType DEF Whole
    <3>4. Filled(total_domains') /\ InTime(num_active_domains) /\ OfList(total_domains') = Domains
      BY <3>1, <3>2 DEF Whole, Filled, InTime, OfList
    <3>. QED  BY <3>2, <3>3, <3>4, WholeIsDelivered
  <2>. QED  BY <2>1, <2>2, <2>3, <2>4
<1>. QED  BY <1>1, <1>2, <1>3, PTL DEF DL!Spec, DL!ListIsWhole, ListIsWhole

-----------------------------------------------------------------------------
(* The files: their inductive invariant.                                   *)

Data == [hs_timestamp : Int, files : Seq(Nat)]

DiskSteps      == {"count", "attributes"}
PartitionSteps == {"request", "timestamp", "systeminfo"}

SnapshotTypes ==
  /\ source \in {"sysfs", "hypfs"}
  /\ update \in Nat \ {0} /\ stamp \in Nat /\ now \in Nat /\ stamp <= now
  /\ step \in {"idle"} \union (IF source = "sysfs" THEN DiskSteps ELSE PartitionSteps)
  /\ first \in Nat /\ loops \in Nat /\ changes \in Nat
  /\ seen \in Seq(Nat) /\ (step \in {"idle", "request", "timestamp"} => seen = <<>>)
  /\ systemdata \in Data /\ systemdata_old \in Data

(* The data kept, and its times: the files have not changed since first if *)
(* their time is still first, for an update takes a later second.          *)
FromUpdate(files, u) == \A i \in 1..Len(files) : files[i] \in {u, SN!Unreadable}

Partitions ==
  /\ \E u \in Nat : FromUpdate(systemdata.files, u)
  /\ \E u \in Nat : FromUpdate(systemdata_old.files, u)
  /\ systemdata.hs_timestamp <= stamp /\ systemdata_old.hs_timestamp <= stamp
  /\ systemdata # SN!NoData => systemdata_old.hs_timestamp < systemdata.hs_timestamp
  /\ step \in PartitionSteps => systemdata = SN!NoData
  /\ step = "timestamp" => systemdata_old.hs_timestamp < stamp
  /\ step = "systeminfo" =>
       /\ systemdata_old.hs_timestamp < first /\ first <= stamp
       /\ stamp = first => FromUpdate(seen, update)

(* What the disk's sampler has read of this loop, in the order of the      *)
(* updates, and the updates the loops have seen: the second loop was made  *)
(* because the files had changed in the first.                             *)
Disk ==
  /\ step = "idle" => loops = 0
  /\ step = "count" /\ loops > 0 => changes >= 1
  /\ step = "attributes" =>
       /\ first >= 1 /\ first <= update
       /\ \A i \in 1..Len(seen) : seen[i] = SN!Unreadable \/ (first <= seen[i] /\ seen[i] <= update)
       /\ \A i, j \in 1..Len(seen) :
            i < j /\ seen[i] # SN!Unreadable /\ seen[j] # SN!Unreadable => seen[i] <= seen[j]
       /\ changes >= (update - first) + (IF loops > 0 THEN 1 ELSE 0)

SnapshotInv == SnapshotTypes /\ Partitions /\ Disk

-----------------------------------------------------------------------------
(* What is read.                                                           *)

LEMMA OneUpdate ==
  ASSUME NEW files \in Seq(Nat), NEW u, FromUpdate(files, u)
  PROVE  SN!OfOneMoment(files)
<1>. DEFINE S == SN!ToSet(files) \ {SN!Unreadable}
<1>1. S \subseteq {u}  BY DEF FromUpdate, SN!ToSet
<1>. HIDE DEF S
<1>2. S = {} \/ S = {u}  BY <1>1
<1>3. Cardinality({}) = 0 /\ Cardinality({u}) = 1  BY FS_EmptySet, FS_Singleton
<1>4. Cardinality(S) <= 1
  <2>1. CASE S = {}   BY <2>1, <1>3
  <2>2. CASE S = {u}
    <3>1. Cardinality(S) = 1  BY <2>2, <1>3, Zenon
    <3>. QED  BY <3>1
  <2>. QED  BY <1>2, <2>1, <2>2
<1>5. Cardinality(S) = SN!Cardinality(S)  BY DEF Cardinality, SN!Cardinality
<1>6. S = SN!ToSet(files) \ {SN!Unreadable}  BY DEF S
<1>. QED  BY <1>4, <1>5, <1>6 DEF SN!OfOneMoment

LEMMA ReadOn ==
  ASSUME NEW files \in Seq(Nat), NEW v \in Nat
  PROVE  /\ Append(files, v) \in Seq(Nat) /\ Len(Append(files, v)) = Len(files) + 1
         /\ Len(files) \in Nat /\ Append(files, v)[Len(files) + 1] = v
         /\ \A i \in 1..Len(files) : Append(files, v)[i] = files[i]
OBVIOUS

LEMMA NoDataKept == SN!NoData \in Data /\ SN!NoData.hs_timestamp = -1 /\ SN!NoData.files = <<>>
                     /\ FromUpdate(<<>>, 0)
BY DEF SN!NoData, Data, FromUpdate

-----------------------------------------------------------------------------
(* The steps.                                                              *)

LEMMA SnapshotTypesKept == SnapshotTypes /\ [SN!Next]_SN!vars => SnapshotTypes'
<1>. SUFFICES ASSUME SnapshotTypes, [SN!Next]_SN!vars PROVE SnapshotTypes'  OBVIOUS
<1>. USE DEF SnapshotTypes, DiskSteps, PartitionSteps
<1>0. <<>> \in Seq(Nat)  OBVIOUS
<1>1. CASE SN!Tick    BY <1>1 DEF SN!Tick, SN!kept
<1>2. CASE SN!Update  BY <1>2 DEF SN!Update, SN!kept
<1>3. CASE SN!OpenDevice  BY <1>3 DEF SN!OpenDevice, SN!kept
<1>4. CASE SN!ReadSampleCount
  <2>1. /\ step = "count" /\ step' \in {"idle", "attributes"} /\ first' \in {update, 0} /\ seen' = <<>>
        /\ loops' \in {loops, 0} /\ changes' \in {changes, 0}
        /\ UNCHANGED <<source, update, stamp, now, systemdata, systemdata_old>>
    BY <1>4 DEF SN!ReadSampleCount, SN!Return, SN!kept
  <2>. QED  BY <1>0, <2>1
<1>5. CASE SN!ReadAttribute
  <2>1. PICK v \in {update, SN!Unreadable} : seen' = Append(seen, v)  BY <1>5 DEF SN!ReadAttribute
  <2>2. v \in Nat  BY DEF SN!Unreadable
  <2>3. seen' \in Seq(Nat)  BY <2>1, <2>2, ReadOn
  <2>. QED  BY <1>5, <2>3 DEF SN!ReadAttribute, SN!kept
<1>6. CASE SN!ReadAgain   BY <1>6 DEF SN!ReadAgain, SN!kept
<1>7. CASE SN!SendMetric  BY <1>7 DEF SN!SendMetric, SN!Return, SN!kept
<1>8. CASE SN!refreshSystemData  BY <1>8, NoDataKept DEF SN!refreshSystemData
<1>9. CASE SN!hv_request_update  
  <2>1. /\ step = "request" /\ step' \in {"idle", "timestamp"}
        /\ \/ update' = update + 1 /\ stamp' = now /\ UNCHANGED <<first, loops, seen, changes>>
           \/ UNCHANGED <<update, stamp>> /\ first' = 0 /\ loops' = 0 /\ seen' = <<>> /\ changes' = 0
        /\ UNCHANGED <<source, now, systemdata, systemdata_old>>
    BY <1>9 DEF SN!hv_request_update, SN!Return, SN!kept
  <2>2. source = "hypfs" /\ seen = <<>>  BY <2>1
  <2>3. step' \in {"idle"} \union (IF source' = "sysfs" THEN DiskSteps ELSE PartitionSteps) /\ seen' = <<>>
    BY <2>1, <2>2
  <2>4. /\ update' \in Nat \ {0} /\ stamp' \in Nat /\ now' \in Nat /\ stamp' <= now'
        /\ first' \in Nat /\ loops' \in Nat /\ changes' \in Nat
    BY <2>1
  <2>. QED  BY <1>0, <2>1, <2>2, <2>3, <2>4
<1>10. CASE SN!GetTimestamp
  <2>1. /\ step = "timestamp" /\ step' \in {"idle", "systeminfo"}
        /\ \/ first' = stamp /\ UNCHANGED <<loops, seen, changes>>
           \/ first' = 0 /\ loops' = 0 /\ seen' = <<>> /\ changes' = 0
        /\ UNCHANGED <<source, update, stamp, now, systemdata, systemdata_old>>
    BY <1>10 DEF SN!GetTimestamp, SN!Return, SN!kept
  <2>2. source = "hypfs" /\ seen = <<>>  BY <2>1
  <2>3. step' \in {"idle"} \union (IF source' = "sysfs" THEN DiskSteps ELSE PartitionSteps) /\ seen' = <<>>
    BY <2>1, <2>2
  <2>4. first' \in Nat /\ loops' \in Nat /\ changes' \in Nat
    BY <2>1
  <2>. QED  BY <1>0, <2>1, <2>2, <2>3, <2>4
<1>11. CASE SN!hv_get_ull
  <2>1. PICK v \in {update, SN!Unreadable} : seen' = Append(seen, v)  BY <1>11 DEF SN!hv_get_ull
  <2>2. v \in Nat  BY DEF SN!Unreadable
  <2>3. seen' \in Seq(Nat)  BY <2>1, <2>2, ReadOn
  <2>. QED  BY <1>11, <2>3 DEF SN!hv_get_ull, SN!kept
<1>12. CASE SN!CompareTimestamp
  <2>1. [hs_timestamp |-> stamp, files |-> seen] \in Data  BY DEF Data
  <2>2. /\ step = "systeminfo" /\ step' \in {"idle", "systeminfo"}
        /\ systemdata' \in {systemdata, [hs_timestamp |-> stamp, files |-> seen]}
        /\ first' \in {first, 0} /\ loops' \in {loops + 1, 0} /\ seen' = <<>> /\ changes' \in {changes, 0}
        /\ UNCHANGED <<source, update, stamp, now, systemdata_old>>
    BY <1>12 DEF SN!CompareTimestamp, SN!Return
  <2>. QED  BY <1>0, <2>1, <2>2
<1>13. CASE SN!StopMetrics  BY <1>13, NoDataKept DEF SN!StopMetrics
<1>14. CASE UNCHANGED SN!vars  BY <1>14 DEF SN!vars
<1>. QED  BY <1>1, <1>2, <1>3, <1>4, <1>5, <1>6, <1>7, <1>8, <1>9, <1>10, <1>11, <1>12, <1>13, <1>14
          DEF SN!Next, SN!readSysFs, SN!get_hypervisor_info

LEMMA PartitionsKept == SnapshotTypes /\ Partitions /\ [SN!Next]_SN!vars => Partitions'
<1>. SUFFICES ASSUME SnapshotTypes, Partitions, [SN!Next]_SN!vars PROVE Partitions'  OBVIOUS
<1>0. /\ systemdata.hs_timestamp \in Int /\ systemdata_old.hs_timestamp \in Int
      /\ update \in Nat /\ stamp \in Nat /\ now \in Nat /\ stamp <= now /\ first \in Nat /\ seen \in Seq(Nat)
  BY DEF SnapshotTypes, Data
<1>1. CASE SN!Tick  BY <1>1 DEF SN!Tick, SN!kept, Partitions, FromUpdate
<1>2. CASE SN!Update
  <2>1. UNCHANGED <<source, step, first, seen, systemdata, systemdata_old>> /\ stamp' = now
    BY <1>2 DEF SN!Update, SN!kept
  <2>2. step \in PartitionSteps => stamp < stamp'
    BY <1>2, <2>1 DEF SN!Update, SnapshotTypes, DiskSteps, PartitionSteps
  <2>3. \E u \in Nat : FromUpdate(systemdata.files, u)'  BY <2>1 DEF Partitions, FromUpdate
  <2>4. \E u \in Nat : FromUpdate(systemdata_old.files, u)'  BY <2>1 DEF Partitions, FromUpdate
  <2>. QED  BY <1>0, <2>1, <2>2, <2>3, <2>4 DEF Partitions, PartitionSteps
<1>3. CASE SN!OpenDevice \/ SN!ReadSampleCount \/ SN!ReadAttribute \/ SN!ReadAgain \/ SN!SendMetric
  <2>1. /\ UNCHANGED <<stamp, systemdata, systemdata_old>>
        /\ step' \notin PartitionSteps
    BY <1>3 DEF SN!OpenDevice, SN!ReadSampleCount, SN!ReadAttribute, SN!ReadAgain, SN!SendMetric,
                SN!Return, SN!kept, PartitionSteps
  <2>. QED  BY <2>1 DEF Partitions, FromUpdate, PartitionSteps
<1>4. CASE SN!refreshSystemData
  <2>1. /\ stamp' = stamp /\ step' = "request" /\ systemdata' = SN!NoData
        /\ systemdata_old' = systemdata_old \/ systemdata_old' = systemdata
    BY <1>4 DEF SN!refreshSystemData
  <2>2. \E u \in Nat : FromUpdate(systemdata_old'.files, u)
    BY <2>1 DEF Partitions
  <2>3. \E u \in Nat : FromUpdate(systemdata'.files, u)  BY <2>1, NoDataKept
  <2>4. systemdata'.hs_timestamp <= stamp'  BY <2>1, <1>0, NoDataKept
  <2>5. systemdata_old'.hs_timestamp <= stamp'  BY <2>1 DEF Partitions
  <2>. QED  BY <2>1, <2>2, <2>3, <2>4, <2>5 DEF Partitions, FromUpdate
<1>5. CASE SN!hv_request_update
  <2>1. /\ UNCHANGED <<systemdata, systemdata_old>> /\ step = "request"
        /\ \/ stamp < now /\ stamp' = now /\ step' = "timestamp"
           \/ stamp' = stamp /\ step' = "idle"
    BY <1>5 DEF SN!hv_request_update, SN!Return, SN!kept
  <2>2. systemdata = SN!NoData  BY <2>1 DEF Partitions, PartitionSteps
  <2>3. (\E u \in Nat : FromUpdate(systemdata.files, u))' /\ (\E u \in Nat : FromUpdate(systemdata_old.files, u))'
    BY <2>1 DEF Partitions, FromUpdate
  <2>4. /\ systemdata'.hs_timestamp <= stamp' /\ systemdata_old'.hs_timestamp <= stamp'
        /\ step' = "timestamp" => systemdata_old'.hs_timestamp < stamp'
    BY <1>0, <2>1 DEF Partitions
  <2>5. systemdata' = SN!NoData /\ step' # "systeminfo"  BY <2>1, <2>2
  <2>. QED  BY <2>3, <2>4, <2>5 DEF Partitions
<1>6. CASE SN!GetTimestamp
  <2>1. /\ UNCHANGED <<systemdata, systemdata_old, stamp, update>> /\ step = "timestamp"
        /\ \/ step' = "systeminfo" /\ first' = stamp /\ seen' = seen
           \/ step' = "idle"
    BY <1>6 DEF SN!GetTimestamp, SN!Return, SN!kept
  <2>2. systemdata = SN!NoData /\ systemdata_old.hs_timestamp < stamp  BY <2>1 DEF Partitions, PartitionSteps
  <2>3. (\E u \in Nat : FromUpdate(systemdata.files, u))' /\ (\E u \in Nat : FromUpdate(systemdata_old.files, u))'
    BY <2>1 DEF Partitions, FromUpdate
  <2>4. systemdata'.hs_timestamp <= stamp' /\ systemdata_old'.hs_timestamp <= stamp'
    BY <2>1 DEF Partitions
  <2>5. systemdata' = SN!NoData /\ step' # "timestamp"  BY <2>1, <2>2
  <2>6. seen = <<>>  BY <2>1 DEF SnapshotTypes
  <2>7. step' = "systeminfo" => /\ systemdata_old'.hs_timestamp < first' /\ first' <= stamp'
                               /\ FromUpdate(seen', update')
    BY <1>0, <2>1, <2>2, <2>6 DEF FromUpdate
  <2>. QED  BY <2>3, <2>4, <2>5, <2>7 DEF Partitions
<1>7. CASE SN!hv_get_ull
  <2>1. /\ UNCHANGED <<systemdata, systemdata_old, stamp, update, step, first>> /\ step = "systeminfo"
        /\ \E v \in {update, SN!Unreadable} : seen' = Append(seen, v)
    BY <1>7 DEF SN!hv_get_ull, SN!kept
  <2>2. PICK v \in {update, SN!Unreadable} : seen' = Append(seen, v)  BY <2>1
  <2>3. v \in Nat  BY <1>0 DEF SN!Unreadable
  <2>4. FromUpdate(seen, update) => FromUpdate(seen', update)
    <3>1. \A i \in 1..Len(seen') : i = Len(seen) + 1 \/ i \in 1..Len(seen)  BY <1>0, <2>2, <2>3, ReadOn
    <3>. QED  BY <3>1, <1>0, <2>2, <2>3, ReadOn DEF FromUpdate
  <2>. QED  BY <2>1, <2>4 DEF Partitions, FromUpdate, PartitionSteps
<1>8. CASE SN!CompareTimestamp
  <2>1. /\ UNCHANGED <<systemdata_old, stamp, update>> /\ step = "systeminfo"
        /\ \/ stamp = first /\ systemdata' = [hs_timestamp |-> stamp, files |-> seen] /\ step' = "idle"
           \/ systemdata' = systemdata /\ step' = "systeminfo" /\ first' = first /\ stamp # first
           \/ systemdata' = systemdata /\ step' = "idle"
    BY <1>8 DEF SN!CompareTimestamp, SN!Return
  <2>2. /\ systemdata_old.hs_timestamp < first /\ first <= stamp
        /\ stamp = first => FromUpdate(seen, update)
    BY <2>1 DEF Partitions
  <2>3. CASE stamp = first /\ systemdata' = [hs_timestamp |-> stamp, files |-> seen] /\ step' = "idle"
    <3>1. \E u \in Nat : FromUpdate(systemdata'.files, u)  BY <2>2, <2>3, <1>0
    <3>2. systemdata'.hs_timestamp = stamp  BY <2>3
    <3>3. /\ \E u \in Nat : FromUpdate(systemdata_old'.files, u)
          /\ systemdata'.hs_timestamp <= stamp' /\ systemdata_old'.hs_timestamp <= stamp'
          /\ systemdata_old'.hs_timestamp < systemdata'.hs_timestamp
      BY <1>0, <2>1, <2>2, <2>3, <3>2 DEF Partitions
    <3>4. step' = "idle"  BY <2>3
    <3>. QED  BY <3>1, <3>3, <3>4 DEF Partitions, PartitionSteps, FromUpdate
  <2>4. CASE systemdata' = systemdata /\ step' = "systeminfo" /\ first' = first /\ stamp # first
    BY <1>0, <2>1, <2>2, <2>4 DEF Partitions, PartitionSteps, FromUpdate
  <2>5. CASE systemdata' = systemdata /\ step' = "idle"
    BY <1>0, <2>1, <2>2, <2>5 DEF Partitions, PartitionSteps, FromUpdate
  <2>. QED  BY <2>1, <2>3, <2>4, <2>5
<1>9. CASE SN!StopMetrics
  <2>1. /\ UNCHANGED <<systemdata_old, stamp, step>> /\ step = "idle" /\ systemdata' = SN!NoData
    BY <1>9 DEF SN!StopMetrics
  <2>2. \E u \in Nat : FromUpdate(systemdata'.files, u)  BY <2>1, NoDataKept
  <2>3. systemdata'.hs_timestamp <= stamp'  BY <2>1, <1>0, NoDataKept
  <2>. QED  BY <2>1, <2>2, <2>3 DEF Partitions, PartitionSteps, FromUpdate
<1>10. CASE UNCHANGED SN!vars  BY <1>10 DEF SN!vars, Partitions, FromUpdate
<1>. QED  BY <1>1, <1>2, <1>3, <1>4, <1>5, <1>6, <1>7, <1>8, <1>9, <1>10
          DEF SN!Next, SN!readSysFs, SN!get_hypervisor_info

(* The count read last is the last file's.                                 *)
LEMMA LastRead ==
  ASSUME Files \in Nat \ {0}, SnapshotTypes, Len(seen) = Files
  PROVE  Files \in 1..Len(seen) /\ SN!sampleCount2 = seen[Files]
BY DEF SN!sampleCount2, SN!Last

LEMMA DiskKept == Files \in Nat \ {0} /\ SnapshotTypes /\ Disk /\ [SN!Next]_SN!vars => Disk'
<1>. SUFFICES ASSUME Files \in Nat \ {0}, SnapshotTypes, Disk, [SN!Next]_SN!vars PROVE Disk'  OBVIOUS
<1>0. update \in Nat \ {0} /\ first \in Nat /\ loops \in Nat /\ changes \in Nat /\ seen \in Seq(Nat)
  BY DEF SnapshotTypes
<1>1. ASSUME UNCHANGED <<update, step, first, loops, seen, changes>> PROVE Disk'
  BY <1>1 DEF Disk
<1>2. CASE SN!Update
  <2>1. /\ update' = update + 1 /\ changes' = changes + 1
        /\ UNCHANGED <<step, first, loops, seen>>
    BY <1>2 DEF SN!Update
  <2>2. step = "attributes" =>
          \A i \in 1..Len(seen) : seen[i] = SN!Unreadable \/ (first <= seen[i] /\ seen[i] <= update + 1)
    <3>1. ASSUME step = "attributes", NEW i \in 1..Len(seen)
          PROVE  seen[i] = SN!Unreadable \/ (first <= seen[i] /\ seen[i] <= update + 1)
      <4>1. seen[i] \in Nat  BY <1>0
      <4>2. seen[i] = SN!Unreadable \/ (first <= seen[i] /\ seen[i] <= update)  BY <3>1 DEF Disk
      <4>. QED  BY <4>1, <4>2, <1>0
    <3>. QED  BY <3>1
  <2>. QED  BY <1>0, <2>1, <2>2 DEF Disk
<1>3. CASE SN!ReadSampleCount
  <2>1. \/ /\ step = "count" /\ first' = update /\ seen' = <<>> /\ step' = "attributes"
           /\ UNCHANGED <<loops, changes, update>>
        \/ step' = "idle" /\ loops' = 0
    BY <1>3 DEF SN!ReadSampleCount, SN!Return
  <2>2. CASE /\ step = "count" /\ first' = update /\ seen' = <<>> /\ step' = "attributes"
             /\ UNCHANGED <<loops, changes, update>>
    <3>1. loops > 0 => changes >= 1  BY <2>2 DEF Disk
    <3>2. Len(seen') = 0  BY <2>2
    <3>3. changes >= (update - update) + (IF loops > 0 THEN 1 ELSE 0)  BY <1>0, <3>1
    <3>. QED  BY <1>0, <2>2, <3>2, <3>3 DEF Disk
  <2>3. CASE step' = "idle" /\ loops' = 0  BY <2>3 DEF Disk
  <2>. QED  BY <2>1, <2>2, <2>3
<1>4. CASE SN!ReadAttribute
  <2>1. /\ UNCHANGED <<update, step, first, loops, changes>> /\ step = "attributes"
        /\ \E v \in {update, SN!Unreadable} : seen' = Append(seen, v)
    BY <1>4 DEF SN!ReadAttribute
  <2>2. PICK v \in {update, SN!Unreadable} : seen' = Append(seen, v)  BY <2>1
  <2>3. v \in Nat  BY <1>0 DEF SN!Unreadable
  <2>. DEFINE n == Len(seen)
  <2>4. /\ n \in Nat /\ Len(seen') = n + 1 /\ seen'[n + 1] = v
        /\ \A i \in 1..n : seen'[i] = seen[i] /\ seen[i] \in Nat
    BY <1>0, <2>2, <2>3, ReadOn
  <2>5. /\ first >= 1 /\ first <= update
        /\ \A i \in 1..n : seen[i] = SN!Unreadable \/ (first <= seen[i] /\ seen[i] <= update)
        /\ \A i, j \in 1..n : i < j /\ seen[i] # SN!Unreadable /\ seen[j] # SN!Unreadable => seen[i] <= seen[j]
        /\ changes >= (update - first) + (IF loops > 0 THEN 1 ELSE 0)
    BY <2>1 DEF Disk
  <2>. HIDE DEF n
  <2>6. \A i \in 1..n + 1 : seen'[i] = SN!Unreadable \/ (first <= seen'[i] /\ seen'[i] <= update)
    <3>1. ASSUME NEW i \in 1..n + 1
          PROVE  seen'[i] = SN!Unreadable \/ (first <= seen'[i] /\ seen'[i] <= update)
      <4>1. CASE i \in 1..n  BY <4>1, <2>4, <2>5
      <4>2. CASE i = n + 1
        <5>1. seen'[i] = v  BY <4>2, <2>4
        <5>. QED  BY <5>1, <2>2, <2>5, <1>0
      <4>. QED  BY <4>1, <4>2, <2>4
    <3>. QED  BY <3>1
  <2>7. \A i, j \in 1..n + 1 : i < j /\ seen'[i] # SN!Unreadable /\ seen'[j] # SN!Unreadable => seen'[i] <= seen'[j]
    <3>1. ASSUME NEW i \in 1..n + 1, NEW j \in 1..n + 1, i < j, seen'[i] # SN!Unreadable, seen'[j] # SN!Unreadable
          PROVE  seen'[i] <= seen'[j]
      <4>1. i \in 1..n /\ seen'[i] = seen[i] /\ seen[i] <= update  BY <3>1, <2>4, <2>5
      <4>2. CASE j \in 1..n  BY <4>1, <4>2, <3>1, <2>4, <2>5
      <4>3. CASE j = n + 1
        <5>1. seen'[j] = update  BY <4>3, <3>1, <2>2, <2>4
        <5>. QED  BY <4>1, <5>1
      <4>. QED  BY <4>2, <4>3, <2>4
    <3>. QED  BY <3>1
  <2>. QED  BY <2>1, <2>4, <2>5, <2>6, <2>7 DEF Disk
<1>5. CASE SN!ReadAgain
  <2>1. /\ step = "attributes" /\ Len(seen) = Files /\ SN!sampleCount2 # SN!Unreadable /\ SN!sampleCount2 # first
        /\ step' = "count" /\ changes' = changes
    BY <1>5 DEF SN!ReadAgain
  <2>2. Files \in 1..Len(seen) /\ SN!sampleCount2 = seen[Files]  BY <2>1, LastRead
  <2>3. first <= seen[Files] /\ seen[Files] <= update /\ changes >= update - first
    BY <1>0, <2>1, <2>2 DEF Disk
  <2>4. changes >= 1
    <3>1. seen[Files] \in Nat /\ seen[Files] # first  BY <1>0, <2>1, <2>2
    <3>. QED  BY <3>1, <2>3, <1>0
  <2>. QED  BY <2>1, <2>4 DEF Disk
<1>6. CASE SN!OpenDevice
  <2>1. step = "idle" /\ step' = "count" /\ loops' = loops  BY <1>6 DEF SN!OpenDevice
  <2>2. loops = 0  BY <2>1 DEF Disk
  <2>. QED  BY <2>1, <2>2 DEF Disk
<1>7. CASE SN!SendMetric \/ SN!refreshSystemData \/ SN!get_hypervisor_info \/ SN!StopMetrics
  <2>1. step' \notin {"count", "attributes"} /\ (step' = "idle" => loops' = 0)
    BY <1>7 DEF Disk, SN!SendMetric, SN!refreshSystemData, SN!get_hypervisor_info, SN!hv_request_update, 
                SN!GetTimestamp,
                SN!hv_get_ull, SN!CompareTimestamp, SN!StopMetrics, SN!Return
  <2>. QED  BY <2>1 DEF Disk
<1>8. CASE SN!Tick  BY <1>1, <1>8 DEF SN!Tick
<1>9. CASE UNCHANGED SN!vars  BY <1>1, <1>9 DEF SN!vars
<1>. QED  BY <1>2, <1>3, <1>4, <1>5, <1>6, <1>7, <1>8, <1>9 DEF SN!Next, SN!readSysFs

LEMMA SnapshotInvHolds == ASSUME Files \in Nat \ {0} PROVE SN!Spec => []SnapshotInv
<1>1. SN!Init => SnapshotInv
  <2>. SUFFICES ASSUME SN!Init PROVE SnapshotInv  OBVIOUS
  <2>1. SnapshotTypes  BY NoDataKept DEF SN!Init, SnapshotTypes
  <2>2. Partitions  BY NoDataKept DEF SN!Init, Partitions, PartitionSteps
  <2>3. Disk  BY DEF SN!Init, Disk
  <2>. QED  BY <2>1, <2>2, <2>3 DEF SnapshotInv
<1>2. SnapshotInv /\ [SN!Next]_SN!vars => SnapshotInv'  BY SnapshotTypesKept, PartitionsKept, DiskKept DEF SnapshotInv
<1>. QED  BY <1>1, <1>2, PTL DEF SN!Spec

-----------------------------------------------------------------------------
(* The theorems.                                                           *)

(* The data kept of the partitions is from one update of the files, and    *)
(* the old data from an earlier one than the new, however the files are    *)
(* updated while they are read: for any number of files and updates.       *)
THEOREM PartitionsOfOneMoment ==
  ASSUME Files \in Nat \ {0}
  PROVE  SN!Spec => []SnapshotIsOfOneMoment
<1>1. SnapshotInv => SnapshotIsOfOneMoment
  <2>. SUFFICES ASSUME SnapshotInv PROVE SnapshotIsOfOneMoment  OBVIOUS
  <2>1. systemdata.files \in Seq(Nat) /\ systemdata_old.files \in Seq(Nat)  BY DEF SnapshotInv, SnapshotTypes, Data
  <2>2. SN!OfOneMoment(systemdata.files)
    <3>1. PICK u \in Nat : FromUpdate(systemdata.files, u)  BY DEF SnapshotInv, Partitions
    <3>. QED  BY <2>1, <3>1, OneUpdate
  <2>3. SN!OfOneMoment(systemdata_old.files)
    <3>1. PICK u \in Nat : FromUpdate(systemdata_old.files, u)  BY DEF SnapshotInv, Partitions
    <3>. QED  BY <2>1, <3>1, OneUpdate
  <2>. QED  BY <2>2, <2>3 DEF SnapshotInv, Partitions, SN!SnapshotIsOfOneMoment, SnapshotIsOfOneMoment
<1>. QED  BY <1>1, SnapshotInvHolds, PTL

(* What is delivered of a disk is from one update unless it was updated    *)
(* twice while it was read, although after the second loop the sampler no  *)
(* longer looks whether the count of samples has changed.                  *)
THEOREM DisksOfOneMoment ==
  ASSUME Files \in Nat \ {0}
  PROVE  SN!Spec => DiskIsOfOneMoment
<1>1. SnapshotInv /\ [SN!Next]_SN!vars => [sent' # sent /\ changes <= 1 => SN!OfOneMoment(sent')]_SN!vars
  <2>. SUFFICES ASSUME SnapshotInv, SN!Next, sent' # sent, changes <= 1 PROVE SN!OfOneMoment(sent')
    BY DEF SN!vars
  <2>1. SN!SendMetric
    BY DEF SN!Next, SN!Tick, SN!Update, SN!readSysFs, SN!OpenDevice, SN!ReadSampleCount, SN!ReadAttribute, SN!ReadAgain,
           SN!refreshSystemData, SN!get_hypervisor_info, SN!hv_request_update, SN!GetTimestamp, SN!hv_get_ull,
           SN!CompareTimestamp, SN!StopMetrics
  <2>2. /\ step = "attributes" /\ Len(seen) = Files
        /\ SN!sampleCount2 \in {SN!Unreadable, first} \/ loops + 1 >= SN!MAXTRY
        /\ sent' = IF SN!sampleCount2 = SN!Unreadable THEN <<>> ELSE seen
    BY <2>1 DEF SN!SendMetric
  <2>3. CASE SN!sampleCount2 = SN!Unreadable
    <3>1. sent' = <<>>  BY <2>2, <2>3
    <3>2. <<>> \in Seq(Nat)  OBVIOUS
    <3>. QED  BY <3>1, <3>2, NoDataKept, OneUpdate
  <2>4. CASE SN!sampleCount2 # SN!Unreadable
    <3>0. /\ update \in Nat /\ first \in Nat /\ loops \in Nat /\ changes \in Nat /\ seen \in Seq(Nat)
          /\ SnapshotTypes /\ Disk
      BY DEF SnapshotInv, SnapshotTypes
    <3>1. Files \in 1..Len(seen) /\ SN!sampleCount2 = seen[Files] /\ seen[Files] \in Nat
      BY <2>2, <3>0, LastRead
    <3>2. /\ first <= seen[Files] /\ seen[Files] <= update
          /\ changes >= (update - first) + (IF loops > 0 THEN 1 ELSE 0)
      BY <2>2, <2>4, <3>0, <3>1 DEF Disk
    <3>3. seen[Files] = first
      <4>1. CASE SN!sampleCount2 = first  BY <4>1, <3>1
      <4>2. CASE loops + 1 >= SN!MAXTRY
        <5>1. loops > 0  BY <4>2, <3>0 DEF SN!MAXTRY
        <5>. QED  BY <5>1, <3>0, <3>1, <3>2
      <4>. QED  BY <4>1, <4>2, <2>2, <2>4
    <3>4. ASSUME NEW i \in 1..Len(seen) PROVE seen[i] \in {first, SN!Unreadable}
      <4>1. seen[i] = SN!Unreadable \/ first <= seen[i]  BY <2>2, <3>0 DEF Disk
      <4>2. seen[i] # SN!Unreadable => seen[i] <= seen[Files]
        <5>1. i = Files \/ i < Files  BY <2>2
        <5>2. seen[i] \in Nat  BY <3>0
        <5>. QED  BY <5>1, <5>2, <2>2, <2>4, <3>0, <3>1 DEF Disk
      <4>3. seen[i] \in Nat  BY <3>0
      <4>. QED  BY <4>1, <4>2, <4>3, <3>0, <3>3
    <3>. QED  BY <2>2, <2>4, <3>0, <3>4, OneUpdate DEF FromUpdate
  <2>. QED  BY <2>3, <2>4
<1>. QED  BY <1>1, SnapshotInvHolds, PTL DEF SN!Spec, SN!DiskIsOfOneMoment, DiskIsOfOneMoment
================================================================================
