------------------------------- MODULE DomainList -------------------------------
(***************************************************************************)
(* How plugin/metricVirt.c fills its list of domains.  Every sampler of a  *)
(* virtual machine's metrics calls collectDomainStats, which asks the      *)
(* hypervisor for numbers, ids, names and details, one call after the      *)
(* other, while domains start and stop and calls fail; for the next ten    *)
(* seconds the samplers take what is in the list.                          *)
(***************************************************************************)
EXTENDS Integers, Sequences, FiniteSets, SequencesExt

CONSTANTS Domains,       \* virtual machines; none is undefined (bound)
          MaxWork,       \* bound: on a domain's processor time
          MaxStarts,     \* bound: on the domains' starts
          MaxTime,       \* bound: on the clock
          Keep           \* stands for the 10 seconds

VARIABLES running, starts, work, now,    \* the hypervisor
          at,                            \* where collectDomainStats is
          num_active_domains, num_inactive_domains, total_domains,   \* node_statistics
          list,                          \* domain_statistics, by index
          last_time_sampled,
          ids, cnt, dinfo,               \* locals of collectDomainStats
          given,                         \* what the last sampler delivered
          before, disturbed              \* the work when the collection began, and
                                         \* whether it failed or domains came or went

hypervisor == <<running, starts, work, now>>
node       == <<num_active_domains, num_inactive_domains, total_domains>>
vars == <<running, starts, work, now, at, num_active_domains, num_inactive_domains, total_domains,
          list, last_time_sampled, ids, cnt, dinfo, given, before, disturbed>>

Nothing   == [domain |-> "none", cpu_time |-> 0]
Defined   == Domains \ running
Collecting == at # "idle"

Init ==
  /\ running = {}
  /\ starts = [d \in Domains |-> 0]
  /\ work = [d \in Domains |-> 0]
  /\ now = 0
  /\ at = "idle"
  /\ num_active_domains = 0 /\ num_inactive_domains = 0 /\ total_domains = 0
  /\ list = [i \in 1 .. 2 * Cardinality(Domains) |-> Nothing]
  /\ last_time_sampled = -Keep
  /\ ids = <<>> /\ cnt = 0 /\ dinfo = 0
  /\ given = <<>>
  /\ before = work
  /\ disturbed = FALSE

-----------------------------------------------------------------------------
(* The hypervisor and time.                                                *)

StartOrStop ==
  \E d \in Domains :
    /\ d \notin running => MapThenSumSet(LAMBDA e : starts[e], Domains) < MaxStarts
    /\ running' = IF d \in running THEN running \ {d} ELSE running \cup {d}
    /\ starts' = [starts EXCEPT ![d] = IF d \in running THEN @ ELSE @ + 1]
    /\ disturbed' = (disturbed \/ Collecting)
    /\ UNCHANGED <<work, now, at, node, list, last_time_sampled, ids, cnt, dinfo, given, before>>

Work ==
  \E d \in running :
    /\ work[d] < MaxWork
    /\ work' = [work EXCEPT ![d] = @ + 1]
    /\ UNCHANGED <<running, starts, now, at, node, list, last_time_sampled, ids, cnt, dinfo, given, before, disturbed>>

Tick ==
  /\ now < MaxTime
  /\ now' = now + 1
  /\ UNCHANGED <<running, starts, work, at, node, list, last_time_sampled, ids, cnt, dinfo, given, before, disturbed>>

-----------------------------------------------------------------------------
(* A sampler.                                                              *)

\* For every domain of the list its name and, if it is active, its time.
Delivered(active, total) ==
  [i \in 1 .. total |-> IF i <= active THEN list[i] ELSE [list[i] EXCEPT !.cpu_time = 0]]

\* collectDomainStats returns; its locals go.
Return ==
  /\ at' = "idle"
  /\ ids' = <<>> /\ cnt' = 0 /\ dinfo' = 0

\* connectHypervisor and the time of the last collection.
UseList ==
  /\ at = "idle"
  /\ now - last_time_sampled < Keep
  /\ given' = Delivered(num_active_domains, total_domains)
  /\ UNCHANGED <<hypervisor, at, node, list, last_time_sampled, ids, cnt, dinfo, before, disturbed>>

BeginCollection ==
  /\ at = "idle"
  /\ now - last_time_sampled >= Keep
  /\ num_active_domains' = 0 /\ num_inactive_domains' = 0 /\ total_domains' = 0
  /\ last_time_sampled' = now
  /\ at' = "active"
  /\ before' = work
  /\ disturbed' = FALSE
  /\ UNCHANGED <<hypervisor, list, ids, cnt, dinfo, given>>

\* collectNodeStats.
NumOfDomains ==
  /\ at = "active"
  /\ num_active_domains' = Cardinality(running)
  /\ at' = "inactive"
  /\ UNCHANGED <<hypervisor, num_inactive_domains, total_domains, list, last_time_sampled, ids, cnt, dinfo,
                 given, before, disturbed>>

NumOfDefinedDomains ==
  /\ at = "inactive"
  /\ num_inactive_domains' = Cardinality(Defined)
  /\ total_domains' = num_active_domains + num_inactive_domains'
  /\ at' = "info"
  /\ UNCHANGED <<hypervisor, num_active_domains, list, last_time_sampled, ids, cnt, dinfo, given, before, disturbed>>

\* A call that fails leaves the numbers there are: virConnectNumOfDomains,
\* virConnectNumOfDefinedDomains, virNodeGetInfo or one of the lists.
CallFails ==
  /\ at \in {"active", "inactive", "info", "listDefined"}
  /\ disturbed' = TRUE
  /\ Return
  /\ UNCHANGED <<hypervisor, node, list, last_time_sampled, given, before>>

\* virNodeGetInfo, and virConnectListDomains with room for so many ids.
ListDomains ==
  /\ at = "info"
  /\ total_domains > 0
  /\ \E s \in SetToSeqs(running) :
       ids' = [i \in 1 .. (IF Len(s) < num_active_domains THEN Len(s) ELSE num_active_domains) |->
                 [domain |-> s[i], start |-> starts[s[i]]]]
  /\ num_active_domains' = Len(ids')
  /\ cnt' = 0
  /\ at' = "lookup"
  /\ UNCHANGED <<hypervisor, num_inactive_domains, total_domains, list, last_time_sampled, dinfo,
                 given, before, disturbed>>

NoDomains ==
  /\ at = "info"
  /\ total_domains = 0
  /\ given' = <<>>
  /\ Return
  /\ UNCHANGED <<hypervisor, node, list, last_time_sampled, before, disturbed>>

StillThere == Head(ids).domain \in running /\ starts[Head(ids).domain] = Head(ids).start

\* virDomainLookupByID: a domain that has gone is passed over.
LookUpByID ==
  /\ at = "lookup"
  /\ ids # <<>>
  /\ IF StillThere THEN at' = "getInfo" /\ UNCHANGED ids ELSE ids' = Tail(ids) /\ UNCHANGED at
  /\ UNCHANGED <<hypervisor, node, list, last_time_sampled, cnt, dinfo, given, before, disturbed>>

\* virDomainGetInfo: of a domain that has gone meanwhile, what the one before
\* it left.
GetInfo ==
  /\ at = "getInfo"
  /\ dinfo' = IF StillThere THEN work[Head(ids).domain] ELSE dinfo
  /\ list' = [list EXCEPT ![cnt + 1] = [domain |-> Head(ids).domain, cpu_time |-> dinfo']]
  /\ cnt' = cnt + 1
  /\ ids' = Tail(ids)
  /\ at' = "lookup"
  /\ UNCHANGED <<hypervisor, node, last_time_sampled, given, before, disturbed>>

EndOfActive ==
  /\ at = "lookup"
  /\ ids = <<>>
  /\ num_active_domains' = cnt
  /\ at' = "listDefined"
  /\ UNCHANGED <<hypervisor, num_inactive_domains, total_domains, list, last_time_sampled, ids, cnt, dinfo,
                 given, before, disturbed>>

\* virConnectListDefinedDomains, by name.
ListDefinedDomains ==
  /\ at = "listDefined"
  /\ \E s \in SetToSeqs(Defined) :
       ids' = SubSeq(s, 1, IF Len(s) < num_inactive_domains THEN Len(s) ELSE num_inactive_domains)
  /\ num_inactive_domains' = Len(ids')
  /\ at' = "lookupByName"
  /\ UNCHANGED <<hypervisor, num_active_domains, total_domains, list, last_time_sampled, cnt, dinfo,
                 given, before, disturbed>>

\* Mutant: the inactive domains are put where the active ones are.
LookUpByNameFromTheStart ==
  /\ at = "lookupByName"
  /\ ids # <<>>
  /\ dinfo' = work[Head(ids)]
  /\ list' = [list EXCEPT ![num_inactive_domains - Len(ids) + 1] = [domain |-> Head(ids), cpu_time |-> dinfo']]
  /\ cnt' = cnt + 1
  /\ ids' = Tail(ids)
  /\ UNCHANGED <<hypervisor, at, node, last_time_sampled, given, before, disturbed>>

LookUpByName ==
  /\ at = "lookupByName"
  /\ ids # <<>>
  /\ dinfo' = work[Head(ids)]
  /\ list' = [list EXCEPT ![cnt + 1] = [domain |-> Head(ids), cpu_time |-> dinfo']]
  /\ cnt' = cnt + 1
  /\ ids' = Tail(ids)
  /\ UNCHANGED <<hypervisor, at, node, last_time_sampled, given, before, disturbed>>

EndOfCollection ==
  /\ at = "lookupByName"
  /\ ids = <<>>
  /\ total_domains' = num_active_domains + num_inactive_domains
  /\ given' = Delivered(num_active_domains, total_domains')
  /\ Return
  /\ UNCHANGED <<hypervisor, num_active_domains, num_inactive_domains, list, last_time_sampled, before, disturbed>>

collectDomainStats ==
  \/ UseList \/ BeginCollection
  \/ NumOfDomains \/ NumOfDefinedDomains \/ CallFails \/ ListDomains \/ NoDomains
  \/ LookUpByID \/ GetInfo \/ EndOfActive
  \/ ListDefinedDomains \/ LookUpByName \/ EndOfCollection

Next == StartOrStop \/ Work \/ Tick \/ collectDomainStats
Spec == Init /\ [][Next]_vars

-----------------------------------------------------------------------------
(* Properties.                                                             *)

\* What a sampler delivers, from a new collection or from the list of an older
\* one, has every domain once with a time it had during the collection, unless
\* a call of that collection failed or a domain started or stopped meanwhile.
ListIsWhole ==
  [][given' # given /\ ~disturbed' =>
       /\ Len(given') = Cardinality(Domains)
       /\ {given'[i].domain : i \in DOMAIN given'} = Domains
       /\ \A i \in DOMAIN given' :
            given'[i].cpu_time \in
              IF i <= num_active_domains' THEN before[given'[i].domain] .. work[given'[i].domain] ELSE {0}]_vars

=============================================================================
