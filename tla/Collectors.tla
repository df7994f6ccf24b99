------------------------------- MODULE Collectors -------------------------------
(***************************************************************************)
(* The two kinds of samplers that work in many steps while what they read  *)
(* changes: the one that collects the domains call by call (DomainList)    *)
(* and those that read files which are updated together (Snapshots).  They *)
(* share no state but the clock.                                           *)
(***************************************************************************)
EXTENDS Integers, FiniteSets

CONSTANTS Domains, MaxWork, MaxStarts, MaxTime, Keep, Files, MaxUpdates

ASSUME CollectorsAssumption ==
  /\ IsFiniteSet(Domains)
  /\ MaxWork \in Nat /\ MaxStarts \in Nat /\ MaxTime \in Nat /\ Keep \in Nat \ {0}
  /\ Files \in Nat \ {0} /\ MaxUpdates \in Nat

VARIABLES now,
          running, starts, work, at, num_active_domains, num_inactive_domains, total_domains,
          list, last_time_sampled, ids, cnt, dinfo, given, before, disturbed,
          source, update, stamp, step, first, loops, seen, systemdata, systemdata_old, sent, changes

DL == INSTANCE DomainList
SN == INSTANCE Snapshots

domainVars == <<running, starts, work, at, num_active_domains, num_inactive_domains, total_domains,
                list, last_time_sampled, ids, cnt, dinfo, given, before, disturbed>>
fileVars   == <<source, update, stamp, step, first, loops, seen, systemdata, systemdata_old, sent, changes>>

\* Every domain is in the list once (module DomainList).
ListIsWhole == DL!ListIsWhole

\* Files that are updated together are read together (module Snapshots).
SnapshotIsOfOneMoment == SN!SnapshotIsOfOneMoment
DiskIsOfOneMoment     == SN!DiskIsOfOneMoment

=============================================================================
