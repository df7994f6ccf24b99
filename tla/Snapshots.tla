------------------------------- MODULE Snapshots -------------------------------
(***************************************************************************)
(* Two samplers read many small files that change together, one after the  *)
(* other, and read again when they find that the files have changed: that  *)
(* of a disk (readSysFs in plugin/metriczECKD.c, by the count of samples)  *)
(* and that of System z partitions (get_hypervisor_info in plugin/hypfs.c, *)
(* by the time of the update; plugin/lparutil.c keeps what it gets).  A    *)
(* file's contents are the number of the update they come from.            *)
(***************************************************************************)
EXTENDS Integers, FiniteSets, Sequences, SequencesExt

CONSTANTS Files,         \* how many files are read
          MaxUpdates,    \* bound: on the updates
          MaxTime        \* bound: on the clock

VARIABLES source,        \* "sysfs" or "hypfs"
          update, stamp, \* the last update of the files and its time
          now,
          step,          \* where the sampler is
          first,         \* sampleCount1, or t_update1
          loops,
          seen,          \* what was read, in this loop
          systemdata, systemdata_old,
          sent,          \* the last snapshot of a disk that was delivered
          changes        \* the updates since the sampler began

kept == <<systemdata, systemdata_old>>
vars == <<source, update, stamp, now, step, first, loops, seen, systemdata, systemdata_old, sent, changes>>

NoData == [hs_timestamp |-> -1, files |-> <<>>]    \* NULL
MAXTRY == 2     \* HV_TS_MAXTRY, and as many loops of readSysFs
MaxAge == 2     \* seconds
Unreadable == 0 \* a file that cannot be read counts as 0

Init ==
  /\ source \in {"sysfs", "hypfs"}
  /\ update = 1 /\ stamp = 0 /\ now = 0
  /\ step = "idle" /\ first = 0 /\ loops = 0 /\ seen = <<>>
  /\ systemdata = NoData /\ systemdata_old = NoData
  /\ sent = <<>>
  /\ changes = 0

-----------------------------------------------------------------------------
(* The system: a measurement, or an update somebody else asked for.  The   *)
(* hypervisor's files are updated once in a second at most.                *)

Tick ==
  /\ source = "hypfs"
  /\ now < MaxTime
  /\ now' = now + 1
  /\ UNCHANGED <<source, update, stamp, step, first, loops, seen, kept, sent, changes>>

Update ==
  /\ update < MaxUpdates
  /\ source = "hypfs" => stamp < now
  /\ update' = update + 1
  /\ stamp' = now
  /\ changes' = changes + 1
  /\ UNCHANGED <<source, now, step, first, loops, seen, kept, sent>>

-----------------------------------------------------------------------------
(* readSysFs.                                                              *)

Return ==
  /\ step' = "idle"
  /\ first' = 0 /\ loops' = 0 /\ seen' = <<>>
  /\ changes' = 0

\* The device is opened and its measurement is on.
OpenDevice ==
  /\ source = "sysfs" /\ step = "idle"
  /\ step' = "count"
  /\ changes' = 0
  /\ UNCHANGED <<source, update, stamp, now, first, loops, seen, kept, sent>>

ReadSampleCount ==
  /\ step = "count"
  /\ \/ first' = update /\ seen' = <<>> /\ step' = "attributes" /\ UNCHANGED <<loops, changes>>
     \/ Return
  /\ UNCHANGED <<source, update, stamp, now, kept, sent>>

ReadAttribute ==
  /\ step = "attributes"
  /\ Len(seen) < Files
  /\ \E value \in {update, Unreadable} : seen' = Append(seen, value)
  /\ UNCHANGED <<source, update, stamp, now, step, first, loops, kept, sent, changes>>

\* The sample count is the last of the attributes.
sampleCount2 == Last(seen)

ReadAgain ==
  /\ step = "attributes"
  /\ Len(seen) = Files
  /\ sampleCount2 # Unreadable /\ sampleCount2 # first /\ loops + 1 < MAXTRY
  /\ loops' = loops + 1
  /\ step' = "count"
  /\ UNCHANGED <<source, update, stamp, now, first, seen, kept, sent, changes>>

\* Mutant: what was read is delivered at once.
SendAtOnce ==
  /\ step = "attributes"
  /\ Len(seen) = Files
  /\ sent' = IF sampleCount2 = Unreadable THEN <<>> ELSE seen
  /\ Return
  /\ UNCHANGED <<source, update, stamp, now, kept>>

\* sendMetric; without a sample count there is nothing to deliver.
SendMetric ==
  /\ step = "attributes"
  /\ Len(seen) = Files
  /\ sampleCount2 \in {Unreadable, first} \/ loops + 1 >= MAXTRY
  /\ sent' = IF sampleCount2 = Unreadable THEN <<>> ELSE seen
  /\ Return
  /\ UNCHANGED <<source, update, stamp, now, kept>>

readSysFs == OpenDevice \/ ReadSampleCount \/ ReadAttribute \/ ReadAgain \/ SendMetric

-----------------------------------------------------------------------------
(* refreshSystemData and get_hypervisor_info.                              *)

\* The data there is is kept for two seconds; then it becomes the old data.
refreshSystemData ==
  /\ source = "hypfs" /\ step = "idle"
  /\ systemdata = NoData \/ now - systemdata.hs_timestamp > MaxAge
  /\ systemdata_old' = IF systemdata = NoData THEN systemdata_old ELSE systemdata
  /\ systemdata' = NoData
  /\ step' = "request"
  /\ changes' = 0
  /\ UNCHANGED <<source, update, stamp, now, first, loops, seen, sent>>

\* hv_request_update: the write fails if the files are of this second.
hv_request_update ==
  /\ step = "request"
  /\ IF stamp < now /\ update < MaxUpdates
     THEN update' = update + 1 /\ stamp' = now /\ step' = "timestamp" /\ UNCHANGED <<first, loops, seen, changes>>
     ELSE Return /\ UNCHANGED <<update, stamp>>
  /\ UNCHANGED <<source, now, kept, sent>>

\* hv_get_timestamp and the comparison with the time (HV_TS_MAXSKEW).
GetTimestamp ==
  /\ step = "timestamp"
  /\ IF now - stamp <= 1
     THEN first' = stamp /\ step' = "systeminfo" /\ UNCHANGED <<loops, seen, changes>>
     ELSE Return
  /\ UNCHANGED <<source, update, stamp, now, kept, sent>>

\* A time of hv_get_systeminfo, of a processor of the machine or a partition.
hv_get_ull ==
  /\ step = "systeminfo"
  /\ Len(seen) < Files
  /\ \E value \in {update, Unreadable} : seen' = Append(seen, value)
  /\ UNCHANGED <<source, update, stamp, now, step, first, loops, kept, sent, changes>>

\* Mutant: the time of the update is read once.
TakeAnyTimestamp ==
  /\ step = "systeminfo"
  /\ Len(seen) = Files
  /\ systemdata' = [hs_timestamp |-> stamp, files |-> seen]
  /\ Return
  /\ UNCHANGED <<source, update, stamp, now, systemdata_old, sent>>

\* The end of hv_get_systeminfo, and the time of the update again; t_update1 is
\* not read again for the next loop.
CompareTimestamp ==
  /\ step = "systeminfo"
  /\ Len(seen) = Files
  /\ IF stamp = first
     THEN systemdata' = [hs_timestamp |-> stamp, files |-> seen] /\ Return
     ELSE /\ UNCHANGED systemdata
          /\ IF loops + 1 < MAXTRY
             THEN loops' = loops + 1 /\ seen' = <<>> /\ UNCHANGED <<step, first, changes>>
             ELSE Return
  /\ UNCHANGED <<source, update, stamp, now, systemdata_old, sent>>

\* _StartStopMetrics.
StopMetrics ==
  /\ source = "hypfs" /\ step = "idle"
  /\ systemdata # NoData
  /\ systemdata' = NoData
  /\ UNCHANGED <<source, update, stamp, now, step, first, loops, seen, systemdata_old, sent, changes>>

get_hypervisor_info == hv_request_update \/ GetTimestamp \/ hv_get_ull \/ CompareTimestamp

Next == Tick \/ Update \/ readSysFs \/ refreshSystemData \/ get_hypervisor_info \/ StopMetrics
Spec == Init /\ [][Next]_vars

-----------------------------------------------------------------------------
(* Properties.                                                             *)

OfOneMoment(files) == Cardinality(ToSet(files) \ {Unreadable}) <= 1

\* The data kept of the partitions is all from one update of the files, and the
\* old data is older than the new, as the adjustments for times that fell
\* (metriczCEC.c:148) rely on.
SnapshotIsOfOneMoment ==
  /\ OfOneMoment(systemdata.files)
  /\ OfOneMoment(systemdata_old.files)
  /\ systemdata # NoData => systemdata_old.hs_timestamp < systemdata.hs_timestamp

\* What is delivered of a disk is all from one update, unless the files were
\* updated twice while they were read.
DiskIsOfOneMoment == [][sent' # sent /\ changes <= 1 => OfOneMoment(sent')]_vars

=============================================================================
