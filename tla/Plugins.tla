-------------------------------- MODULE Plugins --------------------------------
(***************************************************************************)
(* The metric and repository plugins at work: the gatherer samples a       *)
(* plugin's raw metrics now and then, the local repository keeps them, and *)
(* reposvalue_get (repos.c) hands them to the plugin's calculators.        *)
(***************************************************************************)
EXTENDS Calculation, TLC

CONSTANTS MaxSamples,    \* bound: on the samples
          Amounts,       \* by how much a number of the system grows
          Wait           \* the seconds between two samples

ASSUME PluginsAssumption ==
  MaxSamples \in Nat \ {0} /\ Amounts \subseteq Nat /\ Wait \in Nat \ {0}

VARIABLES plugin,        \* the plugin looked at
          samples        \* the newest first: what the system was, and the raw values

OS   == INSTANCE OperatingSystem
UP   == INSTANCE UnixProcess
IP   == INSTANCE IPProtocolEndpoint
NP   == INSTANCE NetworkPort
Dev  == INSTANCE Devices
Virt == INSTANCE Virtualization
ZP   == INSTANCE ZPartitions
ZC   == INSTANCE ZChannels

PluginNames == {"OperatingSystem", "UnixProcess", "IPProtocolEndpoint", "NetworkPort", "Storage",
                "LocalFileSystem", "Processor", "Kvm", "Xen", "zLPAR", "zCEC", "zCH", "zECKD"}

\* What each samples of the system: what only grows, and the rest.
Counters(p) ==
  CASE p = "OperatingSystem"    -> OS!Counters
    [] p = "UnixProcess"        -> UP!Counters
    [] p = "IPProtocolEndpoint" -> IP!Counters
    [] p = "NetworkPort"        -> NP!Counters
    [] p \in {"Storage", "LocalFileSystem", "Processor"} -> Dev!Counters
    [] p \in {"Kvm", "Xen"}     -> Virt!Counters
    [] p \in {"zLPAR", "zCEC"}  -> ZP!Counters
    [] p \in {"zCH", "zECKD"}   -> ZC!Counters

Gauges(p) ==
  CASE p = "OperatingSystem"    -> OS!Gauges
    [] p = "UnixProcess"        -> UP!Gauges
    [] p = "IPProtocolEndpoint" -> IP!Gauges
    [] p = "NetworkPort"        -> NP!Gauges
    [] p \in {"Storage", "LocalFileSystem", "Processor"} -> Dev!Gauges
    [] p \in {"Kvm", "Xen"}     -> Virt!Gauges
    [] p \in {"zLPAR", "zCEC"}  -> ZP!Gauges
    [] p \in {"zCH", "zECKD"}   -> ZC!Gauges

\* What the system may show, after what it showed before.
Possible(p, os, before) ==
  CASE p = "OperatingSystem" -> OS!Possible(os)
    [] p \in {"Storage", "LocalFileSystem", "Processor"} -> Dev!Possible(os, before)
    [] p \in {"Kvm", "Xen"}  -> Virt!Possible(os)
    [] p \in {"zLPAR", "zCEC"} -> ZP!Possible(os, before)
    [] OTHER -> TRUE

vars == <<plugin, samples>>

-----------------------------------------------------------------------------
(* The raw values and what becomes of them.                                *)

\* What a plugin's samplers make of the system, and of what it was before.
Retrieved(os, before) ==
  CASE plugin = "OperatingSystem"    -> OS!Retrieved(os)
    [] plugin = "UnixProcess"        -> UP!Retrieved(os)
    [] plugin = "IPProtocolEndpoint" -> IP!Retrieved(os)
    [] plugin = "NetworkPort"        -> NP!Retrieved(os)
    [] plugin \in {"Storage", "LocalFileSystem", "Processor"} -> Dev!Retrieved(os)
    [] plugin \in {"Kvm", "Xen"}     -> Virt!Retrieved(os)
    [] plugin \in {"zLPAR", "zCEC"}  -> ZP!Retrieved(os, before)
    [] plugin \in {"zCH", "zECKD"}   -> ZC!Retrieved(os)

Sampled(at, os, before) == [ts |-> at, os |-> os, raw |-> Retrieved(os, before)]

\* A plugin's rows, for the newest value of each raw metric or for all of them.
Table ==
  LET Value(i, r) == [ts |-> samples[i].ts, data |-> samples[i].raw[r]]
      at   == [r \in DOMAIN samples[1].raw |-> <<Value(1, r)>>]
      over == [r \in DOMAIN samples[1].raw |-> [i \in DOMAIN samples |-> Value(i, r)]]
  IN  CASE plugin = "OperatingSystem" ->
             OS!CPUAndMemoryDefs(at, over) @@ OS!LoadAndPercentageDefs(at, over) @@ OS!CounterDefs(at, over)
        [] plugin = "UnixProcess"        -> UP!TimeDefs(at, over) @@ UP!ViewAndSizeDefs(at, over)
        [] plugin = "IPProtocolEndpoint" -> IP!EndpointDefs(at, over) @@ IP!DropDefs(at, over)
        [] plugin = "NetworkPort"        -> NP!PortDefs(at, over)
        [] plugin = "Storage"            -> Dev!StorageDefs(at, over)
        [] plugin = "LocalFileSystem"    -> Dev!FileSystemDefs(at, over)
        [] plugin = "Processor"          -> Dev!ProcessorDefs(at, over)
        [] plugin = "Kvm"   -> Virt!KvmDefs(at, over) @@ Virt!MemoryDefs(at, over)
        [] plugin = "Xen"   -> Virt!XenDefs(at, over) @@ Virt!MemoryDefs(at, over)
        [] plugin = "zLPAR" -> ZP!LPARDefs(over)
        [] plugin = "zCEC"  -> ZP!CECDefs(over)
        [] plugin = "zCH"   -> ZC!ChannelDefs(over)
        [] plugin = "zECKD" -> ZC!ECKDDefs(over)

Repeated == Len(samples) > 1 /\ samples[1].ts = samples[2].ts

\* The answer to a request for a metric's value.  Two newest values of one time
\* are taken for one that came twice: the value is 0.
reposvalue_get(row) ==
  IF row.type \notin {"interval", "rate", "average"} THEN row.value
  ELSE IF Len(samples) < 2 THEN NoResult
  ELSE IF Repeated
       THEN Result(IF row.data \in {"float", "percent", "share"} THEN Zero ELSE 0)
  ELSE row.value

-----------------------------------------------------------------------------
Init ==
  /\ plugin \in PluginNames
  /\ \E g \in {0, 1} :
       samples = <<Sampled(1, [f \in Counters(plugin) |-> 1] @@ [f \in Gauges(plugin) |-> g], Nothing)>>

\* The system works, or not, and is sampled.  Bound: two of its numbers grow
\* before the second sample, one by one before each that follows.
Sample ==
  /\ Len(samples) < MaxSamples
  /\ \E f \in Counters(plugin) \cup Gauges(plugin), by \in IF Len(samples) = 1 THEN Amounts ELSE {1} :
     \E g \in IF Len(samples) = 1 THEN Counters(plugin) \cup Gauges(plugin) ELSE {f} :
       LET os == [samples[1].os EXCEPT ![f] = @ + by, ![g] = IF g = f THEN @ ELSE @ + by]
       IN  /\ Possible(plugin, os, samples[1].os)
           /\ samples' = <<Sampled(samples[1].ts + Wait, os, samples[1].os)>> \o samples
  /\ UNCHANGED plugin

\* A partition of the machine is started anew, and the other goes on.
Restart ==
  /\ plugin = "zCEC"
  /\ Len(samples) < MaxSamples
  /\ \E partition \in {{"cpu1", "cpu2", "mgmt1", "unused"}, {"other"}}, by \in Amounts :
       LET os == [f \in partition |-> 0] @@ [f \in ZP!Counters |-> samples[1].os[f] + by] @@ samples[1].os
       IN  samples' = <<Sampled(samples[1].ts + Wait, os, samples[1].os)>> \o samples
  /\ UNCHANGED plugin

\* The data of the System z machine is not read again within two seconds.
SampleAgain ==
  /\ plugin \in {"zLPAR", "zCEC"}
  /\ Len(samples) < MaxSamples
  /\ samples' = <<samples[1]>> \o samples
  /\ UNCHANGED plugin

Next == Sample \/ Restart \/ SampleAgain
Spec == Init /\ [][Next]_vars

-----------------------------------------------------------------------------
(* What the metrics are of, from the names and units of the plugins'       *)
(* readme files.  Not listed are raw metrics and the metrics that are not  *)
(* what these say: the page rates, the part of a process in the system's   *)
(* time.                                                                   *)

New     == samples[1].os
Old     == samples[Len(samples)].os
Passed  == samples[1].ts - samples[Len(samples)].ts
Grown(f) == New[f] - Old[f]
Per(n)   == IF Passed = 0 THEN 0 ELSE n \div Passed

OfTheSystem ==
  [NumberOfUsers           |-> New.users,
   NumberOfProcesses       |-> New.processes,
   KernelModeTime          |-> 10 * Grown("system"),
   UserModeTime            |-> 10 * Grown("user"),
   TotalCPUTime            |-> 10 * (Grown("system") + Grown("user")),
   IOWaitTime              |-> 10 * Grown("iowait"),
   CPUStealTime            |-> 10 * Grown("steal"),
   TotalVisibleMemorySize  |-> New.memTotal,
   FreePhysicalMemory      |-> New.memFree,
   UsedPhysicalMemory      |-> New.memTotal - New.memFree,
   SizeStoredInPagingFiles |-> New.swapTotal,
   FreeSpaceInPagingFiles  |-> New.swapFree,
   TotalVirtualMemorySize  |-> New.memTotal + New.swapTotal,
   FreeVirtualMemory       |-> New.memFree + New.swapFree,
   UsedVirtualMemory       |-> New.memTotal + New.swapTotal - New.memFree - New.swapFree,
   PageInCounter           |-> New.pswpin,
   PageOutCounter          |-> New.pswpout,
   LoadCounter             |-> New.load,
   LoadAverage             |-> <<MapThenSumSet(LAMBDA i : samples[i].os.load, DOMAIN samples), Len(samples)>>,
   ContextSwitchCounter     |-> New.ctxt,
   ContextSwitchRate        |-> Per(Grown("ctxt")),
   HardwareInterruptCounter |-> New.intr,
   HardwareInterruptRate    |-> Per(Grown("intr"))]

OfTheProcess ==
  [KernelModeTime  |-> 10 * Grown("cstime"),
   UserModeTime    |-> 10 * Grown("cutime"),
   TotalCPUTime    |-> 10 * (Grown("cstime") + Grown("cutime")),
   AccumulatedKernelModeTime |-> 10 * New.cstime,
   AccumulatedUserModeTime   |-> 10 * New.cutime,
   AccumulatedTotalCPUTime   |-> 10 * (New.cstime + New.cutime),
   ResidentSetSize |-> New.rss * UP!PageSize,
   SharedSize      |-> New.shared * UP!PageSize,
   VirtualSize     |-> New.vsize,
   PageInCounter   |-> New.majflt,
   PageInRate      |-> Per(Grown("majflt")),
   PageOutCounter  |-> New.cnswap,
   PageOutRate     |-> Per(Grown("cnswap"))]

OfTheEndpoint ==
  [BytesTransmitted       |-> Grown("tbytes"),
   BytesReceived          |-> Grown("rbytes"),
   ErrorRate              |-> <<Grown("terrs") + Grown("rerrs"), Passed>>,
   PacketsTransmitted     |-> Grown("tpackets"),
   PacketsReceived        |-> Grown("rpackets"),
   PacketTransmitRate     |-> Per(Grown("tpackets")),
   PacketReceiveRate      |-> Per(Grown("rpackets")),
   ByteTransmitRate       |-> Per(Grown("tbytes")),
   ByteReceiveRate        |-> Per(Grown("rbytes")),
   ReceivePacketsDropped  |-> Grown("rdrop"),
   TransmitPacketsDropped |-> Grown("tdrop"),
   ReceiveDropRate        |-> Per(Grown("rdrop")),
   TransmitDropRate       |-> Per(Grown("tdrop"))]

OfThePort ==
  [BytesTransmitted |-> Grown("tbytes"),
   BytesReceived    |-> Grown("rbytes"),
   ErrorRate        |-> <<Grown("terrs") + Grown("rerrs"), Passed>>]

OfTheStorage ==
  [Read     |-> New.sectorsRead \div 2 - Old.sectorsRead \div 2,
   Write    |-> New.sectorsWritten \div 2 - Old.sectorsWritten \div 2,
   Capacity |-> IF New.opens > 0 THEN New.capacity ELSE New.before]

OfTheFileSystem ==
  IF New.statfs = 0 THEN [AvailableSpacePercentage |-> Zero]
  ELSE [AvailableSpace |-> New.bavail * New.bsize,
        AvailableSpacePercentage |-> IF New.blocks = 0 THEN Zero ELSE <<100 * New.bavail, New.blocks>>]

OfTheGuest ==
  [TotalCPUTime |-> Grown("cpu"),
   ActiveVirtualProcessors |-> New.vcpus,
   PhysicalMemoryAllocatedToVirtualSystem |-> New.claimed,
   HostFreePhysicalMemory |-> New.free]

OfTheKvmGuest ==
  OfTheGuest @@
  [VirtualSystemState      |-> New.state,
   CPUUsedTimeCounter      |-> New.used,
   CPUReadyTimeCounter     |-> New.ready,
   BlockRead     |-> Grown("read"),
   BlockWrite    |-> Grown("write"),
   BlockCapacity |-> New.capacity]

OfThePartition ==
  LET cpu2 == IF New.readable > 0 THEN Grown("cpu2") ELSE 0
  IN  [KernelModeTime |-> Grown("mgmt1") \div ZP!Milli,
       UserModeTime   |-> (Grown("cpu1") + cpu2) \div ZP!Milli,
       TotalCPUTime   |-> (Grown("cpu1") + cpu2 + Grown("mgmt1")) \div ZP!Milli,
       UnusedPartitionCPUCapacity |-> Grown("unused") \div ZP!Milli]

\* In the time the channel's clock measured.
OfTheChannel ==
  LET Throughput(f) == IF Grown("clock") = 0 THEN 0 ELSE (Grown(f) * New.unitSize) \div Grown("clock")
      valid(f) == New[f] > 0 /\ Old[f] > 0
  IN  [TotalReadThroughput  |-> Throughput("cpcRead"),
       TotalWriteThroughput |-> Throughput("cpcWritten")] @@
      [m \in {x \in {"PartitionReadThroughput"} : valid("validRead")}     |-> Throughput("lparRead")] @@
      [m \in {x \in {"PartitionWriteThroughput"} : valid("validWritten")} |-> Throughput("lparWritten")]

OfTheDisk == [RequestRate |-> <<Grown("requests"), Passed>>]

Quantities ==
  CASE plugin = "OperatingSystem"    -> OfTheSystem
    [] plugin = "UnixProcess"        -> OfTheProcess
    [] plugin = "IPProtocolEndpoint" -> OfTheEndpoint
    [] plugin = "NetworkPort"        -> OfThePort
    [] plugin = "Storage"            -> OfTheStorage
    [] plugin = "LocalFileSystem"    -> OfTheFileSystem
    [] plugin = "Kvm"                -> OfTheKvmGuest
    [] plugin = "Xen"                -> OfTheGuest
    [] plugin = "zLPAR"              -> OfThePartition
    [] plugin = "zCH" /\ Grown("clock") < ZC!Clock -> OfTheChannel
    [] plugin = "zECKD"              -> OfTheDisk
    [] OTHER                         -> <<>>

-----------------------------------------------------------------------------
(* Properties.                                                             *)

\* Reals of the code that are whole numbers here.
WholeNumbers == {"ActiveVirtualProcessors", "LoadCounter"}

\* A request is answered with what the metric is the quantity of: at the newest
\* sample, or over the time since the oldest.  No byte order, field, unit or
\* sample is confused on the way from the system to the answer, and an interval's
\* metric has no value before there are two samples.
IsItsQuantity ==
  LET table == Table
      quantities == Quantities
  IN  \A m \in DOMAIN quantities :
    LET row == table[m]
    IN  CASE row.type \in {"interval", "rate", "average"} /\ Len(samples) < 2 -> reposvalue_get(row) = NoResult
          [] Repeated -> TRUE
          [] row.data \in {"float", "percent", "share"} /\ m \notin WholeNumbers ->
               SameFraction(reposvalue_get(row)[1], quantities[m])
          [] OTHER -> reposvalue_get(row) = Result(quantities[m])

\* The percentages of one interval belong together: each is one, kernel and user
\* mode make the total, and total and idle make 100.
PercentagesAddUp ==
  LET table    == Table
      Value(m) == reposvalue_get(table[m])
      Has(m)   == m \in DOMAIN table /\ Value(m) # NoResult /\ ~Undefined(Value(m)[1])
      Kernel == "ExternalViewKernelModePercentage"
      User   == "ExternalViewUserModePercentage"
      Total  == "ExternalViewTotalCPUPercentage"
      Idles  == {"ExternalViewIdlePercentage", "InternalViewIdlePercentage"}
  IN  plugin # "UnixProcess" /\ ~Repeated =>
        /\ \A m \in DOMAIN table : table[m].data = "percent" /\ Has(m) => IsPercentage(Value(m)[1])
        /\ Has(Kernel) /\ Has(User) /\ Has(Total) =>
             SameFraction(Plus(Value(Kernel)[1], Value(User)[1]), Value(Total)[1])
        /\ \A idle \in Idles : Has(Total) /\ Has(idle) =>
             SameFraction(Plus(Value(Total)[1], Value(idle)[1]), <<100, 1>>)

\* The time the machine is said to have used is what its partitions' times grew
\* by, and never more: a partition that starts anew makes no other one's time
\* disappear, and no time wrap.  (What fell before the newest two samples is lost.)
RestartCostsNothing ==
  LET rose(i, f) == IF samples[i].os[f] > samples[i + 1].os[f] THEN samples[i].os[f] - samples[i + 1].os[f] ELSE 0
      rise(f)    == MapThenSumSet(LAMBDA i : rose(i, f), 1 .. Len(samples) - 1)
      users      == {"cpu1", "other"} \cup (IF New.readable > 0 THEN {"cpu2"} ELSE {})
  IN  plugin = "zCEC" /\ Len(samples) > 1 /\ ~Repeated =>
        LET said == reposvalue_get(Table["UserModeTime"])[1]
            used == MapThenSumSet(rise, users) \div ZP!Milli
        IN  said <= used /\ (Len(samples) = 2 => said = used)

=============================================================================
