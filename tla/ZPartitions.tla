------------------------------ MODULE ZPartitions ------------------------------
(***************************************************************************)
(* The processor time of System z partitions and of the whole machine:     *)
(* plugin/metriczLPAR.c, plugin/metriczCEC.c, plugin/lparutil.c and        *)
(* plugin/repositoryzLPAR.c, plugin/repositoryzCEC.c.                      *)
(***************************************************************************)
EXTENDS Calculation

\* Two processors of one partition, with the time used, managed and not used of
\* the first, and another partition.
Counters == {"cpu1", "cpu2", "mgmt1", "unused", "other"}
Gauges   == {"cpus", "readable"}

\* The second processor's times can always be read, or never.
Possible(os, before) == os.readable = before.readable

Milli == 2                     \* bound: stands for 1000
Micro == Milli * Milli

Excess(m, n) == IF m > n THEN m - n ELSE 0

-----------------------------------------------------------------------------
(* The samplers.                                                           *)

Unread == -1

\* A time that could not be read does not count.
cpusum(times) == MapThenSumSet(LAMBDA i : times[i], {i \in DOMAIN times : times[i] # Unread})

CPU_TIME(os)        == cpusum(<<os.cpu1, IF os.readable > 0 THEN os.cpu2 ELSE Unread>>)
CPU_MGMTTIME(os)    == cpusum(<<os.mgmt1>>)
CPU_ONLINETIME(os)  ==
  cpusum(<<os.cpu1 + os.mgmt1 + os.unused, IF os.readable > 0 THEN os.cpu2 ELSE Unread>>)
OTHER_CPU_TIME(os)  == cpusum(<<os.other>>)

metricRetrLPAR(os) == <<CPU_TIME(os), CPU_MGMTTIME(os), CPU_ONLINETIME(os)>>

\* Mutant: without the adjustments.
metricRetrCECUnadjusted(os, before) ==
  <<CPU_MGMTTIME(os), 1 + os.cpus, CPU_TIME(os) + OTHER_CPU_TIME(os), 0, 0>>

\* A time that fell since the data read before makes an adjustment.
metricRetrCEC(os, before) ==
  LET adj(Time(_)) == IF before = Nothing THEN 0 ELSE Excess(Time(before), Time(os))
  IN  <<CPU_MGMTTIME(os), 1 + os.cpus, CPU_TIME(os) + OTHER_CPU_TIME(os),
        adj(CPU_MGMTTIME), adj(CPU_TIME) + adj(OTHER_CPU_TIME)>>

Retrieved(os, before) == [LPARTimes |-> metricRetrLPAR(os), CECTimes |-> metricRetrCEC(os, before)]

-----------------------------------------------------------------------------
(* The calculators of a partition.                                         *)

Cpu(data)    == data[1]
Mgmt(data)   == data[2]
Online(data) == data[3]
Used(data)   == Cpu(data) + Mgmt(data)
Unused(data) == Online(data) - Cpu(data) - Mgmt(data)

Growth(mv, Time(_)) == Excess(Time(Newest(mv)), Time(Oldest(mv)))

PartitionTime(mv, Time(_)) == IF mv = <<>> THEN NoResult ELSE Result(Growth(mv, Time) \div Milli)

PartitionPercentage(mv, Time(_)) ==
  IF mv = <<>> \/ Growth(mv, Online) = 0 THEN NoResult
  ELSE Result(<<100 * Growth(mv, Time), Growth(mv, Online)>>)

metricCalcLPARTimes(mv)      == IF mv = <<>> THEN NoResult ELSE Result(Newest(mv))
metricCalcKernelModeTime(mv) == PartitionTime(mv, Mgmt)
metricCalcUserModeTime(mv)   == PartitionTime(mv, Cpu)
metricCalcTotalCPUTime(mv)   == PartitionTime(mv, Used)
metricCalcUnusedPartitionCPUCapacity(mv) == PartitionTime(mv, Unused)

metricCalcKernelModePercentage(mv) == PartitionPercentage(mv, Mgmt)
metricCalcUserModePercentage(mv)   == PartitionPercentage(mv, Cpu)
metricCalcTotalCPUPercentage(mv)   == PartitionPercentage(mv, Used)
metricCalcIdlePercentage(mv)       == PartitionPercentage(mv, Unused)

metricCalcActiveVirtualProcessors(mv) ==
  IF mv = <<>> \/ Elapsed(mv) <= 0 \/ Growth(mv, Online) = 0 THEN NoResult
  ELSE Result(<<Growth(mv, Online), Elapsed(mv) * Micro>>)

-----------------------------------------------------------------------------
(* The calculators of the machine.                                         *)

parseCECTimes(data) ==
  [kernel |-> data[1], numcpus |-> data[2], user |-> data[3], kernel_adj |-> data[4], user_adj |-> data[5]]

Kernel(t)    == t.kernel
User(t)      == t.user
Total(t)     == t.kernel + t.user
KernelAdj(t) == t.kernel_adj
UserAdj(t)   == t.user_adj
TotalAdj(t)  == t.kernel_adj + t.user_adj

\* The newest sample's time, adjusted, less the oldest's.
Spent(mv, Time(_), Adj(_)) ==
  LET now == parseCECTimes(Newest(mv))
  IN  Excess(Time(now) + Adj(now), Time(parseCECTimes(Oldest(mv))))

NumCPUs(mv) == parseCECTimes(Newest(mv)).numcpus

MachineTime(mv, Time(_), Adj(_)) ==
  IF mv = <<>> THEN NoResult ELSE Result(Spent(mv, Time, Adj) \div Milli)

MachinePercentage(mv, Time(_), Adj(_)) ==
  IF mv = <<>> \/ Elapsed(mv) <= 0 \/ Spent(mv, Time, Adj) = 0 THEN NoResult
  ELSE Result(<<100 * Spent(mv, Time, Adj), Elapsed(mv) * Micro * NumCPUs(mv)>>)

metricCalc_CECTimes(mv)         == IF mv = <<>> THEN NoResult ELSE Result(Newest(mv))
metricCalcCECKernelModeTime(mv) == MachineTime(mv, Kernel, KernelAdj)
metricCalcCECUserModeTime(mv)   == MachineTime(mv, User, UserAdj)
metricCalcCECTotalCPUTime(mv)   == MachineTime(mv, Total, TotalAdj)

metricCalcCECUnusedGlobalCPUCapacity(mv) ==
  IF mv = <<>> THEN NoResult
  ELSE LET spent == Spent(mv, Total, TotalAdj)
       IN  Result(IF Elapsed(mv) > 0 /\ spent > 0
                  THEN Minus(Elapsed(mv) * Milli * NumCPUs(mv), spent \div Milli) ELSE 0)

metricCalcCECExternalViewKernelModePercentage(mv) == MachinePercentage(mv, Kernel, KernelAdj)
metricCalcCECExternalViewUserModePercentage(mv)   == MachinePercentage(mv, User, UserAdj)
metricCalcCECExternalViewTotalCPUPercentage(mv)   == MachinePercentage(mv, Total, TotalAdj)

-----------------------------------------------------------------------------
(* The tables, but for the metrics of the raw values themselves.           *)

LPARDefs(over) ==
  [KernelModeTime |-> Row("interval", "milli", metricCalcKernelModeTime(over.LPARTimes)),
   UserModeTime   |-> Row("interval", "milli", metricCalcUserModeTime(over.LPARTimes)),
   TotalCPUTime   |-> Row("interval", "milli", metricCalcTotalCPUTime(over.LPARTimes)),
   UnusedPartitionCPUCapacity       |-> Row("interval", "milli", metricCalcUnusedPartitionCPUCapacity(over.LPARTimes)),
   ExternalViewKernelModePercentage |-> Row("interval", "percent", metricCalcKernelModePercentage(over.LPARTimes)),
   ExternalViewUserModePercentage   |-> Row("interval", "percent", metricCalcUserModePercentage(over.LPARTimes)),
   ExternalViewTotalCPUPercentage   |-> Row("interval", "percent", metricCalcTotalCPUPercentage(over.LPARTimes)),
   ExternalViewIdlePercentage       |-> Row("interval", "percent", metricCalcIdlePercentage(over.LPARTimes)),
   ActiveVirtualProcessors          |-> Row("interval", "float", metricCalcActiveVirtualProcessors(over.LPARTimes))]

CECDefs(over) ==
  [KernelModeTime |-> Row("interval", "spent", metricCalcCECKernelModeTime(over.CECTimes)),
   UserModeTime   |-> Row("interval", "spent", metricCalcCECUserModeTime(over.CECTimes)),
   TotalCPUTime   |-> Row("interval", "spent", metricCalcCECTotalCPUTime(over.CECTimes)),
   UnusedGlobalCPUCapacity          |-> Row("interval", "capacity", metricCalcCECUnusedGlobalCPUCapacity(over.CECTimes)),
   ExternalViewKernelModePercentage |-> Row("interval", "share", metricCalcCECExternalViewKernelModePercentage(over.CECTimes)),
   ExternalViewUserModePercentage   |-> Row("interval", "share", metricCalcCECExternalViewUserModePercentage(over.CECTimes)),
   ExternalViewTotalCPUPercentage   |-> Row("interval", "share", metricCalcCECExternalViewTotalCPUPercentage(over.CECTimes))]

=============================================================================
