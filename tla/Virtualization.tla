---------------------------- MODULE Virtualization -----------------------------
(***************************************************************************)
(* The metrics of a virtual machine: what plugin/metricVirt.c makes of an  *)
(* entry of its domain list (module DomainList fills that list), and what  *)
(* plugin/repositoryKvm.c and plugin/repositoryXen.c make of it.           *)
(***************************************************************************)
EXTENDS Calculation

Counters == {"cpu", "used", "ready", "read", "write"}
Gauges   == {"vcpus", "claimed", "max", "total", "free", "state", "capacity"}

Possible(os) == os.claimed <= os.max /\ os.max <= os.total

-----------------------------------------------------------------------------
(* The samplers, for one of the domains.  A domain without virtual         *)
(* processors is one that is not active.                                   *)

virtMetricRetrCPUTime(os) == IF os.vcpus > 0 THEN <<os.cpu, os.vcpus>> ELSE Zero
virtMetricRetrTotalCPUTime(os)            == Swap(os.cpu)
virtMetricRetrActiveVirtualProcessors(os) == os.vcpus
virtMetricRetrInternalMemory(os)          == <<os.claimed, os.max, os.total>>
virtMetricRetrHostFreePhysicalMemory(os)  == os.free
virtMetricRetrVirtualSystemState(os)      == os.state
virtMetricRetrCPUUsedTimeCounter(os)      == Swap(os.used)
virtMetricRetrCPUReadyTimeCounter(os)     == Swap(os.ready)
virtMetricRetrVirtualBlockIOStats(os)     == <<os.read, os.write, os.capacity>>

Retrieved(os) ==
  [CPUTime                 |-> virtMetricRetrCPUTime(os),
   TotalCPUTime            |-> virtMetricRetrTotalCPUTime(os),
   ActiveVirtualProcessors |-> virtMetricRetrActiveVirtualProcessors(os),
   Memory                  |-> virtMetricRetrInternalMemory(os),
   HostFreePhysicalMemory  |-> virtMetricRetrHostFreePhysicalMemory(os),
   VirtualSystemState      |-> virtMetricRetrVirtualSystemState(os),
   CPUUsedTimeCounter      |-> virtMetricRetrCPUUsedTimeCounter(os),
   CPUReadyTimeCounter     |-> virtMetricRetrCPUReadyTimeCounter(os),
   VirtualBlockIOStats     |-> virtMetricRetrVirtualBlockIOStats(os)]

-----------------------------------------------------------------------------
(* The calculators both plugins have, with the same text.                  *)

metricCalcCPUTime(mv)         == Point(mv, LAMBDA data : data)
metricCalcIntTotalCPUTime(mv) == Point(mv, Swap)

metricCalcHostFreePhysicalMemory(mv) == Latest(mv, LAMBDA data : data)
metricCalcInternal(mv)               == Point(mv, LAMBDA data : data)
metricCalcPhysicalMemoryAllocatedToVirtualSystem(mv) == Latest(mv, LAMBDA data : data[1])
metricCalcPartitionMaximumMemory(mv) == Latest(mv, LAMBDA data : data[2])    \* of no metric
metricCalcPhysicalMemoryAllocatedToVirtualSystemPercentage(mv) ==
  Point(mv, LAMBDA data : <<100 * data[1], data[2]>>)
metricCalcHostMemoryPercentage(mv) == Point(mv, LAMBDA data : <<100 * data[1], data[3]>>)

\* The fraction (f - g) / elapsed, of one hundred.
PercentOf(f, g, elapsed) == <<100 * (f[1] * g[2] - g[1] * f[2]), f[2] * g[2] * elapsed>>

-----------------------------------------------------------------------------
(* Those of Kvm.                                                           *)

\* A domain that is shut off has used no time.
metricCalcTotalCPUTime(mv) ==
  IF Len(mv) < 2 THEN NoResult
  ELSE Result(IF Swap(Newest(mv)) = 0 THEN 0 ELSE Minus(Swap(Newest(mv)), Swap(Oldest(mv))))

metricCalcExtTotalCPUTimePerc(mv) ==
  IF Len(mv) < 2 THEN NoResult
  ELSE Result(IF Newest(mv)[1] = 0 THEN Zero ELSE PercentOf(Newest(mv), Oldest(mv), Elapsed(mv)))

metricCalcActiveVirtualProcessors(mv) == Latest(mv, LAMBDA data : data)
metricCalcVirtualSystemState(mv)      == Latest(mv, LAMBDA data : data)
metricCalcSchedulerStats(mv)          == Point(mv, Swap)

BLK_READ  == 0
BLK_WRITE == 1
BLK_CAP   == 2
kvm_getData(data, index) == IF index < Len(data) THEN data[index + 1] ELSE 0

metricCalcVirtualBlockIOStats(mv) == Point(mv, LAMBDA data : data)
metricCalcBlockRead(mv)     == Change(mv, LAMBDA data : kvm_getData(data, BLK_READ))
metricCalcBlockWrite(mv)    == Change(mv, LAMBDA data : kvm_getData(data, BLK_WRITE))
metricCalcBlockCapacity(mv) == Latest(mv, LAMBDA data : kvm_getData(data, BLK_CAP))

-----------------------------------------------------------------------------
(* Those of Xen.                                                           *)

xen_metricCalcTotalCPUTime(mv) ==
  IF Len(mv) < 2 THEN NoResult ELSE Result(Minus(Swap(Newest(mv)), Swap(Oldest(mv))))

xen_metricCalcExtTotalCPUTimePerc(mv) ==
  IF Len(mv) < 2 THEN NoResult ELSE Result(PercentOf(Newest(mv), Oldest(mv), Elapsed(mv)))

\* Said to be of an interval: the newest of its values is taken.
xen_metricCalcActiveVirtualProcessors(mv) ==
  IF Len(mv) >= 2 THEN Result(Newest(mv)) ELSE NoResult

-----------------------------------------------------------------------------
(* The tables.  The metrics of ten minutes have raw metrics of their own,  *)
(* filled by the same samplers.                                            *)

KvmDefs(at, over) ==
  [TotalCPUTime                       |-> Row("interval", "uint", metricCalcTotalCPUTime(over.TotalCPUTime)),
   ActiveVirtualProcessors            |-> Row("point", "float", metricCalcActiveVirtualProcessors(at.ActiveVirtualProcessors)),
   ExternalViewTotalCPUTimePercentage |-> Row("interval", "share", metricCalcExtTotalCPUTimePerc(over.CPUTime)),
   VirtualSystemState                 |-> Row("point", "uint", metricCalcVirtualSystemState(at.VirtualSystemState)),
   CPUUsedTimeCounter                 |-> Row("point", "uint", metricCalcSchedulerStats(at.CPUUsedTimeCounter)),
   CPUReadyTimeCounter                |-> Row("point", "uint", metricCalcSchedulerStats(at.CPUReadyTimeCounter)),
   BlockRead                          |-> Row("interval", "uint", metricCalcBlockRead(over.VirtualBlockIOStats)),
   BlockWrite                         |-> Row("interval", "uint", metricCalcBlockWrite(over.VirtualBlockIOStats)),
   BlockCapacity                      |-> Row("point", "uint", metricCalcBlockCapacity(at.VirtualBlockIOStats))]

\* What both plugins define of the memory.
MemoryDefs(at, over) ==
  [PhysicalMemoryAllocatedToVirtualSystem |->
     Row("point", "uint", metricCalcPhysicalMemoryAllocatedToVirtualSystem(at.Memory)),
   HostFreePhysicalMemory |->
     Row("point", "uint", metricCalcHostFreePhysicalMemory(at.HostFreePhysicalMemory)),
   PhysicalMemoryAllocatedToVirtualSystemPercentage |->
     Row("point", "percent", metricCalcPhysicalMemoryAllocatedToVirtualSystemPercentage(at.Memory)),
   HostMemoryPercentage |-> Row("point", "percent", metricCalcHostMemoryPercentage(at.Memory))]

XenDefs(at, over) ==
  [TotalCPUTime                       |-> Row("interval", "uint", xen_metricCalcTotalCPUTime(over.TotalCPUTime)),
   ActiveVirtualProcessors            |-> Row("interval", "float", xen_metricCalcActiveVirtualProcessors(over.ActiveVirtualProcessors)),
   ExternalViewTotalCPUTimePercentage |-> Row("interval", "share", xen_metricCalcExtTotalCPUTimePerc(over.CPUTime))]

=============================================================================
