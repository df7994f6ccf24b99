--------------------------- MODULE OperatingSystem -----------------------------
(***************************************************************************)
(* The operating system metrics: what plugin/metricOperatingSystem.c takes *)
(* from the system and what plugin/repositoryOperatingSystem.c makes of it.*)
(***************************************************************************)
EXTENDS Calculation

Counters == {"user", "nice", "system", "idle", "iowait", "irq", "softirq", "steal",
             "pswpin", "pswpout", "ctxt", "intr"}
Gauges == {"users", "processes", "memTotal", "memFree", "swapTotal", "swapFree", "load"}

Possible(os) == os.memFree <= os.memTotal /\ os.swapFree <= os.swapTotal

-----------------------------------------------------------------------------
(* The samplers.                                                           *)

metricRetrNumOfUser(os)  == Swap(os.users)
metricRetrNumOfProc(os)  == Swap(os.processes)
metricRetrCPUTime(os)    == <<os.user, os.nice, os.system, os.idle, os.iowait, os.irq, os.softirq, os.steal>>
metricRetrMemorySize(os) == <<os.memTotal, os.memFree, os.swapTotal, os.swapFree>>
metricRetrPageInCounter(os)  == Swap(os.pswpin)
metricRetrPageOutCounter(os) == Swap(os.pswpout)
metricRetrLoadCounter(os)    == Swap(os.load)
metricRetrContextSwitchCounter(os)     == Swap(os.ctxt)
metricRetrHardwareInterruptCounter(os) == Swap(os.intr)

Retrieved(os) ==
  [NumberOfUsers     |-> metricRetrNumOfUser(os),
   NumberOfProcesses |-> metricRetrNumOfProc(os),
   CPUTime           |-> metricRetrCPUTime(os),
   MemorySize        |-> metricRetrMemorySize(os),
   PageInCounter     |-> metricRetrPageInCounter(os),
   PageOutCounter    |-> metricRetrPageOutCounter(os),
   LoadCounter       |-> metricRetrLoadCounter(os),
   ContextSwitchCounter     |-> metricRetrContextSwitchCounter(os),
   HardwareInterruptCounter |-> metricRetrHardwareInterruptCounter(os)]

-----------------------------------------------------------------------------
(* The calculators.                                                        *)

os_getCPUUserTime(data)   == data[1] * 10
os_getCPUKernelTime(data) == data[3] * 10
os_getCPUIdleTime(data)   == data[4] * 10
os_getCPUIOWaitTime(data) == data[5] * 10
os_getCPUStealTime(data)  == data[8] * 10
os_getCPUTotalTime(data)  == os_getCPUUserTime(data) + os_getCPUKernelTime(data)

\* Mutant: of the busy time.
os_getIdlePercentageOfBusy(start, end) ==
  NotNegative(<<100 * Since(start, end, os_getCPUIdleTime), Since(start, end, os_getCPUTotalTime)>>)

os_getCPUIdleTimePercentage(start, end) ==
  LET idle  == Since(start, end, os_getCPUIdleTime)
      total == Since(start, end, os_getCPUTotalTime)
  IN  NotNegative(<<100 * idle, idle + total>>)

os_getTotalCPUTimePercentage(start, end) == Remainder(os_getCPUIdleTimePercentage(start, end))

os_getCPUKernelTimePercentage(start, end) ==
  Times(<<Since(start, end, os_getCPUKernelTime), Since(start, end, os_getCPUTotalTime)>>,
        os_getTotalCPUTimePercentage(start, end))

os_getCPUUserTimePercentage(start, end) ==
  Times(<<Since(start, end, os_getCPUUserTime), Since(start, end, os_getCPUTotalTime)>>,
        os_getTotalCPUTimePercentage(start, end))

os_getCPUConsumptionIndex(start, end) ==
  LET total == Since(start, end, os_getCPUTotalTime)
  IN  <<total, Since(start, end, os_getCPUIdleTime) + total>>

metricCalcNumOfUser(mv) == Point(mv, Swap)
metricCalcNumOfProc(mv) == Point(mv, Swap)
metricCalcCPUTime(mv)    == Point(mv, LAMBDA data : data)
metricCalcMemorySize(mv) == Point(mv, LAMBDA data : data)

metricCalcKernelTime(mv)   == Change(mv, os_getCPUKernelTime)
metricCalcStealTime(mv)    == Change(mv, os_getCPUStealTime)
metricCalcUserTime(mv)     == Change(mv, os_getCPUUserTime)
metricCalcIOWaitTime(mv)   == Change(mv, os_getCPUIOWaitTime)
metricCalcTotalCPUTime(mv) == Change(mv, os_getCPUTotalTime)

metricCalcTotalPhysMem(mv) == Point(mv, LAMBDA data : data[1])
metricCalcFreePhysMem(mv)  == Point(mv, LAMBDA data : data[2])
metricCalcUsedPhysMem(mv)  == Point(mv, LAMBDA data : Minus(data[1], data[2]))
metricCalcTotalSwapMem(mv) == Point(mv, LAMBDA data : data[3])
metricCalcFreeSwapMem(mv)  == Point(mv, LAMBDA data : data[4])
metricCalcTotalVirtMem(mv) == Point(mv, LAMBDA data : data[1] + data[3])
metricCalcFreeVirtMem(mv)  == Point(mv, LAMBDA data : data[2] + data[4])
metricCalcUsedVirtMem(mv)  == Point(mv, LAMBDA data : Minus(data[1] + data[3], data[2] + data[4]))

metricCalcPageInCounter(mv)  == Point(mv, Swap)
metricCalcPageOutCounter(mv) == Point(mv, Swap)
metricCalcContextSwitchCounter(mv)     == Point(mv, Swap)
metricCalcHardwareInterruptCounter(mv) == Point(mv, Swap)

\* The raw values are subtracted as they are, in network byte order.
metricCalcPageInRate(mv)  == Rate(mv, LAMBDA data : data)
metricCalcPageOutRate(mv) == Rate(mv, LAMBDA data : data)

metricCalcContextSwitchRate(mv)     == Rate(mv, Swap)
metricCalcHardwareInterruptRate(mv) == Rate(mv, Swap)

metricCalcLoadCounter(mv) == Point(mv, Swap)
metricCalcLoadAverage(mv) == Average(mv, Swap)

metricCalcInternKernelTimePerc(mv)   == Share(mv, os_getCPUKernelTimePercentage)
metricCalcInternUserTimePerc(mv)     == Share(mv, os_getCPUUserTimePercentage)
metricCalcInternIdleTimePerc(mv)     == Share(mv, os_getCPUIdleTimePercentage)
metricCalcInternTotalCPUTimePerc(mv) == Share(mv, os_getTotalCPUTimePercentage)
metricCalcExternKernelTimePerc(mv)   == Share(mv, os_getCPUKernelTimePercentage)
metricCalcExternUserTimePerc(mv)     == Share(mv, os_getCPUUserTimePercentage)
metricCalcExternTotalCPUTimePerc(mv) == Share(mv, os_getTotalCPUTimePercentage)
metricCalcCPUConsumptionIndex(mv)    == Share(mv, os_getCPUConsumptionIndex)

-----------------------------------------------------------------------------
(* The table: every metric with what it makes of the raw values at one time*)
(* or over an interval.                                                    *)

CPUAndMemoryDefs(at, over) ==
  [NumberOfUsers           |-> Row("point", "uint", metricCalcNumOfUser(at.NumberOfUsers)),
   NumberOfProcesses       |-> Row("point", "uint", metricCalcNumOfProc(at.NumberOfProcesses)),
   CPUTime                 |-> Row("point", "string", metricCalcCPUTime(at.CPUTime)),
   KernelModeTime          |-> Row("interval", "uint", metricCalcKernelTime(over.CPUTime)),
   UserModeTime            |-> Row("interval", "uint", metricCalcUserTime(over.CPUTime)),
   TotalCPUTime            |-> Row("interval", "uint", metricCalcTotalCPUTime(over.CPUTime)),
   MemorySize              |-> Row("point", "string", metricCalcMemorySize(at.MemorySize)),
   TotalVisibleMemorySize  |-> Row("point", "uint", metricCalcTotalPhysMem(at.MemorySize)),
   FreePhysicalMemory      |-> Row("point", "uint", metricCalcFreePhysMem(at.MemorySize)),
   SizeStoredInPagingFiles |-> Row("point", "uint", metricCalcTotalSwapMem(at.MemorySize)),
   FreeSpaceInPagingFiles  |-> Row("point", "uint", metricCalcFreeSwapMem(at.MemorySize)),
   TotalVirtualMemorySize  |-> Row("point", "uint", metricCalcTotalVirtMem(at.MemorySize)),
   FreeVirtualMemory       |-> Row("point", "uint", metricCalcFreeVirtMem(at.MemorySize))]

LoadAndPercentageDefs(at, over) ==
  [PageInCounter  |-> Row("point", "uint", metricCalcPageInCounter(at.PageInCounter)),
   PageInRate     |-> Row("rate", "uint", metricCalcPageInRate(over.PageInCounter)),
   LoadCounter    |-> Row("point", "float", metricCalcLoadCounter(at.LoadCounter)),
   LoadAverage    |-> Row("average", "float", metricCalcLoadAverage(over.LoadCounter)),
   InternalViewKernelModePercentage |-> Row("interval", "percent", metricCalcInternKernelTimePerc(over.CPUTime)),
   InternalViewUserModePercentage   |-> Row("interval", "percent", metricCalcInternUserTimePerc(over.CPUTime)),
   InternalViewIdlePercentage       |-> Row("interval", "percent", metricCalcInternIdleTimePerc(over.CPUTime)),
   InternalViewTotalCPUPercentage   |-> Row("interval", "percent", metricCalcInternTotalCPUTimePerc(over.CPUTime)),
   ExternalViewKernelModePercentage |-> Row("interval", "percent", metricCalcExternKernelTimePerc(over.CPUTime)),
   ExternalViewUserModePercentage   |-> Row("interval", "percent", metricCalcExternUserTimePerc(over.CPUTime)),
   ExternalViewTotalCPUPercentage   |-> Row("interval", "percent", metricCalcExternTotalCPUTimePerc(over.CPUTime)),
   PageOutCounter |-> Row("point", "uint", metricCalcPageOutCounter(at.PageOutCounter)),
   PageOutRate    |-> Row("rate", "uint", metricCalcPageOutRate(over.PageOutCounter))]

CounterDefs(at, over) ==
  [CPUConsumptionIndex      |-> Row("interval", "float", metricCalcCPUConsumptionIndex(over.CPUTime)),
   ContextSwitchCounter     |-> Row("point", "uint", metricCalcContextSwitchCounter(at.ContextSwitchCounter)),
   ContextSwitchRate        |-> Row("rate", "uint", metricCalcContextSwitchRate(over.ContextSwitchCounter)),
   HardwareInterruptCounter |-> Row("point", "uint", metricCalcHardwareInterruptCounter(at.HardwareInterruptCounter)),
   HardwareInterruptRate    |-> Row("rate", "uint", metricCalcHardwareInterruptRate(over.HardwareInterruptCounter)),
   UsedPhysicalMemory       |-> Row("point", "uint", metricCalcUsedPhysMem(at.MemorySize)),
   UsedVirtualMemory        |-> Row("point", "uint", metricCalcUsedVirtMem(at.MemorySize)),
   IOWaitTime               |-> Row("interval", "uint", metricCalcIOWaitTime(over.CPUTime)),
   CPUStealTime             |-> Row("interval", "uint", metricCalcStealTime(over.CPUTime))]

=============================================================================
