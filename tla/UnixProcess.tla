----------------------------- MODULE UnixProcess -------------------------------
(***************************************************************************)
(* The metrics of a process: what plugin/metricUnixProcess.c takes from    *)
(* /proc and what plugin/repositoryUnixProcess.c makes of it.              *)
(***************************************************************************)
EXTENDS Calculation

Counters == {"utime", "stime", "cutime", "cstime", "majflt", "cnswap", "user", "nice", "system", "idle"}
Gauges   == {"vsize", "rss", "shared"}

-----------------------------------------------------------------------------
(* The samplers, for one of the processes of enum_all_pid.                 *)

PageSize == 2

\* The fields 16 and 17 of the stat file are the times of the children.
metricRetrCPUTime(os)        == <<os.cutime, os.cstime, os.user, os.nice, os.system, os.idle>>
metricRetrResSetSize(os)     == Swap(os.rss * PageSize)
metricRetrPageInCounter(os)  == Swap(os.majflt)
metricRetrPageOutCounter(os) == Swap(os.cnswap)
metricRetrVirtualSize(os)    == Swap(os.vsize)
metricRetrSharedSize(os)     == Swap(os.shared * PageSize)

Retrieved(os) ==
  [CPUTime         |-> metricRetrCPUTime(os),
   ResidentSetSize |-> metricRetrResSetSize(os),
   PageInCounter   |-> metricRetrPageInCounter(os),
   VirtualSize     |-> metricRetrVirtualSize(os),
   SharedSize      |-> metricRetrSharedSize(os),
   PageOutCounter  |-> metricRetrPageOutCounter(os)]

-----------------------------------------------------------------------------
(* The calculators.                                                        *)

getCPUUserTime(data)   == data[1] * 10
getCPUKernelTime(data) == data[2] * 10
getCPUTotalTime(data)  == getCPUUserTime(data) + getCPUKernelTime(data)

\* As many characters from the start of the record as its second number has.
os_getCPUUserTime(data) ==
  (IF data[1] >= Base /\ data[2] < Base THEN data[1] \div Base ELSE data[1]) * 10

\* All searches for the third separator start again at the first.
os_getCPUKernelTime(data) == data[2] * 10
os_getCPUIdleTime(data)   == data[6] * 10
os_getCPUTotalTime(data)  == os_getCPUUserTime(data) + os_getCPUKernelTime(data)

os_getCPUIdleTimePercentage(start, end) ==
  LET idle  == Since(start, end, os_getCPUIdleTime)
      total == Since(start, end, os_getCPUTotalTime)
      sums  == os_getCPUIdleTime(end) + os_getCPUIdleTime(start)
                 - os_getCPUTotalTime(end) - os_getCPUTotalTime(start)
  IN  IF start # Nothing /\ sums = 0 THEN Zero ELSE NotNegative(<<100 * idle, idle + total>>)

os_getTotalCPUTimePercentage(start, end) == Remainder(os_getCPUIdleTimePercentage(start, end))

\* The time's part of the system's, of the system's percentage.
PartOfTheSystem(start, end, Time(_)) ==
  LET total == Since(start, end, os_getCPUTotalTime)
  IN  IF start # Nothing /\ total = 0 THEN Zero
      ELSE Times(<<Since(start, end, Time), total>>, os_getTotalCPUTimePercentage(start, end))

getCPUKernelTimePercentage(start, end) == PartOfTheSystem(start, end, getCPUKernelTime)
getCPUUserTimePercentage(start, end)   == PartOfTheSystem(start, end, getCPUUserTime)
getTotalCPUTimePercentage(start, end)  ==
  Plus(getCPUKernelTimePercentage(start, end), getCPUUserTimePercentage(start, end))

metricCalcCPUTime(mv)      == Point(mv, LAMBDA data : data)
metricCalcKernelTime(mv)   == Change(mv, getCPUKernelTime)
metricCalcUserTime(mv)     == Change(mv, getCPUUserTime)
metricCalcTotalCPUTime(mv) == Change(mv, getCPUTotalTime)

metricCalcResSetSize(mv)     == Point(mv, Swap)
metricCalcPageInCounter(mv)  == Point(mv, Swap)
metricCalcPageInRate(mv)     == Rate(mv, Swap)
metricCalcPageOutCounter(mv) == Point(mv, Swap)
metricCalcPageOutRate(mv)    == Rate(mv, Swap)
metricCalcVirtualSize(mv)    == Point(mv, Swap)
metricCalcSharedSize(mv)     == Point(mv, Swap)

metricCalcInternKernelTimePerc(mv)   == Share(mv, getCPUKernelTimePercentage)
metricCalcInternUserTimePerc(mv)     == Share(mv, getCPUUserTimePercentage)
metricCalcInternTotalCPUTimePerc(mv) == Share(mv, getTotalCPUTimePercentage)
metricCalcExternKernelTimePerc(mv)   == Share(mv, getCPUKernelTimePercentage)
metricCalcExternUserTimePerc(mv)     == Share(mv, getCPUUserTimePercentage)
metricCalcExternTotalCPUTimePerc(mv) == Share(mv, getTotalCPUTimePercentage)

metricCalcAccKernelTime(mv)   == Latest(mv, getCPUKernelTime)
metricCalcAccUserTime(mv)     == Latest(mv, getCPUUserTime)
metricCalcAccTotalCPUTime(mv) == Latest(mv, getCPUTotalTime)

-----------------------------------------------------------------------------
(* The table.                                                              *)

TimeDefs(at, over) ==
  [CPUTime         |-> Row("point", "string", metricCalcCPUTime(at.CPUTime)),
   KernelModeTime  |-> Row("interval", "uint", metricCalcKernelTime(over.CPUTime)),
   UserModeTime    |-> Row("interval", "uint", metricCalcUserTime(over.CPUTime)),
   TotalCPUTime    |-> Row("interval", "uint", metricCalcTotalCPUTime(over.CPUTime)),
   ResidentSetSize |-> Row("point", "uint", metricCalcResSetSize(at.ResidentSetSize)),
   PageInCounter   |-> Row("point", "uint", metricCalcPageInCounter(at.PageInCounter)),
   PageInRate      |-> Row("rate", "uint", metricCalcPageInRate(over.PageInCounter)),
   InternalViewKernelModePercentage |-> Row("interval", "percent", metricCalcInternKernelTimePerc(over.CPUTime)),
   InternalViewUserModePercentage   |-> Row("interval", "percent", metricCalcInternUserTimePerc(over.CPUTime)),
   InternalViewTotalCPUPercentage   |-> Row("interval", "percent", metricCalcInternTotalCPUTimePerc(over.CPUTime))]

ViewAndSizeDefs(at, over) ==
  [ExternalViewKernelModePercentage |-> Row("interval", "percent", metricCalcExternKernelTimePerc(over.CPUTime)),
   ExternalViewUserModePercentage   |-> Row("interval", "percent", metricCalcExternUserTimePerc(over.CPUTime)),
   ExternalViewTotalCPUPercentage   |-> Row("interval", "percent", metricCalcExternTotalCPUTimePerc(over.CPUTime)),
   AccumulatedKernelModeTime |-> Row("interval", "uint", metricCalcAccKernelTime(over.CPUTime)),
   AccumulatedUserModeTime   |-> Row("interval", "uint", metricCalcAccUserTime(over.CPUTime)),
   AccumulatedTotalCPUTime   |-> Row("interval", "uint", metricCalcAccTotalCPUTime(over.CPUTime)),
   VirtualSize    |-> Row("point", "uint", metricCalcVirtualSize(at.VirtualSize)),
   SharedSize     |-> Row("point", "uint", metricCalcSharedSize(at.SharedSize)),
   PageOutCounter |-> Row("point", "uint", metricCalcPageOutCounter(at.PageOutCounter)),
   PageOutRate    |-> Row("rate", "uint", metricCalcPageOutRate(over.PageOutCounter))]

=============================================================================
