------------------------------- MODULE Devices ---------------------------------
(***************************************************************************)
(* The metrics of block devices, local file systems and processors:        *)
(* plugin/metricStorage.c, plugin/metricLocalFileSystem.c, plugin/         *)
(* metricProcessor.c and plugin/repositoryStorage.c, plugin/               *)
(* repositoryLocalFileSystem.c, plugin/repositoryProcessor.c.              *)
(***************************************************************************)
EXTENDS Calculation

Counters == {"sectorsRead", "sectorsWritten", "user", "nice", "system", "idle"}
Gauges   == {"capacity", "before", "opens", "bavail", "bsize", "blocks", "statfs"}

Possible(os, before) == os.bavail <= os.blocks /\ os.bsize = before.bsize

-----------------------------------------------------------------------------
(* The samplers.                                                           *)

\* A device that cannot be opened, or a file system statfs fails for, has the
\* size found for the one before it in the list.
metricRetrBlockStorage(os) ==
  <<os.sectorsRead \div 2, os.sectorsWritten \div 2, IF os.opens > 0 THEN os.capacity ELSE os.before>>

metricRetrAvSpace(os) == Swap(IF os.statfs > 0 THEN os.bavail * os.bsize ELSE os.before)
metricRetrAvSpacePerc(os) ==
  IF os.statfs > 0 /\ os.blocks # 0 THEN <<100 * os.bavail, os.blocks>> ELSE Zero

metricRetrCPUTime(os) == <<os.user, os.nice, os.system, os.idle>>

Retrieved(os) ==
  [BlockStorage   |-> metricRetrBlockStorage(os),
   AvailableSpace |-> metricRetrAvSpace(os),
   AvailableSpacePercentage |-> metricRetrAvSpacePerc(os),
   CPUTime        |-> metricRetrCPUTime(os)]

-----------------------------------------------------------------------------
(* The calculators.                                                        *)

READ     == 0
WRITE    == 1
CAPACITY == 2
dev_getData(data, index) == IF index < Len(data) THEN data[index + 1] ELSE 0

metricCalcBlockStorage(mv) == Point(mv, LAMBDA data : data)
metricCalcRead(mv)         == Change(mv, LAMBDA data : dev_getData(data, READ))
metricCalcWrite(mv)        == Change(mv, LAMBDA data : dev_getData(data, WRITE))
metricCalcCapacity(mv)     == Latest(mv, LAMBDA data : dev_getData(data, CAPACITY))

metricCalcAvSpace(mv)     == Point(mv, Swap)
metricCalcAvSpacePerc(mv) == Point(mv, LAMBDA data : data)

metricCalcCPUTime(mv) == Point(mv, LAMBDA data : data)

\* With one raw value the other's times are not initialised: any result.
metricCalcCPUTimePerc(mv) ==
  IF Len(mv) = 0 THEN NoResult
  ELSE LET Total(data) == data[1] + data[2] + data[3] + data[4]
           idle  == Newest(mv)[4] - Oldest(mv)[4]
       IN  Result(Remainder(<<100 * idle, Total(Newest(mv)) - Total(Oldest(mv))>>))

-----------------------------------------------------------------------------
(* The tables.                                                             *)

StorageDefs(at, over) ==
  [BlockStorage |-> Row("point", "string", metricCalcBlockStorage(at.BlockStorage)),
   Read         |-> Row("interval", "uint", metricCalcRead(over.BlockStorage)),
   Write        |-> Row("interval", "uint", metricCalcWrite(over.BlockStorage)),
   Capacity     |-> Row("point", "uint", metricCalcCapacity(at.BlockStorage))]

FileSystemDefs(at, over) ==
  [AvailableSpace |-> Row("point", "uint", metricCalcAvSpace(at.AvailableSpace)),
   AvailableSpacePercentage |-> Row("point", "percent", metricCalcAvSpacePerc(at.AvailableSpacePercentage))]

ProcessorDefs(at, over) ==
  [CPUTime |-> Row("point", "string", metricCalcCPUTime(at.CPUTime)),
   TotalCPUTimePercentage |-> Row("interval", "percent", metricCalcCPUTimePerc(over.CPUTime))]

=============================================================================
