------------------------------- MODULE ZChannels -------------------------------
(***************************************************************************)
(* The metrics of System z channels and of the disks behind them: plugin/  *)
(* metriczCH.c, plugin/channelutil.c, plugin/metriczECKD.c and plugin/     *)
(* repositoryzCH.c, plugin/repositoryzECKD.c.  A disk's sampler reads one  *)
(* value after the other (module Snapshots).                               *)
(***************************************************************************)
EXTENDS Calculation

\* Of a channel: what it did for the machine and for the partition, which of the
\* partition's numbers are valid, and its clock.  Of a disk: what it did, with
\* the average of each time and the number of samples and requests.
Counters == {"clock", "busCycles", "cpcWork", "cpcRead", "cpcWritten", "lparWork", "lparRead", "lparWritten",
             "samples", "requests"}
Gauges   == {"validWork", "validRead", "validWritten", "maxWork", "maxBus", "unitSize",
             "connect", "disconnect", "icmd", "queue"}

Nano == 2                      \* bound: stands for 1000000000
Tick == 1                      \* bound: stands for 128 microseconds
Clock == Base + 2              \* bound: stands for the clock's 24 bits

-----------------------------------------------------------------------------
(* The sampler of a channel: the blocks of the measurement group 2.        *)

parseCue(cmg, os) ==
  [cmg |-> cmg, timestamp |-> os.clock % Clock,
   cuiv |-> {f \in {"validWork", "validRead", "validWritten"} : os[f] > 0},
   block2 |-> <<os.busCycles, os.cpcWork, os.cpcRead, os.cpcWritten, os.lparWork, os.lparRead, os.lparWritten>>]

parseCmc(cmg, os) == [cmg |-> cmg, block2 |-> <<os.unitSize, os.maxBus, os.maxWork>>]

stringifyChannelUtilization(cu) == <<cu.cmg, cu.cuiv, cu.timestamp>> \o cu.block2
stringifyChannelMeasurementCharacteristics(cmc) == <<cmc.cmg>> \o cmc.block2

metricRetrCUE(os) ==
  <<stringifyChannelUtilization(parseCue(2, os)), stringifyChannelMeasurementCharacteristics(parseCmc(2, os))>>

-----------------------------------------------------------------------------
(* The calculators of a channel.                                           *)

destringifyChannelUtilization(block) ==
  [cuiv |-> block[2], timestamp |-> block[3], cpc_bus_cycles |-> block[4],
   cpc_channel_work_units |-> block[5], cpc_data_units_read |-> block[6], cpc_data_units_written |-> block[7],
   lpar_channel_work_units |-> block[8], lpar_data_units_read |-> block[9], lpar_data_units_written |-> block[10]]

destringifyChannelMeasurementCharacteristics(block) ==
  [data_unit_size |-> block[2], maximum_bus_cycles |-> block[3], maximum_channel_work_units |-> block[4]]

parseMetricBlock(data) ==
  [cu  |-> destringifyChannelUtilization(data[1]),
   cmc |-> destringifyChannelMeasurementCharacteristics(data[2])]

\* The clock starts again at 0.
wrapsafe_24delta(new, old) == IF new < old THEN Clock - (old - new) ELSE new - old

\* Work units and bus cycles: the unsigned difference is taken as a signed one.
Signed(n) == IF n >= ULong \div 2 THEN n - ULong ELSE n

Valid(cu1, cu2, bits) == bits \subseteq (cu1.cuiv \cap cu2.cuiv)

Utilization(mv, bits, unit, maximum) ==
  IF Len(mv) < 2 THEN NoResult
  ELSE LET b1  == parseMetricBlock(Newest(mv))
           cu2 == parseMetricBlock(Oldest(mv)).cu
           denominator == wrapsafe_24delta(b1.cu.timestamp, cu2.timestamp) * Tick * b1.cmc[maximum]
       IN  IF ~Valid(b1.cu, cu2, bits) THEN NoResult
           ELSE Result(IF denominator = 0 THEN Zero ELSE <<100 * Signed(Minus(b1.cu[unit], cu2[unit])), denominator>>)

max_ll(lhs, rhs) == IF lhs > rhs THEN lhs ELSE rhs

Throughput(mv, bits, unit) ==
  IF Len(mv) < 2 THEN NoResult
  ELSE LET b1  == parseMetricBlock(Newest(mv))
           cu2 == parseMetricBlock(Oldest(mv)).cu
           interval == wrapsafe_24delta(b1.cu.timestamp, cu2.timestamp) * Tick
           units == Minus(b1.cu[unit], cu2[unit])
       IN  IF ~Valid(b1.cu, cu2, bits) THEN NoResult
           ELSE Result(IF interval = 0 THEN 0
                       ELSE (max_ll(units, 0) * b1.cmc.data_unit_size) \div interval)

metricCalcCUE(mv) == Latest(mv, LAMBDA data : data[1])

metricCalcPartitionUtilizationPercentage(mv) ==
  Utilization(mv, {"validWork"}, "lpar_channel_work_units", "maximum_channel_work_units")
metricCalcTotalUtilizationPercentage(mv) ==
  Utilization(mv, {}, "cpc_channel_work_units", "maximum_channel_work_units")
metricCalcBusUtilizationPercentage(mv) ==
  Utilization(mv, {}, "cpc_bus_cycles", "maximum_bus_cycles")

metricCalcPartitionReadThroughput(mv)  == Throughput(mv, {"validRead"}, "lpar_data_units_read")
metricCalcPartitionWriteThroughput(mv) == Throughput(mv, {"validWritten"}, "lpar_data_units_written")
metricCalcTotalReadThroughput(mv)      == Throughput(mv, {}, "cpc_data_units_read")
metricCalcTotalWriteThroughput(mv)     == Throughput(mv, {}, "cpc_data_units_written")

-----------------------------------------------------------------------------
(* The calculators of a disk.                                              *)

metricRetrECKD(os) ==
  [avg_control_unit_queuing_time |-> os.queue, avg_device_connect_time |-> os.connect,
   avg_device_disconnect_time |-> os.disconnect, avg_initial_command_response_time |-> os.icmd,
   ssch_rsch_count |-> os.requests, sample_count |-> os.samples]

\* What the sum of all samples' times grew by.
GrowthOf(time, currentSample, previousSample) ==
  max_ll(currentSample[time] * currentSample.sample_count - previousSample[time] * previousSample.sample_count, 0)

getConnectTime(currentSample, previousSample) ==
  GrowthOf("avg_device_connect_time", currentSample, previousSample)
getDisconnectTime(currentSample, previousSample) ==
  GrowthOf("avg_device_disconnect_time", currentSample, previousSample)
getICmdResponseTime(currentSample, previousSample) ==
  GrowthOf("avg_initial_command_response_time", currentSample, previousSample)
getControlUnitQueueTime(currentSample, previousSample) ==
  GrowthOf("avg_control_unit_queuing_time", currentSample, previousSample)

getPendingTime(currentSample, previousSample) ==
  getICmdResponseTime(currentSample, previousSample) + getControlUnitQueueTime(currentSample, previousSample)
getResponseTime(currentSample, previousSample) ==
  getPendingTime(currentSample, previousSample) + getConnectTime(currentSample, previousSample)
    + getDisconnectTime(currentSample, previousSample)

getElapsedInterval(mv) == IF Len(mv) > 1 THEN Elapsed(mv) * Nano ELSE 0

getBusyTimeFraction(currentSample, previousSample, interval) ==
  IF interval = 0 THEN Zero
  ELSE <<getConnectTime(currentSample, previousSample) + getDisconnectTime(currentSample, previousSample), interval>>

getRequestCount(currentSample, previousSample) ==
  Minus(currentSample.ssch_rsch_count, previousSample.ssch_rsch_count)

PerRequest(mv, Time(_, _)) ==
  IF Len(mv) < 2 THEN NoResult
  ELSE LET requestCount == getRequestCount(Newest(mv), Oldest(mv))
       IN  Result(IF requestCount = 0 THEN Zero ELSE <<Time(Newest(mv), Oldest(mv)), requestCount>>)

metricCalcECKD(mv)                 == IF mv = <<>> THEN NoResult ELSE Result(Newest(mv))
metricCalcConnectTime(mv)          == PerRequest(mv, getConnectTime)
metricCalcResponseTime(mv)         == PerRequest(mv, getResponseTime)
metricCalcICmdResponseTime(mv)     == PerRequest(mv, getICmdResponseTime)
metricCalcControlUnitQueueTime(mv) == PerRequest(mv, getControlUnitQueueTime)
metricCalcPendingTime(mv)          == PerRequest(mv, getPendingTime)
metricCalcDisconnectTime(mv)       == PerRequest(mv, getDisconnectTime)

metricCalcBusyTimePercentage(mv) ==
  IF Len(mv) < 2 THEN NoResult
  ELSE Result(Times(getBusyTimeFraction(Newest(mv), Oldest(mv), getElapsedInterval(mv)), <<100, 1>>))

metricCalcRequestRate(mv) ==
  IF Len(mv) < 2 THEN NoResult
  ELSE LET interval == getElapsedInterval(mv)
       IN  Result(IF interval = 0 THEN Zero ELSE <<getRequestCount(Newest(mv), Oldest(mv)) * Nano, interval>>)

metricCalcIoIntensity(mv) ==
  IF Len(mv) < 2 THEN NoResult
  ELSE LET interval == getElapsedInterval(mv)
       IN  Result(IF interval = 0 THEN Zero
                  ELSE <<1000 * getRequestCount(Newest(mv), Oldest(mv)) * getResponseTime(Newest(mv), Oldest(mv)),
                         interval>>)

-----------------------------------------------------------------------------
(* The tables, but for the metrics of the raw values themselves.           *)

Retrieved(os) == [CUE_CMC |-> metricRetrCUE(os), ECKD |-> metricRetrECKD(os)]

ChannelDefs(over) ==
  [PartitionUtilizationPercentage |-> Row("interval", "share", metricCalcPartitionUtilizationPercentage(over.CUE_CMC)),
   TotalUtilizationPercentage     |-> Row("interval", "share", metricCalcTotalUtilizationPercentage(over.CUE_CMC)),
   BusUtilizationPercentage       |-> Row("interval", "share", metricCalcBusUtilizationPercentage(over.CUE_CMC)),
   PartitionReadThroughput        |-> Row("interval", "uint", metricCalcPartitionReadThroughput(over.CUE_CMC)),
   PartitionWriteThroughput       |-> Row("interval", "uint", metricCalcPartitionWriteThroughput(over.CUE_CMC)),
   TotalReadThroughput            |-> Row("interval", "uint", metricCalcTotalReadThroughput(over.CUE_CMC)),
   TotalWriteThroughput           |-> Row("interval", "uint", metricCalcTotalWriteThroughput(over.CUE_CMC))]

ECKDDefs(over) ==
  [ResponseTime               |-> Row("interval", "float", metricCalcResponseTime(over.ECKD)),
   InitialCommandResponseTime |-> Row("interval", "float", metricCalcICmdResponseTime(over.ECKD)),
   ControlUnitQueueTime       |-> Row("interval", "float", metricCalcControlUnitQueueTime(over.ECKD)),
   PendingTime                |-> Row("interval", "float", metricCalcPendingTime(over.ECKD)),
   ConnectTime                |-> Row("interval", "float", metricCalcConnectTime(over.ECKD)),
   DisconnectTime             |-> Row("interval", "float", metricCalcDisconnectTime(over.ECKD)),
   AverageDeviceUtilization   |-> Row("interval", "share", metricCalcBusyTimePercentage(over.ECKD)),
   RequestRate                |-> Row("interval", "float", metricCalcRequestRate(over.ECKD)),
   IOIntensity                |-> Row("interval", "float", metricCalcIoIntensity(over.ECKD))]

=============================================================================
