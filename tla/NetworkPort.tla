----------------------------- MODULE NetworkPort -------------------------------
(***************************************************************************)
(* The metrics of a network port: plugin/metricNetworkPort.c and           *)
(* plugin/repositoryNetworkPort.c.                                         *)
(***************************************************************************)
EXTENDS Calculation

Counters == {"rbytes", "rpackets", "rerrs", "tbytes", "tpackets", "terrs"}
Gauges   == {}

metricRetrBytesSubmitted(os) == <<os.rbytes, os.tbytes, os.rerrs, os.terrs, os.rpackets, os.tpackets>>

Retrieved(os) == [BytesSubmitted |-> metricRetrBytesSubmitted(os)]

-----------------------------------------------------------------------------

ip_getBytesReceived(data)     == data[1]
ip_getBytesTransmitted(data)  == data[2]
ip_getErrorsReceived(data)    == data[3]
ip_getErrorsTransmitted(data) == data[4]

metricCalcBytesSubmitted(mv)   == Point(mv, LAMBDA data : data)
metricCalcBytesTransmitted(mv) == Change(mv, ip_getBytesTransmitted)
metricCalcBytesReceived(mv)    == Change(mv, ip_getBytesReceived)
metricCalcErrorRate(mv) ==
  FloatRate(mv, LAMBDA data : ip_getErrorsTransmitted(data) + ip_getErrorsReceived(data))

-----------------------------------------------------------------------------
(* The table.                                                              *)

PortDefs(at, over) ==
  [BytesSubmitted   |-> Row("point", "string", metricCalcBytesSubmitted(at.BytesSubmitted)),
   BytesTransmitted |-> Row("interval", "uint", metricCalcBytesTransmitted(over.BytesSubmitted)),
   BytesReceived    |-> Row("interval", "uint", metricCalcBytesReceived(over.BytesSubmitted)),
   ErrorRate        |-> Row("rate", "float", metricCalcErrorRate(over.BytesSubmitted))]

=============================================================================
