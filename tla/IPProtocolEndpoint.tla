-------------------------- MODULE IPProtocolEndpoint ---------------------------
(***************************************************************************)
(* The metrics of an IP protocol endpoint: plugin/                         *)
(* metricIPProtocolEndpoint.c and plugin/repositoryIPProtocolEndpoint.c.   *)
(***************************************************************************)
EXTENDS Calculation

Counters == {"rbytes", "rpackets", "rerrs", "rdrop", "tbytes", "tpackets", "terrs", "tdrop"}
Gauges   == {}

metricRetrBytesSubmitted(os) ==
  <<os.rbytes, os.tbytes, os.rerrs, os.terrs, os.rpackets, os.tpackets, os.rdrop, os.tdrop>>

Retrieved(os) == [BytesSubmitted |-> metricRetrBytesSubmitted(os)]

-----------------------------------------------------------------------------

RX_BYTE == 0
TX_BYTE == 1
RX_ERRS == 2
TX_ERRS == 3
RX_PACK == 4
TX_PACK == 5
RX_DROP == 6
TX_DROP == 7

\* Mutant: the first separator is not the end of the first number.
ip_getDataAfter(data, index) == IF index + 1 < Len(data) THEN data[index + 2] ELSE 0

\* The number with this index, if a separator ends it.
ip_getData(data, index) == IF index < Len(data) THEN data[index + 1] ELSE 0

metricCalcBytesSubmitted(mv)     == Point(mv, LAMBDA data : data)
metricCalcBytesTransmitted(mv)   == Change(mv, LAMBDA data : ip_getData(data, TX_BYTE))
metricCalcBytesReceived(mv)      == Change(mv, LAMBDA data : ip_getData(data, RX_BYTE))
metricCalcPacketsTransmitted(mv) == Change(mv, LAMBDA data : ip_getData(data, TX_PACK))
metricCalcPacketsReceived(mv)    == Change(mv, LAMBDA data : ip_getData(data, RX_PACK))
metricCalcReceiveDrop(mv)        == Change(mv, LAMBDA data : ip_getData(data, RX_DROP))
metricCalcTransmitDrop(mv)       == Change(mv, LAMBDA data : ip_getData(data, TX_DROP))

metricCalcByteTransRate(mv)   == Rate(mv, LAMBDA data : ip_getData(data, TX_BYTE))
metricCalcByteRecRate(mv)     == Rate(mv, LAMBDA data : ip_getData(data, RX_BYTE))
metricCalcPacketTransRate(mv) == Rate(mv, LAMBDA data : ip_getData(data, TX_PACK))
metricCalcPacketRecRate(mv)   == Rate(mv, LAMBDA data : ip_getData(data, RX_PACK))
metricCalcTransDropRate(mv)   == Rate(mv, LAMBDA data : ip_getData(data, TX_DROP))
metricCalcRecDropRate(mv)     == Rate(mv, LAMBDA data : ip_getData(data, RX_DROP))

metricCalcErrorRate(mv) ==
  FloatRate(mv, LAMBDA data : ip_getData(data, TX_ERRS) + ip_getData(data, RX_ERRS))

-----------------------------------------------------------------------------
(* The table; every metric is over an interval of the one raw metric.      *)

EndpointDefs(at, over) ==
  [BytesSubmitted     |-> Row("point", "string", metricCalcBytesSubmitted(at.BytesSubmitted)),
   BytesTransmitted   |-> Row("interval", "uint", metricCalcBytesTransmitted(over.BytesSubmitted)),
   BytesReceived      |-> Row("interval", "uint", metricCalcBytesReceived(over.BytesSubmitted)),
   ErrorRate          |-> Row("rate", "float", metricCalcErrorRate(over.BytesSubmitted)),
   PacketsTransmitted |-> Row("interval", "uint", metricCalcPacketsTransmitted(over.BytesSubmitted)),
   PacketsReceived    |-> Row("interval", "uint", metricCalcPacketsReceived(over.BytesSubmitted)),
   PacketTransmitRate |-> Row("rate", "uint", metricCalcPacketTransRate(over.BytesSubmitted)),
   PacketReceiveRate  |-> Row("rate", "uint", metricCalcPacketRecRate(over.BytesSubmitted)),
   ByteTransmitRate   |-> Row("rate", "uint", metricCalcByteTransRate(over.BytesSubmitted)),
   ByteReceiveRate    |-> Row("rate", "uint", metricCalcByteRecRate(over.BytesSubmitted))]

DropDefs(at, over) ==
  [ReceivePacketsDropped  |-> Row("interval", "uint", metricCalcReceiveDrop(over.BytesSubmitted)),
   TransmitPacketsDropped |-> Row("interval", "uint", metricCalcTransmitDrop(over.BytesSubmitted)),
   ReceiveDropRate        |-> Row("rate", "uint", metricCalcRecDropRate(over.BytesSubmitted)),
   TransmitDropRate       |-> Row("rate", "uint", metricCalcTransDropRate(over.BytesSubmitted))]

=============================================================================
