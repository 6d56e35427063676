SPECIFICATION Spec
CONSTANTS
  Packets <- MCPackets
  H264Records <- MCH264Records
  HevcRecords <- MCHevcRecords
  Elements <- MCElements
  Streams <- MCStreams
  Messages <- MCMessages
  Clocks <- MCClocks
  Gaps <- MCGaps
  Waits <- MCWaits
  Window = 40
  MaxHeard = 4
  MaxSent = 130
CHECK_DEADLOCK FALSE
INVARIANTS PacketKeepsNals SpsIsAsWanted MessagesBeforeCut OffsetWithinTrip
