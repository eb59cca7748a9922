CONSTANTS
  Packet <- MCPacket
  HeadLen <- MCHeadLen
  MaxSize = 4
  Wrap = 8
  ChunkMax = 5
  UartNum = 2
  RxNum = 2
  Credit = 2
  MaxPkt = 3
SPECIFICATION FairSpec
INVARIANT TypeOK
INVARIANT Reassembled
INVARIANT BackupTimed
PROPERTY Delivered
PROPERTY Recovers
CHECK_DEADLOCK FALSE
