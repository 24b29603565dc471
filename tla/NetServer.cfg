SPECIFICATION Spec
CONSTANTS
  Packets <- MCPackets
  MaxPacket = 2
  Chunk = 5
  MaxConns = 2
  MaxSends = 2
INVARIANT NoRunaway
PROPERTIES ChannelPromise PacketArrives NoCallbackAfterStop BackToListening
