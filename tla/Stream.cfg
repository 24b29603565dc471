SPECIFICATION StreamSpec
CONSTANTS
  Desks <- MCDesks
  Virtual = "virtual"
  Sources <- MCSources
  SizeArgs <- MCSizeArgs
  Scales <- MCScales
  MinW = 6
  MinH = 4
  Encoders <- MCEncoders
  MaxEncoders = 2
  Units <- MCUnits
  Streamed <- MCStreamed
INVARIANTS FeedTargetAlive StreamsStartFresh
INVARIANTS ShowsVirtual NoEncoderLeftOut KeyFramesComplete
PROPERTIES StopReturnsUnlessBlocked EndsAsItShould
CHECK_DEADLOCK FALSE
