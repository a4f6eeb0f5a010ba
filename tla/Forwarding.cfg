SPECIFICATION FairSpec
CONSTANTS
  Chunks = 2
  Capacity <- Pipes
  MaxTroubles = 1
  Browsers = {"browser"}
CHECK_DEADLOCK FALSE
INVARIANTS
  DebuggerTypeOK
  InOrder
  WholeResponse
  PairedRight
  PageHasNoGaps
PROPERTIES
  ImplementsStreams
  EndTogether
  EveryChunkArrives
  ExchangesAreShown
