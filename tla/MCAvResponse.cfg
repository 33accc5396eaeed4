SPECIFICATION MCFairSpec

CONSTANTS
  Tracks = {"video", "audio"}
  MaxFrames = 3
  MaxSize = 2
  ProbeFrames = 2
  PacketSize = 188
  Counters = 4
  TableInterval = 100
  Clock = 1000
  Starts = {560, 900}
  Steps = {50}
  Sizes = {162, 169}
  MaxEmitted = 4

INVARIANTS
  Bounded
  NothingLostSilently
  TakenGoesOut
  TablesHold
  ReaderFollows

PROPERTIES
  LossyInOrder
  EndReachesViewer
  HeldGoesOut

\* The response ends.
CHECK_DEADLOCK FALSE
