CONSTANTS
  NSdo = 2
  Readers = {1}
  ODSize <- OneSegment
  SegBytes = 1
  SampleCycles = 0
  ReplyTimeout = 0
  Values = {v1}
  SlaveValues = {}
  Zero = v1
  Header = v1
  None = None
  BusDepth = 1
  Timeouts = TRUE
  PromptThreads = FALSE
  MayBeFull = TRUE
SPECIFICATION FairSpec
INVARIANTS
  LockOwned
PROPERTIES
  TransferEnds
