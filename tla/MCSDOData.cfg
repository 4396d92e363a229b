CONSTANTS
  NSdo = 2
  Readers = {1}
  ODSize <- TwoSegments
  SegBytes = 2
  SampleCycles = 3
  ReplyTimeout = 1
  Values = {v1, v2}
  SlaveValues = {v1}
  Zero = zero
  Header = header
  None = None
  BusDepth = 2
  Timeouts = FALSE
  PromptThreads = TRUE
  MayBeFull = FALSE
SPECIFICATION FairSlaveSpec
INVARIANTS
  TypeOK
  OneTransfer
  LastValueKept
  ReadWhole
  WriteArrives
PROPERTIES
  UserValueArrives
