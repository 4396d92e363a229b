CONSTANTS
  NSdo = 1
  Readers = {1}
  ODSize <- TwoSegments
  SegBytes = 1
  SampleCycles = 0
  ReplyTimeout = 0
  Values = {}
  SlaveValues = {v1}
  Zero = zero
  Header = header
  None = None
  BusDepth = 2
  Timeouts = TRUE
  PromptThreads = TRUE
  MayBeFull = FALSE
SPECIFICATION Spec
INVARIANTS
  OnlySegmentData
