CONSTANTS
  NSdo = 1
  Readers = {}
  ODSize <- OneSegment
  SegBytes = 1
  SampleCycles = 0
  ReplyTimeout = 0
  Values = {v1}
  SlaveValues = {}
  Zero = zero
  Header = header
  None = None
  BusDepth = 1
  Timeouts = TRUE
  PromptThreads = TRUE
  MayBeFull = FALSE
SPECIFICATION Spec
INVARIANTS
  OnlyUserValues
