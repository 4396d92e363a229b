CONSTANTS
  Sizes = {1}
  FrameSize = 1
  ReadTimeoutMs = 5
  WriteCycleMs = 0
  SampleMs = 2
  Values = {v1, v2}
  Zero = zero
  None = None
SPECIFICATION FairSpec
PROPERTIES
  NoFalseTimeout
