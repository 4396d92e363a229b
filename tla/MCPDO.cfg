CONSTANTS
  Sizes = {0, 2, 4, 257}
  FrameSize = 3
  ReadTimeoutMs = 6
  WriteCycleMs = 3
  SampleMs = 2
  Values = {v1, v2}
  Zero = zero
  None = None
SPECIFICATION FairSpec
INVARIANTS
  TypeOK
  SilenceDetected
  NewestValueSent
PROPERTIES
  DataPublished
  UserValueSent
