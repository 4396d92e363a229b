CONSTANTS
  Threads = {rt, rx}
  Frames = {f1, f2}
  None = None
  MaxCmds = 2
  Errnos = {5}
SPECIFICATION FairSpec
INVARIANTS
  TypeOK
  BuffersSeparate
  CountedSlotsFilled
  ErrorReportedOnce
PROPERTIES
  ImplementsQueue
  ImplementsLiveQueue
  PendingErrorFetched
