\* A call through NULL ends the process, so deadlock is not checked.
CONSTANTS
  NodeArgs = {0, 3, 128}
  Threads = {"read", "rt"}
  MaxActive = 1
  MaxDevices = 2
  MaxPdos = 4
  MaxSdos = 1
SPECIFICATION FairSpec
INVARIANTS
  TypeOK
  NoNullDevice
  AllServed
  AnswersTrue
PROPERTY LoopsEnd
CHECK_DEADLOCK FALSE
