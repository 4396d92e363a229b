CONSTANTS
  Interfaces = {can0, vcan0}
  None = None
  MaxOptions = 3
  Configs <- MCConfigs
SPECIFICATION PluginFairSpec
INVARIANTS
  TypeOK
  OptionsTaken
  SameSocket
  ReadsBoundSocket
  SocketsBounded
  ConnectedPublished
PROPERTIES
  ImplementsSocketCAN
  LoadEnds
  ConnectEnds
  WriteErrorPublished
CHECK_DEADLOCK FALSE
