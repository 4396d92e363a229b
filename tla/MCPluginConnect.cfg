CONSTANTS
  Interfaces = {can0}
  None = None
  MaxOptions = 2
  Configs <- ConnectConfigs
SPECIFICATION PluginSpec
INVARIANTS
  ConnectAsConfigured
CHECK_DEADLOCK FALSE
