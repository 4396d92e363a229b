SPECIFICATION Spec
INVARIANTS
  WriterConnected
CHECK_DEADLOCK FALSE
