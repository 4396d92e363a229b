CONSTANTS
  Timeouts = {0, 4, 5}
  SampleMs = 2
SPECIFICATION FairSpec
INVARIANTS
  TypeOK
  
PROPERTIES
  NotValidPublished
