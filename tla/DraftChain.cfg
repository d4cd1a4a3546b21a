SPECIFICATION FairSpec
CONSTANTS
  Attempts = 3
  Answer <- AnyAnswer
INVARIANTS CallsAsRecorded FailsOnlyIfAllDo
PROPERTY TakesFirstUsable
CHECK_DEADLOCK FALSE
