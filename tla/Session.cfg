SPECIFICATION LiveSpec
CONSTANTS
  Pages = {"a"}
  Calls = {"a1", "a2"}
  PageOf <- MCPageOf
  TTL = 1
  MaxTime = 3
INVARIANTS
  TypeOK
  AppliedOnce
PROPERTIES
  RefusedOnlyIfExpired
  EveryCallEnds
CHECK_DEADLOCK FALSE
