SPECIFICATION LiveSpec
CONSTANTS
  Files <- MCFiles
  Scripts <- MCScripts
  Dotted <- MCDotted
  Streams <- MCStreams
  PollLimit = 3
INVARIANTS
  EvaluatedOnce
  OrderKept
  ImportsCurrent
  HelmetApplied
PROPERTIES
  EveryImportSettles
  GlobalShown
CHECK_DEADLOCK FALSE
