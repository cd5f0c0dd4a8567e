SPECIFICATION Spec
CONSTANTS
  Names <- MCNames
  Root = "Page"
  Inline <- MCInline
  Disk <- MCDisk
  Pushes <- MCPushes
  MaxPushes = 2
  MaxDepth = 4
INVARIANTS
  ShowsCurrent
  LifecyclesPaired
  FailedNotRetried
  NestingEnds
PROPERTIES
  StreamKept
  StateKept
CHECK_DEADLOCK FALSE
