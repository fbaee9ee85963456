SPECIFICATION QueueSpec
CONSTANTS
  MaxPendingDeltas = 2
  SnapLen = 2
  MaxMsgs = 6
INVARIANTS InOrder DeltasCounted NoLostWakeup
PROPERTIES QueuedIsTaken ShutdownCompletes
CHECK_DEADLOCK FALSE
