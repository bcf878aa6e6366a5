SPECIFICATION Spec
CONSTANTS
  MaxEvents = 3
  MaxBreaks = 1
  MaxQueuedEvents = 1
  PipeFrames = 1
  Created = {3}
  Wanted = {2, 3}
  BroadcastCapacity = 1
  AuditRecords = 1
PROPERTY StopReturns
CHECK_DEADLOCK FALSE
