SPECIFICATION BackendSafety
CONSTANTS
  c1 = c1
  c2 = c2
  o1 = o1
  f1 = f1
  none = none
  nop = nop
  Request <- MCRequest
  NoRequest <- none
  NoOperation <- nop
  OperationId <- MCOperationId
  Fingerprint <- MCFingerprint
  Value <- Answer
  MaxEntries = 1
  Ttl = 1
  MaxNow = 0
  AbandonedCapacity = 1
  Capacity = 1
  Response <- Answer
  Hasty <- MCHasty
VIEW MCView
INVARIANTS
  DefiniteErrorIsHonest
PROPERTIES
  ImplementsPeer
  StopFindsLoopGone
CHECK_DEADLOCK FALSE
