SPECIFICATION AdapterSpec
CONSTANTS
  c1 = c1
  c2 = c2
  c3 = c3
  o1 = o1
  o2 = o2
  f1 = f1
  f2 = f2
  none = none
  nop = nop
  Request <- MCRequest2
  NoRequest <- none
  NoOperation <- nop
  OperationId <- MCOperationId1
  Fingerprint <- MCFingerprint
  Value <- Answer
  MaxEntries = 1
  Ttl = 1
  MaxNow = 1
  AbandonedCapacity = 1
PROPERTY InFlightFinishes
CHECK_DEADLOCK FALSE
