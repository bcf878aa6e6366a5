SPECIFICATION AdapterSpec
CONSTANTS
  c1 = c1
  c2 = c2
  c3 = c3
  o1 = o1
  o2 = o2
  f1 = f1
  f2 = f2
  none = none
  nop = nop
  Request <- MCRequest2
  NoRequest <- none
  NoOperation <- nop
  OperationId <- MCOperationId
  Fingerprint <- MCFingerprint
  Value <- Answer
  MaxEntries = 1
  Ttl = 1
  MaxNow = 1
  AbandonedCapacity = 1
INVARIANTS
  AtMostOnce
  OkIsTruthful
PROPERTIES
  VerdictFinal
  EntriesAreKept
  CallsSettle
CHECK_DEADLOCK FALSE
