SPECIFICATION ExecutorSpec
CONSTANTS
  r1 = r1
  r2 = r2
  r3 = r3
  none = none
  Request <- MCRequest
  NoRequest <- none
  Capacity = 2
  Response = {"value"}
INVARIANTS
  RunsAreAdmitted
  StartedExpiryIsHonest
PROPERTIES
  GivenUpInQueueNeverRuns
  ExecutorProgresses
