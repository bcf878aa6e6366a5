SPECIFICATION Spec
CONSTANTS
  Process = {1, 2}
  FirstGeneration = 4
  MaxGeneration = 9
  MaxOperations = 1
  MaxEventHistory = 2
  Methods = {"attach", "launch", "detach", "stop", "pause", "resume", "continue", "step", "stepOut", "waitForPause", "state", "eventsWait", "trace"}
INVARIANTS
  StateAgrees
  SuccessIsWitnessed
  CaptureIsOfOnePause
  HistoryIsUnbroken
PROPERTIES
  ImplementsObserver
CHECK_DEADLOCK FALSE
