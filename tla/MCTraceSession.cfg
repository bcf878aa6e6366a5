\* Two traces in one process, so that whatever the first leaves behind can meet
\* the second; the process may be detached from, killed or exit at any point.
CONSTANTS
  PauseReason = {"breakpoint"}
  MaxSteps = 1
  MaxTraces = 2
  MaxEpochs = 1
SPECIFICATION SessionSpec
INVARIANTS
  InterruptIsContained
  UnloadIsSafe
PROPERTIES
  FirstReasonWins
  SupervisedDeadline
CHECK_DEADLOCK FALSE
