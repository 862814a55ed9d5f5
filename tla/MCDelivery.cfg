CONSTANTS
  Task = {main, child}
  Main = main
  Context = {c1}
  MaxRetries = 1
  MaxEvents = 3
  MaxTimeouts = 2
  MaxFaults = 1
SPECIFICATION MCSpec
CHECK_DEADLOCK FALSE
INVARIANTS
  TypeOK
  AcceptedIsStored
  StreamedOnceAfterStored
  CleanSummaryMeansStored
  GapMeansLoss
  VerdictSeesInnerLoss
