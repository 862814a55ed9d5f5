CONSTANTS
  Task = {t1, t2}
  MaxErrors = 2
  MaxCopies = 6
  MaxFaults = 1
  Condition <- MCCondition
  MaxEvents = 3
  MaxPoints = 1
  Export = {e1, e2}
  SessionIds = {s1, s2}
  MaxStored = 2
  MaxClicks = 3
  N = 3
  Failing = {2}
  MaxRefs = 2
  MaxCheckpoints = 2
  TraceLength = 3
  Sources = {"none", "retrieved"}
  ContradictionLevels = 1
  SliceCap = 1
  MaxSuspects = 2
  MaxLinks = 2
SPECIFICATION ReadingSpec
CHECK_DEADLOCK FALSE
VIEW InReader
INVARIANTS
  TotalsSettle
  PositionAgrees
  NoBreakpointPassed
  AloneIsAtomic
  ShownIsSelected
  SearchLands
  ReplayIsBranch
  ViewsAgree
